-------------------------------- MODULE Inbox --------------------------------
(***************************************************************************)
(* Reading mail in the browser: the list (Inbox.jsx), the page of one      *)
(* message (MessageView.jsx), the event stream that announces new mail     *)
(* (sse.js), and the handlers of the webmail API they call.                *)
(*                                                                         *)
(* The router shows one of the two pages.  It keeps the list and its state *)
(* when only the label of the URL changes, and the page of a message when  *)
(* the user jumps in the history from one message to another.  Requests    *)
(* are answered in any order, and the code behind an answer is the code    *)
(* that was current when the request was made: it knows the label, the     *)
(* offset and the message of that moment.                                  *)
(*                                                                         *)
(* Messages are numbered in the order of their creation, and the list has  *)
(* the newest first.  Notices, attachments and the list of labels (which   *)
(* only names the page) are left out, and so is handleDelete of Inbox.jsx, *)
(* which no element calls.  Requests of a page that is gone are left out   *)
(* when nothing but that page would use their answer.                      *)
(***************************************************************************)
EXTENDS Naturals, Sequences, FiniteSets

CONSTANTS
  Label,      \* labels the side bar leads to; one of them is "inbox"
  Limit,      \* messages on a page of the list; 50 in the code
  Stored,     \* messages stored before
  MaxMsgs,    \* bound: messages stored
  MaxPages,   \* bound: how often a page is opened, the first one with it
  MaxCalls,   \* bound: requests in progress at one time
  MaxTurns    \* bound: turns out of the ordinary, see Turn

ASSUME InboxAssumption ==
  /\ "inbox" \in Label /\ "search" \notin Label
  /\ Limit \in Nat \ {0} /\ Stored \in Nat /\ MaxMsgs \in Nat /\ Stored <= MaxMsgs
  /\ MaxPages \in Nat \ {0} /\ MaxCalls \in Nat /\ MaxTurns \in Nat

VARIABLES
  mail,     \* the rows of messages
  stream,   \* is the event stream connected
  event,    \* an event is on its way to the page (two at a time are one)
  page,     \* the page that is open
  calls,    \* requests made and not yet handled by the page's code
  turns,    \* turns so far
  \* history
  wish,     \* what the last click on a message's star asked for
  news      \* the mailbox may have changed behind the list since it was read

vars == <<mail, stream, event, page, calls, turns, wish, news>>

Msg == 1..Len(mail)
None == 0

(* Where a list may be: a label, or the inbox with a search.  The server   *)
(* does not look at what is searched for.                                  *)
Place == Label \cup {"search"}
LabelOf(p) == IF p = "search" THEN "inbox" ELSE p

(* What a list shows of a message, and a page of the list.                 *)
Row(m) == [id |-> m, star |-> mail[m].star, read |-> mail[m].read]
Listed(p) == {m \in Msg : ~mail[m].gone /\ mail[m].label = LabelOf(p)}
Newer(p, m) == Cardinality({n \in Listed(p) : n > m})
Rows(p, offset) ==
  {Row(m) : m \in {n \in Listed(p) : Newer(p, n) \in offset..(offset + Limit - 1)}}

NoAnswer == [rows |-> {}, total |-> 0]

(* Requests: "list" reads the list, "batch" deletes or moves what is       *)
(* ticked, "star" sets a star from the list and "starView" from a message, *)
(* "get" and "read" read and mark a message, "delete" deletes it.          *)
Op == {"list", "batch", "star", "get", "read", "starView", "delete"}
Starring == {"star", "starView"}

Call(op, id) ==
  [op |-> op, page |-> page.no, id |-> id, place |-> page.place, offset |-> page.offset,
   ticks |-> {}, on |-> FALSE, seen |-> page.msg.id, mixed |-> FALSE, tag |-> 1,
   st |-> "asked", ans |-> NoAnswer]

NoMsg == [id |-> None, star |-> FALSE, read |-> FALSE]
Blank(no) ==
  [no |-> no, at |-> "list", place |-> "inbox", offset |-> 0, rows |-> {}, total |-> 0,
   ticks |-> {}, id |-> None, msg |-> NoMsg, loading |-> TRUE, mixed |-> FALSE]

Init ==
  /\ \E label \in [1..Stored -> Label] :
       mail = [m \in 1..Stored |-> [label |-> label[m], star |-> FALSE, read |-> FALSE,
                                    gone |-> FALSE]]
  /\ stream = TRUE /\ event = FALSE
  /\ page = Blank(1)
  /\ calls = {[op |-> "list", page |-> 1, id |-> None, place |-> "inbox", offset |-> 0,
               ticks |-> {}, on |-> FALSE, seen |-> None, mixed |-> FALSE, tag |-> 1,
               st |-> "asked", ans |-> NoAnswer]}
  /\ turns = 0
  /\ wish = [m \in 1..MaxMsgs |-> "none"]
  /\ news = FALSE

(* Bound: what a behaviour has room for.  A click (but for the ticks), a   *)
(* message that comes in, a change made elsewhere and a fault take one     *)
(* turn each.                                                              *)
Turn == turns < MaxTurns /\ turns' = turns + 1

Bounded(cs) == Cardinality(cs) <= MaxCalls
Ask(cs) == calls' = calls \cup cs /\ Bounded(calls')
Then(c, cs) == calls' = (calls \ {c}) \cup cs

Of(no, ops) == {c \in calls : c.page = no /\ c.op \in ops}
StarsOf(m) == {c \in calls : c.op \in Starring /\ c.id = m}

-----------------------------------------------------------------------------
(* The list                                                                *)

(* fetchMessages, on page q with the calls cs in progress: the list is     *)
(* mixed up when it may get two answers in the wrong order, or one for     *)
(* another place.                                                          *)
ListCall(no, p, offset) ==
  [Call("list", None) EXCEPT !.page = no, !.place = p, !.offset = offset, !.seen = None]
Fetched(q, cs, p, offset) ==
  [q EXCEPT !.mixed = \/ \E c \in cs : c.page = q.no /\ c.op = "list"
                      \/ <<p, offset>> # <<q.place, q.offset>>]

(* A mutant: the ticks stay.                                               *)
ShowTicked(p, offset, q) ==
  LET r == [q EXCEPT !.place = p, !.offset = offset] IN
  /\ page' = Fetched(r, calls, p, offset)
  /\ Ask({ListCall(q.no, p, offset)})

(* The page goes to place p: the list is fetched anew and nothing is       *)
(* ticked, but the list stays until the answer comes.                      *)
Show(p, offset, q) ==
  LET r == [q EXCEPT !.place = p, !.offset = offset, !.ticks = {}] IN
  /\ page' = Fetched(r, calls, p, offset)
  /\ Ask({ListCall(q.no, p, offset)})

(* The side bar, or a search.  The offset stays when the list was open.    *)
GoTo(p) ==
  /\ Turn
  /\ IF page.at = "list"
       THEN p # page.place /\ Show(p, page.offset, page)
       ELSE page.no < MaxPages /\ Show(p, 0, Blank(page.no + 1))
  /\ UNCHANGED <<mail, stream, event, wish, news>>

(* The pager, which is there when the list is not empty.                   *)
Previous ==
  /\ Turn
  /\ page.at = "list" /\ page.rows # {} /\ page.offset > 0
  /\ Show(page.place, IF page.offset > Limit THEN page.offset - Limit ELSE 0, page)
  /\ UNCHANGED <<mail, stream, event, wish, news>>
Following ==
  /\ Turn
  /\ page.at = "list" /\ page.rows # {} /\ page.offset + Limit < page.total
  /\ Show(page.place, page.offset + Limit, page)
  /\ UNCHANGED <<mail, stream, event, wish, news>>

(* The refresh button, or an event of the stream: no tick is lost.         *)
FetchMessages ==
  /\ page' = Fetched(page, calls, page.place, page.offset)
  /\ Ask({ListCall(page.no, page.place, page.offset)})
Refresh ==
  /\ Turn
  /\ page.at = "list"
  /\ FetchMessages
  /\ UNCHANGED <<mail, stream, event, wish, news>>
MessageNew ==
  /\ event /\ event' = FALSE
  /\ IF page.at = "list" THEN FetchMessages ELSE UNCHANGED <<page, calls>>
  /\ UNCHANGED <<mail, stream, turns, wish, news>>

(* A tick, with the place where it was made.                               *)
Tick(m) == [id |-> m, place |-> page.place, offset |-> page.offset]
Ticked == {t.id : t \in page.ticks}
ToggleSelect(m) ==
  /\ page.at = "list" /\ \E r \in page.rows : r.id = m
  /\ page' = [page EXCEPT !.ticks = IF m \in Ticked THEN {t \in @ : t.id # m}
                                    ELSE @ \cup {Tick(m)}]
  /\ UNCHANGED <<mail, stream, event, calls, turns, wish, news>>
(* Everything or nothing: the number of ticks decides.                     *)
ToggleSelectAll ==
  /\ page.at = "list" /\ page.rows # {}
  /\ page' = [page EXCEPT !.ticks = IF Cardinality(@) = Cardinality(page.rows) THEN {}
                                    ELSE {Tick(r.id) : r \in page.rows}]
  /\ UNCHANGED <<mail, stream, event, calls, turns, wish, news>>

HandleBatch ==
  /\ Turn
  /\ page.at = "list" /\ page.ticks # {}
  /\ Of(page.no, {"batch"}) = {}    \* bound: one batch at a time
  /\ Ask({[Call("batch", None) EXCEPT !.ticks = page.ticks]})
  /\ UNCHANGED <<mail, stream, event, page, wish, news>>

(* A click on a star asks for the opposite of what is shown.  Clicks on    *)
(* one message that are under way together ask for nothing in particular.  *)
Star(op, m, on) ==
  /\ Turn
  /\ Cardinality(StarsOf(m)) < 2
  /\ Ask({[Call(op, m) EXCEPT !.on = on, !.tag = 1 + Cardinality(StarsOf(m)),
                                !.mixed = op = "starView" /\ page.mixed]})
  /\ Cardinality(calls') > Cardinality(calls)
  /\ wish' = [wish EXCEPT ![m] = IF StarsOf(m) # {} THEN "none" ELSE IF on THEN "on" ELSE "off"]
  /\ UNCHANGED <<mail, stream, event, page, news>>
HandleToggleStar(r) == page.at = "list" /\ r \in page.rows /\ Star("star", r.id, ~r.star)

-----------------------------------------------------------------------------
(* The page of a message                                                   *)

GetCall(no, m) ==
  [Call("get", m) EXCEPT !.page = no, !.place = "inbox", !.offset = 0, !.seen = None]

(* A click on a row.                                                       *)
OpenMessage(m) ==
  /\ Turn
  /\ page.at = "list" /\ (\E r \in page.rows : r.id = m) /\ page.no < MaxPages
  /\ page' = [Blank(page.no + 1) EXCEPT !.at = "view", !.id = m]
  /\ Ask({GetCall(page.no + 1, m)})
  /\ UNCHANGED <<mail, stream, event, wish, news>>

(* The URL becomes that of another message: that message is loaded, and    *)
(* nothing is shown until an answer comes.                                 *)
JumpTo(m) ==
  /\ Turn
  /\ page.at = "view" /\ m # page.id
  /\ page' = [page EXCEPT !.id = m, !.loading = TRUE,
                          !.mixed = @ \/ Of(page.no, {"get", "starView"}) # {}]
  /\ Ask({GetCall(page.no, m)})
  /\ UNCHANGED <<mail, stream, event, wish, news>>

Shown == page.at = "view" /\ ~page.loading /\ page.msg.id # None

HandleDelete ==
  /\ Turn
  /\ Shown /\ Of(page.no, {"delete"}) = {}    \* bound: one click
  /\ Ask({[Call("delete", page.id) EXCEPT !.mixed = page.mixed]})
  /\ UNCHANGED <<mail, stream, event, page, wish, news>>
ToggleStarOfView == Shown /\ Star("starView", page.id, ~page.msg.star)

-----------------------------------------------------------------------------
(* The server                                                              *)

Reply(c, d) == Then(c, {[d EXCEPT !.st = "ok"]})
Refuse(c) == Then(c, {[c EXCEPT !.st = "failed"]})
Here(m) == ~mail[m].gone

ListMessages(c) ==
  /\ Reply(c, [c EXCEPT !.ans = [rows |-> Rows(c.place, c.offset),
                                 total |-> Cardinality(Listed(c.place))]])
  /\ mail' = mail
  /\ news' = (news /\ c.page # page.no)

GetMessage(c) ==
  /\ IF Here(c.id) THEN Reply(c, [c EXCEPT !.ans = [rows |-> {Row(c.id)}, total |-> 1]])
     ELSE Refuse(c)
  /\ UNCHANGED <<mail, news>>

(* The list is read again after a change, if it is still there.            *)
Unseen(c) == c.page # page.no \/ c.op \notin {"batch", "star"}

(* A mutant: a value that is false counts as none.                         *)
PatchMessageTrue(c) ==
  IF Here(c.id)
    THEN /\ mail' = IF c.op = "read" THEN [mail EXCEPT ![c.id].read = TRUE]
                    ELSE [mail EXCEPT ![c.id].star = @ \/ c.on]
         /\ Reply(c, c) /\ news' = (news \/ Unseen(c))
    ELSE Refuse(c) /\ UNCHANGED <<mail, news>>

(* patchMessage sets what it is given, and is refused for a message that   *)
(* is gone.                                                                *)
PatchMessage(c) ==
  IF Here(c.id)
    THEN /\ mail' = IF c.op = "read" THEN [mail EXCEPT ![c.id].read = TRUE]
                    ELSE [mail EXCEPT ![c.id].star = c.on]
         /\ Reply(c, c) /\ news' = (news \/ Unseen(c))
    ELSE Refuse(c) /\ UNCHANGED <<mail, news>>

DeleteMessage(c) ==
  /\ mail' = [mail EXCEPT ![c.id].gone = TRUE]
  /\ Reply(c, c) /\ news' = (news \/ Unseen(c))

(* Each message on its own: one for which it fails stays as it is.  So do, *)
(* in the list, the messages that are archived or reported as spam: a move *)
(* changes their mailbox, and the list goes by the label.                  *)
BatchMessages(c) ==
  /\ \E deleted \in SUBSET c.ticks :
       mail' = [m \in Msg |-> [mail[m] EXCEPT !.gone = @ \/ \E t \in deleted : t.id = m]]
  /\ Reply(c, c) /\ news' = (news \/ Unseen(c))

Serve(c) ==
  /\ c.st = "asked"
  /\ CASE c.op = "list" -> ListMessages(c)
       [] c.op = "batch" -> BatchMessages(c)
       [] c.op = "get" -> GetMessage(c)
       [] c.op \in Starring \cup {"read"} -> PatchMessage(c)
       [] c.op = "delete" -> DeleteMessage(c)
  /\ UNCHANGED <<stream, event, page, turns, wish>>

Unwished(c) == IF c.op \in Starring THEN [wish EXCEPT ![c.id] = "none"] ELSE wish

(* The request fails before it has an effect, or the answer is lost.       *)
Fail(c) ==
  /\ Turn
  /\ c.st \in {"asked", "ok"}
  /\ Refuse(c)
  /\ wish' = Unwished(c)
  /\ news' = (news \/ c.st = "ok")
  /\ UNCHANGED <<mail, stream, event, page>>

(* A message comes in.  It is announced only if somebody publishes the     *)
(* event, if the stream is there and if the hub finds its client waiting.  *)
Deliver ==
  /\ Turn
  /\ Len(mail) < MaxMsgs
  /\ mail' = Append(mail, [label |-> "inbox", star |-> FALSE, read |-> FALSE, gone |-> FALSE])
  /\ \/ stream /\ event' = TRUE /\ news' = news
     \/ event' = event /\ news' = TRUE
  /\ UNCHANGED <<stream, page, calls, wish>>

(* Another session deletes a message, or changes its star.                 *)
Elsewhere(m) ==
  /\ Turn
  /\ Here(m)
  /\ \/ mail' = [mail EXCEPT ![m].gone = TRUE]
     \/ mail' = [mail EXCEPT ![m].star = ~@]
  /\ news' = TRUE
  /\ wish' = [wish EXCEPT ![m] = "none"]
  /\ UNCHANGED <<stream, event, page, calls>>

(* A mutant: the stream that is given up goes on delivering.               *)
DisconnectLate ==
  /\ Turn
  /\ stream /\ stream' = FALSE
  /\ UNCHANGED <<mail, event, page, calls, wish, news>>

(* onerror of the stream, and connect when the timer ends.  Nothing is     *)
(* read again: what was announced meanwhile is not seen.                   *)
Disconnect ==
  /\ Turn
  /\ stream /\ stream' = FALSE /\ event' = FALSE
  /\ news' = (news \/ event)
  /\ UNCHANGED <<mail, page, calls, wish>>
Connect ==
  /\ ~stream /\ stream' = TRUE
  /\ UNCHANGED <<mail, event, page, calls, turns, wish, news>>

-----------------------------------------------------------------------------
(* The answers                                                             *)

Mine(c) == c.page = page.no
Drop(c) == Then(c, {}) /\ page' = page

SetMessages(c) ==
  /\ c.op = "list"
  /\ Then(c, {})
  /\ \/ ~Mine(c) /\ page' = page
     \/ /\ Mine(c) /\ c.st = "ok"
        /\ page' = [page EXCEPT !.rows = c.ans.rows, !.total = c.ans.total]
     \/ Mine(c) /\ c.st # "ok" /\ page' = [page EXCEPT !.mixed = TRUE]

(* A mutant: after a star nothing is read again.                           *)
ChangedUnread(c) ==
  /\ c.op \in {"batch", "star"}
  /\ IF ~Mine(c) \/ c.st = "failed" \/ c.op = "star" THEN Drop(c)
     ELSE /\ Then(c, {ListCall(c.page, c.place, c.offset)})
          /\ page' = Fetched([page EXCEPT !.ticks = {}], calls, c.place, c.offset)

(* The list is read again, at the place where the click was; after a batch *)
(* nothing is ticked any more.                                             *)
Changed(c) ==
  /\ c.op \in {"batch", "star"}
  /\ IF ~Mine(c) \/ c.st = "failed" THEN Drop(c)
     ELSE /\ Then(c, {ListCall(c.page, c.place, c.offset)})
          /\ LET q == IF c.op = "star" THEN page ELSE [page EXCEPT !.ticks = {}] IN
             page' = Fetched(q, calls, c.place, c.offset)

(* The message is shown, whatever the URL says by now, and marked as read, *)
(* whether or not its page is still there.                                 *)
SetMessage(c) ==
  /\ c.op = "get"
  /\ LET got == {r \in c.ans.rows : c.st = "ok"} IN
     /\ Then(c, {[c EXCEPT !.op = "read", !.st = "asked", !.ans = NoAnswer] :
                   r \in {s \in got : ~s.read}})
     /\ \/ ~Mine(c) /\ page' = page
        \/ Mine(c) /\ \E r \in got : page' = [page EXCEPT !.msg = r, !.loading = FALSE]
        \/ Mine(c) /\ got = {} /\ page' = [page EXCEPT !.loading = FALSE, !.mixed = TRUE]

(* The star of a message: the message that was shown at the click is set.  *)
SetStar(c) ==
  /\ c.op = "starView"
  /\ Then(c, {})
  /\ page' = IF Mine(c) /\ c.st = "ok"
               THEN [page EXCEPT !.msg = [@ EXCEPT !.id = c.seen, !.star = c.on],
                                 !.mixed = @ \/ c.id # page.id]
               ELSE page

Marked(c) ==
  /\ c.op = "read"
  /\ Then(c, {})
  /\ page' = IF Mine(c) /\ c.st = "failed" THEN [page EXCEPT !.mixed = TRUE] ELSE page

(* Deleted: one step back in the history of the tab, to a list if the user *)
(* waited, else perhaps to the message itself.                             *)
GoBack(c) ==
  /\ c.op = "delete"
  /\ IF c.st = "failed" THEN Drop(c)
     ELSE /\ page.no < MaxPages
          /\ \/ \E p \in Place :
                  /\ Then(c, {ListCall(page.no + 1, p, 0)})
                  /\ page' = [Blank(page.no + 1) EXCEPT !.place = p]
             \/ /\ ~Mine(c)
                /\ Then(c, {GetCall(page.no + 1, c.id)})
                /\ page' = [Blank(page.no + 1) EXCEPT !.at = "view", !.id = c.id]

Answer(c) ==
  /\ c.st \in {"ok", "failed"}
  /\ \/ SetMessages(c) \/ Changed(c) \/ SetMessage(c) \/ SetStar(c) \/ Marked(c) \/ GoBack(c)
  /\ UNCHANGED <<mail, stream, event, turns, wish, news>>

Next ==
  \/ \E p \in Place : GoTo(p)
  \/ Previous \/ Following \/ Refresh \/ MessageNew
  \/ \E m \in Msg : ToggleSelect(m) \/ OpenMessage(m) \/ JumpTo(m) \/ Elsewhere(m)
  \/ ToggleSelectAll \/ HandleBatch
  \/ \E r \in page.rows : HandleToggleStar(r)
  \/ HandleDelete \/ ToggleStarOfView
  \/ \E c \in calls : Serve(c) \/ Fail(c) \/ Answer(c)
  \/ Deliver \/ Disconnect \/ Connect

Spec == Init /\ [][Next]_vars

-----------------------------------------------------------------------------
RowSet == [id : Msg, star : BOOLEAN, read : BOOLEAN]
TickSet == [id : Msg, place : Place, offset : Nat]

(* The page and the requests refer to messages and pages there are.        *)
TypeOK ==
  /\ mail \in Seq([label : Label, star : BOOLEAN, read : BOOLEAN, gone : BOOLEAN])
  /\ Len(mail) <= MaxMsgs
  /\ stream \in BOOLEAN /\ event \in BOOLEAN /\ (event => stream) /\ news \in BOOLEAN
  /\ page \in [no : 1..MaxPages, at : {"list", "view"}, place : Place, offset : 0..MaxMsgs,
               rows : SUBSET RowSet, total : 0..MaxMsgs, ticks : SUBSET TickSet,
               id : Msg \cup {None}, msg : RowSet \cup {NoMsg}, loading : BOOLEAN,
               mixed : BOOLEAN]
  /\ Cardinality(page.rows) <= Limit
  /\ calls \subseteq [op : Op, page : 1..page.no, id : Msg \cup {None}, place : Place,
                      offset : 0..MaxMsgs, ticks : SUBSET TickSet, on : BOOLEAN,
                      seen : Msg \cup {None}, mixed : BOOLEAN, tag : {1, 2},
                      st : {"asked", "ok", "failed"},
                      ans : [rows : SUBSET RowSet, total : 0..MaxMsgs]]
  /\ turns \in 0..MaxTurns
  /\ wish \in [1..MaxMsgs -> {"none", "on", "off"}]

(* A list at rest shows what the mailbox holds at its place, whatever was  *)
(* starred, deleted, announced or left in between: unless two fetches were *)
(* under way at one time, or the last one was for the place of an earlier  *)
(* click, or failed; and but for what happened behind its back.            *)
ListTells ==
  page.at = "list" /\ ~page.mixed /\ ~news /\ ~event
    /\ Of(page.no, {"list", "batch", "star"}) = {} =>
      page.rows = Rows(page.place, page.offset)
      /\ page.total = Cardinality(Listed(page.place))

(* The user changes what he sees.  A batch takes messages that were ticked *)
(* at the place it is asked for; and the message that is deleted or        *)
(* starred is the one that was shown, unless loads overlapped or failed,   *)
(* or the answer to an earlier star came after a jump.                     *)
ActsOnShown ==
  \A c \in calls :
    /\ c.op = "batch" => \A t \in c.ticks : t.place = c.place /\ t.offset = c.offset
    /\ c.op \in {"delete", "starView"} => c.id = c.seen \/ c.mixed

(* When no change of a message is under way, its star is what the last     *)
(* click asked for, and the message that is shown is read: but for clicks  *)
(* that overlapped, failures, and what others did.                         *)
FlagsSettle ==
  /\ \A m \in Msg : Here(m) /\ StarsOf(m) = {} /\ wish[m] # "none" =>
       mail[m].star = (wish[m] = "on")
  /\ Shown /\ ~page.mixed /\ Of(page.no, {"read"}) = {} => mail[page.msg.id].read
=============================================================================
