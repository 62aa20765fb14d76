------------------------------ MODULE Mailbox ------------------------------
(***************************************************************************)
(* One user's mail as IMAP connections, delivering workers and the webmail *)
(* API change it at once: messages with labels (the IMAP mailboxes), their *)
(* flags, and the UIDs of imap_uids.  internal/imap (imapMailbox) runs a   *)
(* command as a loop over a list of messages read at its start, with a few *)
(* statements for each of them and no transaction around them, on top of   *)
(* internal/mailstore (PGStore).                                           *)
(*                                                                         *)
(* A message is its place in the order of creation, in which ListMessages  *)
(* returns them.  One step is one statement (or one transaction of the     *)
(* store) with the local decisions that follow it.  Of the system flags,   *)
(* "seen" stands for the four that also have a column in messages, and     *)
(* "deleted" for the one that has not.  Clients name messages by UID; the  *)
(* MODSEQ of a row, which no command uses, is left out, and so are labels  *)
(* that are created, renamed or deleted.                                   *)
(***************************************************************************)
EXTENDS Integers, Sequences, FiniteSets

CONSTANTS
  MaxMessages,    \* bound: messages that are ever created
  Box,            \* names of the user's labels
  Actor,          \* goroutines: IMAP connections and workers
  Batch,          \* maxIMAPBatchSize, 5000 in the code
  MaxCommands,    \* bound: IMAP commands other than APPEND
  Disruptions,    \* which of "webmail" (a request of that API), "db", "crash"
                  \* may happen
  MaxDisruptions, \* bound: how many of them may happen in a behaviour
  None

Message == 1..MaxMessages
Flag == {"seen", "deleted"}
Column == {"seen"}

VARIABLES
  \* PostgreSQL
  rows,        \* messages that exist
  labeled,     \* labels of a message
  flags,       \* its rows in message_flags
  columns,     \* its flags in messages: is_read and the like
  uids,        \* imap_uids
  last,        \* imap_uids_uid_seq
  \* the goroutines
  pc,          \* where one stands in its command
  cmd,         \* the command it runs, or None
  todo,        \* messages of its list it has not finished
  listed,      \* how many messages it listed so far
  stmts,       \* statements left for the message at hand
  \* the clients
  shown,       \* UIDs that FETCH answered
  \* the environment
  created,     \* number of messages so far
  commands, disrupted,
  \* history
  named,       \* every row imap_uids ever had
  raced,       \* a message and a box whose UID two goroutines made at once
  touched,     \* messages marked as unread by the webmail API
  torn,        \* messages whose flags two at once, or half a command, changed
  spared       \* messages unmarked or labelled while an EXPUNGE ran, or that
               \* it could not read or reach

dbVars == <<rows, labeled, flags, columns, uids, last>>
goVars == <<pc, cmd, todo, listed, stmts>>
counters == <<created, commands, disrupted>>
history == <<named, raced, touched, torn, spared>>
vars == <<dbVars, goVars, shown, counters, history>>

(* "idle"    has no command                                                *)
(* "look"    about to look for the UID of the message at hand              *)
(* "insert"  found none, and is about to insert one                        *)
(* "stmt"    STORE, about to run the next of stmts                         *)
(* "apply"   COPY, about to add the label                                  *)
(* "read"    EXPUNGE, about to read the flags of the message at hand       *)
(* "remove"  EXPUNGE, about to remove the label                            *)
(* "list"    EXPUNGE, about to list the next page                          *)
PC == {"idle", "look", "insert", "stmt", "apply", "read", "remove", "list"}

(* The UID derived from the message's UUID where the database gives none:  *)
(* a time in units of 65 seconds, the same for messages created together.  *)
Derived == 0

Uid == [box : Box, uid : Nat, msg : Message]

Command ==
  [kind : {"fetch", "deliver"}, box : Box]
    \cup [kind : {"expunge"}, box : Box, marked : SUBSET Message]
    \cup [kind : {"add", "remove", "replace"}, box : Box, aim : Uid, flag : Flag]
    \cup [kind : {"copy"}, box : Box, aim : Uid, dest : Box]

Statement ==
  [do : {"set", "clear", "wipe"}, flag : Flag]
    \cup [do : {"mark", "unmark"}, flag : Column]

ASSUME MailboxAssumption ==
  /\ MaxMessages \in Nat /\ Batch \in Nat \ {0}
  /\ MaxCommands \in Nat /\ MaxDisruptions \in Nat
  /\ Disruptions \subseteq {"webmail", "db", "crash"}
  /\ None \notin Command

-----------------------------------------------------------------------------

Init ==
  /\ rows = {} /\ uids = {} /\ last = 0
  /\ labeled = [m \in Message |-> {}]
  /\ flags = [m \in Message |-> {}]
  /\ columns = [m \in Message |-> {}]
  /\ pc = [a \in Actor |-> "idle"]
  /\ cmd = [a \in Actor |-> None]
  /\ todo = [a \in Actor |-> {}]
  /\ listed = [a \in Actor |-> 0]
  /\ stmts = [a \in Actor |-> <<>>]
  /\ shown = {}
  /\ created = 0 /\ commands = 0 /\ disrupted = 0
  /\ named = {} /\ raced = {} /\ touched = {} /\ torn = {} /\ spared = {}

Disrupt(d) ==
  /\ d \in Disruptions
  /\ disrupted < MaxDisruptions
  /\ disrupted' = disrupted + 1

(* The message at hand.                                                    *)
First(a) == CHOOSE m \in todo[a] : \A n \in todo[a] : m <= n

In(b) == {m \in rows : b \in labeled[m]}

(* ListMessages with a limit of Batch.                                     *)
Page(b, offset) ==
  {m \in In(b) :
     Cardinality({n \in In(b) : n < m}) \in offset..(offset + Batch - 1)}

GoTo(a, l) == pc' = [pc EXCEPT ![a] = l]

(* The command is over, with or without an error.                          *)
End(a) ==
  /\ GoTo(a, "idle")
  /\ cmd' = [cmd EXCEPT ![a] = None]
  /\ todo' = [todo EXCEPT ![a] = {}]
  /\ listed' = [listed EXCEPT ![a] = 0]
  /\ stmts' = [stmts EXCEPT ![a] = <<>>]

(* Mutant: the break leaves the loop over the messages.                    *)
AdvanceEarly(a, l) == End(a)

(* On to the next message, or out of the loop; l is where the loop starts. *)
(* EXPUNGE lists again after a full page.                                  *)
Advance(a, l) ==
  LET left == todo[a] \ {First(a)}
      again == cmd[a].kind = "expunge" /\ listed[a] % Batch = 0
  IN IF left = {} /\ ~again
     THEN End(a)
     ELSE /\ todo' = [todo EXCEPT ![a] = left]
          /\ stmts' = [stmts EXCEPT ![a] = <<>>]
          /\ GoTo(a, IF left = {} THEN "list" ELSE l)
          /\ UNCHANGED <<cmd, listed>>

(* The goroutine a starts on the messages ms with c, at l.                 *)
Start(a, c, ms, l) ==
  /\ GoTo(a, l)
  /\ cmd' = [cmd EXCEPT ![a] = c]
  /\ todo' = [todo EXCEPT ![a] = ms]
  /\ listed' = [listed EXCEPT ![a] = Cardinality(ms)]
  /\ UNCHANGED stmts

(* It is given the IMAP command c, which is over when the mailbox is empty.*)
Ask(a, c, l) ==
  /\ pc[a] = "idle" /\ commands < MaxCommands
  /\ commands' = commands + 1
  /\ IF In(c.box) = {} THEN UNCHANGED goVars ELSE Start(a, c, Page(c.box, 0), l)

-----------------------------------------------------------------------------
(* New messages.                                                           *)

Create(b, seen) ==
  /\ created < MaxMessages
  /\ created' = created + 1
  /\ rows' = rows \cup {created + 1}
  /\ labeled' = [labeled EXCEPT ![created + 1] = {b}]
  /\ columns' = [columns EXCEPT ![created + 1] = seen]

(* A processor or the SMTP server stores a message and then gives it a UID.*)
Deliver(a, b) ==
  /\ pc[a] = "idle"
  /\ Create(b, {})
  /\ Start(a, [kind |-> "deliver", box |-> b], {created + 1}, "look")
  /\ UNCHANGED <<flags, uids, last, shown, commands, disrupted, history>>

(* APPEND.                                                                 *)
AppendMessage(b, seen) ==
  /\ Create(b, seen)
  /\ UNCHANGED <<flags, uids, last, goVars, shown, commands, disrupted,
                 history>>

-----------------------------------------------------------------------------
(* IMAP commands.                                                          *)

Fetch(a, b) ==
  /\ Ask(a, [kind |-> "fetch", box |-> b], "look")
  /\ UNCHANGED <<dbVars, shown, created, disrupted, history>>

(* UID STORE of one flag on one message a client has seen.                 *)
Store(a, r, op, f) ==
  /\ Ask(a, [kind |-> op, box |-> r.box, aim |-> r, flag |-> f], "look")
  /\ UNCHANGED <<dbVars, shown, created, disrupted, history>>

(* UID COPY.                                                               *)
Copy(a, r, d) ==
  /\ Ask(a, [kind |-> "copy", box |-> r.box, aim |-> r, dest |-> d], "look")
  /\ UNCHANGED <<dbVars, shown, created, disrupted, history>>

Expunging == \E a \in Actor : cmd[a] # None /\ cmd[a].kind = "expunge"

Expunge(a, b) ==
  /\ Ask(a, [kind |-> "expunge", box |-> b,
             marked |-> {m \in Page(b, 0) : "deleted" \in flags[m]}], "read")
  /\ spared' = IF Expunging THEN spared ELSE {}
  /\ UNCHANGED <<dbVars, shown, created, disrupted, named, raced,
                 touched, torn>>

Do(d, f) == [do |-> d, flag |-> f]

(* Mutant: the columns are reset after the new flag is set.                *)
ChangesResetLast(op, f) ==
  LET mark == IF f \in Column THEN <<Do("mark", f)>> ELSE <<>>
      unmark == IF f \in Column THEN <<Do("unmark", f)>> ELSE <<>>
  IN CASE op = "add"     -> <<Do("set", f)>> \o mark
       [] op = "remove"  -> <<Do("clear", f)>> \o unmark
       [] op = "replace" -> <<Do("wipe", "seen"), Do("wipe", "deleted"),
                              Do("set", f)>> \o mark \o <<Do("unmark", "seen")>>

(* The statements of a STORE for one message.                              *)
Changes(op, f) ==
  LET mark == IF f \in Column THEN <<Do("mark", f)>> ELSE <<>>
      unmark == IF f \in Column THEN <<Do("unmark", f)>> ELSE <<>>
  IN CASE op = "add"     -> <<Do("set", f)>> \o mark
       [] op = "remove"  -> <<Do("clear", f)>> \o unmark
       [] op = "replace" -> <<Do("wipe", "seen"), Do("wipe", "deleted"),
                              Do("unmark", "seen"), Do("set", f)>> \o mark

(* Somebody is in the middle of changing the flags of m.                   *)
Changing(m) == \E b \in Actor : pc[b] = "stmt" /\ First(b) = m

(* The message at hand has UID n: FETCH answers it, and STORE and COPY see *)
(* whether it is the one they are for.                                     *)
Numbered(a, n) ==
  LET c == cmd[a]
      m == First(a)
  IN IF c.kind \in {"fetch", "deliver"} \/ c.aim.uid # n
     THEN /\ Advance(a, "look")
          /\ shown' = IF c.kind # "fetch" THEN shown
                      ELSE shown \cup {[box |-> c.box, uid |-> n, msg |-> m]}
          /\ UNCHANGED torn
     ELSE /\ UNCHANGED <<cmd, todo, listed, shown>>
          /\ IF c.kind = "copy"
             THEN GoTo(a, "apply") /\ UNCHANGED <<stmts, torn>>
             ELSE /\ GoTo(a, "stmt")
                  /\ stmts' = [stmts EXCEPT ![a] = Changes(c.kind, c.flag)]
                  /\ torn' = IF Changing(m) THEN torn \cup {m} ELSE torn

UidsOf(m, b) == {r \in uids : r.msg = m /\ r.box = b}

(* Somebody is about to insert a UID for m in b.                           *)
Inserting(m, b) ==
  \E o \in Actor : pc[o] = "insert" /\ First(o) = m /\ cmd[o].box = b

(* None found, as far as the caller knows.                                 *)
Missing(a) ==
  LET m == First(a)
      b == cmd[a].box
  IN /\ GoTo(a, "insert")
     /\ raced' = IF Inserting(m, b) THEN raced \cup {<<m, b>>} ELSE raced
     /\ UNCHANGED <<cmd, todo, listed, stmts, shown, torn>>

(* Mutant: the lookup names the mailbox otherwise than the insert does and *)
(* finds nothing.                                                          *)
LookElsewhere(a) ==
  /\ pc[a] = "look"
  /\ Missing(a)
  /\ UNCHANGED <<dbVars, counters, named, touched, spared>>

(* GetIMAPUID, and the SELECT of GetOrCreateIMAPUID: a UID of the message  *)
(* (any of them, if it has several), or none.  A command runs both; what   *)
(* happens between them happens before the one that decides.               *)
Look(a) ==
  LET found == UidsOf(First(a), cmd[a].box)
  IN /\ pc[a] = "look"
     /\ \/ (\E r \in found : Numbered(a, r.uid)) /\ UNCHANGED raced
        \/ found = {} /\ Missing(a)
     /\ UNCHANGED <<dbVars, counters, named, touched, spared>>

(* The SELECT fails: a command goes on with the derived number, a delivery *)
(* inserts a UID without knowing whether there is one.                     *)
LookFails(a) ==
  /\ pc[a] = "look"
  /\ Disrupt("db")
  /\ IF cmd[a].kind = "deliver"
     THEN /\ GoTo(a, "insert")
          /\ raced' = raced \cup {<<First(a), cmd[a].box>>}
          /\ UNCHANGED <<cmd, todo, listed, stmts, shown, torn>>
     ELSE Numbered(a, Derived) /\ UNCHANGED raced
  /\ UNCHANGED <<dbVars, created, commands, named, touched, spared>>

(* Mutant: the next UID is one more than the largest there is.             *)
NextUidOfMax(b) ==
  LET used == {r.uid : r \in {q \in uids : q.box = b}} \cup {0}
  IN 1 + CHOOSE n \in used : \A k \in used : k <= n

(* nextval: the sequence, which all mailboxes share, never gives a number  *)
(* twice, whatever is deleted.  (The MODSEQ draws numbers from it as well.)*)
NextUid(b) == last + 1

NewUid(a) ==
  [box |-> cmd[a].box, uid |-> NextUid(cmd[a].box), msg |-> First(a)]

PutUid(a) ==
  /\ uids' = uids \cup {NewUid(a)}
  /\ named' = named \cup {NewUid(a)}

(* The INSERT of GetOrCreateIMAPUID; it draws its number in any case, and  *)
(* is refused when the message is gone.                                    *)
Insert(a) ==
  /\ pc[a] = "insert"
  /\ last' = last + 1
  /\ IF First(a) \in rows
     THEN PutUid(a) /\ Numbered(a, NextUid(cmd[a].box))
     ELSE UNCHANGED <<uids, named>> /\ Numbered(a, Derived)
  /\ UNCHANGED <<rows, labeled, flags, columns, counters, raced, touched,
                 spared>>

(* It fails, carried out or not.                                           *)
InsertFails(a) ==
  /\ pc[a] = "insert"
  /\ Disrupt("db")
  /\ \/ First(a) \in rows /\ last' = last + 1 /\ PutUid(a)
     \/ UNCHANGED <<last, uids, named>>
  /\ Numbered(a, Derived)
  /\ UNCHANGED <<rows, labeled, flags, columns, created, commands, raced,
                 touched, spared>>

Spare(ms) == spared' = IF Expunging THEN spared \cup ms ELSE spared

(* SetFlag, ClearFlag and UpdateMessage; statements on a message that is   *)
(* gone match no row.                                                      *)
CarryOut(s, m) ==
  /\ flags' = [flags EXCEPT ![m] =
       CASE s.do = "set" /\ m \in rows   -> @ \cup {s.flag}
         [] s.do \in {"clear", "wipe"}   -> @ \ {s.flag}
         [] OTHER                        -> @]
  /\ columns' = [columns EXCEPT ![m] =
       CASE s.do = "mark" /\ m \in rows  -> @ \cup {s.flag}
         [] s.do = "unmark"              -> @ \ {s.flag}
         [] OTHER                        -> @]
  /\ Spare(IF s = Do("clear", "deleted") \/ s = Do("wipe", "deleted")
           THEN {m} ELSE {})

Continue(a) ==
  IF Len(stmts[a]) = 1
  THEN Advance(a, "look")
  ELSE /\ stmts' = [stmts EXCEPT ![a] = Tail(@)]
       /\ UNCHANGED <<pc, cmd, todo, listed>>

(* The next statement of a STORE.  A flag cannot be set on a message that  *)
(* is gone, and the command ends there.                                    *)
Stmt(a) ==
  LET s == Head(stmts[a])
      m == First(a)
  IN /\ pc[a] = "stmt"
     /\ CarryOut(s, m)
     /\ IF s.do = "set" /\ m \notin rows THEN End(a) ELSE Continue(a)
     /\ UNCHANGED <<rows, labeled, uids, last, shown, counters, named, raced,
                    touched, torn>>

(* It fails, carried out or not: the command ends, unless the code throws  *)
(* the error away.                                                         *)
StmtFails(a) ==
  LET s == Head(stmts[a])
      m == First(a)
  IN /\ pc[a] = "stmt"
     /\ Disrupt("db")
     /\ CarryOut(s, m) \/ UNCHANGED <<flags, columns, spared>>
     /\ IF s.do \in {"set", "clear"} THEN End(a) ELSE Continue(a)
     /\ torn' = torn \cup {m}
     /\ UNCHANGED <<rows, labeled, uids, last, shown, created, commands, named,
                    raced, touched>>

(* COPY adds the label.                                                    *)
AddLabel(m, b) ==
  /\ labeled' = [labeled EXCEPT ![m] = @ \cup {b}]
  /\ Spare({m})

Apply(a) ==
  LET m == First(a)
  IN /\ pc[a] = "apply"
     /\ IF m \in rows
        THEN AddLabel(m, cmd[a].dest) /\ Advance(a, "look")
        ELSE UNCHANGED <<labeled, spared>> /\ End(a)
     /\ UNCHANGED <<rows, flags, columns, uids, last, shown, counters, named,
                    raced, touched, torn>>

ApplyFails(a) ==
  LET m == First(a)
  IN /\ pc[a] = "apply"
     /\ Disrupt("db")
     /\ \/ m \in rows /\ AddLabel(m, cmd[a].dest)
        \/ UNCHANGED <<labeled, spared>>
     /\ End(a)
     /\ UNCHANGED <<rows, flags, columns, uids, last, shown, created, commands,
                    named, raced, touched, torn>>

-----------------------------------------------------------------------------
(* EXPUNGE.                                                                *)

(* Mutant: a message is removed whatever its flags are.                    *)
ReadFlagsOfNone(a) ==
  /\ pc[a] = "read"
  /\ GoTo(a, "remove")
  /\ UNCHANGED <<cmd, todo, listed, stmts, dbVars, shown, counters, history>>

ReadFlags(a) ==
  /\ pc[a] = "read"
  /\ IF "deleted" \in flags[First(a)]
     THEN GoTo(a, "remove") /\ UNCHANGED <<cmd, todo, listed, stmts>>
     ELSE Advance(a, "read")
  /\ UNCHANGED <<dbVars, shown, counters, history>>

(* The error is thrown away, and the message keeps its label.              *)
ReadFlagsFails(a) ==
  /\ pc[a] = "read"
  /\ Disrupt("db")
  /\ Advance(a, "read")
  /\ Spare({First(a)})
  /\ UNCHANGED <<dbVars, shown, created, commands, named, raced, touched,
                 torn>>

DropLabel(m, b) == labeled' = [labeled EXCEPT ![m] = @ \ {b}]

Remove(a) ==
  /\ pc[a] = "remove"
  /\ DropLabel(First(a), cmd[a].box)
  /\ Advance(a, "read")
  /\ UNCHANGED <<rows, flags, columns, uids, last, shown, counters, history>>

RemoveFails(a) ==
  /\ pc[a] = "remove"
  /\ Disrupt("db")
  /\ DropLabel(First(a), cmd[a].box) \/ UNCHANGED labeled
  /\ End(a)
  /\ Spare(cmd[a].marked)
  /\ UNCHANGED <<rows, flags, columns, uids, last, shown, created, commands,
                 named, raced, touched, torn>>

(* The next page starts after as many messages as were listed so far, in   *)
(* what is left of the mailbox.                                            *)
List(a) ==
  LET page == Page(cmd[a].box, listed[a])
  IN /\ pc[a] = "list"
     /\ IF page = {}
        THEN End(a)
        ELSE /\ GoTo(a, "read")
             /\ todo' = [todo EXCEPT ![a] = page]
             /\ listed' = [listed EXCEPT ![a] = @ + Cardinality(page)]
             /\ UNCHANGED <<cmd, stmts>>
     /\ UNCHANGED <<dbVars, shown, counters, history>>

ListFails(a) ==
  /\ pc[a] = "list"
  /\ Disrupt("db")
  /\ End(a)
  /\ UNCHANGED <<dbVars, shown, created, commands, history>>

-----------------------------------------------------------------------------
(* The webmail API, one statement a request.                               *)

(* A click in the middle of a STORE on the same message.                   *)
Tear(m) == torn' = IF Changing(m) THEN torn \cup {m} ELSE torn

MarkRead(m) ==
  /\ Disrupt("webmail") /\ m \in rows
  /\ columns' = [columns EXCEPT ![m] = @ \cup {"seen"}]
  /\ Tear(m)
  /\ UNCHANGED <<rows, labeled, flags, uids, last, goVars, shown, created,
                 commands, named, raced, touched, spared>>

(* Only the column: message_flags keeps what IMAP put there.               *)
MarkUnread(m) ==
  /\ Disrupt("webmail") /\ m \in rows
  /\ columns' = [columns EXCEPT ![m] = @ \ {"seen"}]
  /\ Tear(m)
  /\ touched' = touched \cup {m}
  /\ UNCHANGED <<rows, labeled, flags, uids, last, goVars, shown, created,
                 commands, named, raced, spared>>

(* Mutant: the UIDs of a deleted message stay.                             *)
DeleteMessageAlone(m) ==
  /\ Disrupt("webmail") /\ m \in rows
  /\ rows' = rows \ {m}
  /\ labeled' = [labeled EXCEPT ![m] = {}]
  /\ flags' = [flags EXCEPT ![m] = {}]
  /\ columns' = [columns EXCEPT ![m] = {}]
  /\ UNCHANGED <<uids, last, goVars, shown, created, commands, history>>

(* The row goes, and what refers to it with it.                            *)
DeleteMessage(m) ==
  /\ Disrupt("webmail") /\ m \in rows
  /\ rows' = rows \ {m}
  /\ labeled' = [labeled EXCEPT ![m] = {}]
  /\ flags' = [flags EXCEPT ![m] = {}]
  /\ columns' = [columns EXCEPT ![m] = {}]
  /\ uids' = {r \in uids : r.msg # m}
  /\ UNCHANGED <<last, goVars, shown, created, commands, history>>

Relabel(m, b) ==
  /\ Disrupt("webmail") /\ m \in rows
  /\ \/ AddLabel(m, b)
     \/ DropLabel(m, b) /\ UNCHANGED spared
  /\ UNCHANGED <<rows, flags, columns, uids, last, goVars, shown, created,
                 commands, named, raced, touched, torn>>

-----------------------------------------------------------------------------

(* A process ends with the goroutines as it runs.                          *)
Crash(as) ==
  /\ Disrupt("crash")
  /\ pc' = [a \in Actor |-> IF a \in as THEN "idle" ELSE pc[a]]
  /\ cmd' = [a \in Actor |-> IF a \in as THEN None ELSE cmd[a]]
  /\ todo' = [a \in Actor |-> IF a \in as THEN {} ELSE todo[a]]
  /\ listed' = [a \in Actor |-> IF a \in as THEN 0 ELSE listed[a]]
  /\ stmts' = [a \in Actor |-> IF a \in as THEN <<>> ELSE stmts[a]]
  /\ torn' = torn \cup {First(a) : a \in {b \in as : pc[b] = "stmt"}}
  /\ Spare(UNION {cmd[a].marked :
                    a \in {b \in as : cmd[b] # None /\ cmd[b].kind = "expunge"}})
  /\ UNCHANGED <<dbVars, shown, created, commands, named, raced, touched>>

Give(a) ==
  \/ \E b \in Box : Deliver(a, b) \/ Fetch(a, b) \/ Expunge(a, b)
  \/ \E r \in shown, op \in {"add", "remove", "replace"}, f \in Flag :
       Store(a, r, op, f)
  \/ \E r \in shown, d \in Box : Copy(a, r, d)

Step(a) ==
  \/ Look(a) \/ LookFails(a) \/ Insert(a) \/ InsertFails(a)
  \/ Stmt(a) \/ StmtFails(a) \/ Apply(a) \/ ApplyFails(a)
  \/ ReadFlags(a) \/ ReadFlagsFails(a) \/ Remove(a) \/ RemoveFails(a)
  \/ List(a) \/ ListFails(a)

Webmail ==
  \E m \in Message :
    \/ MarkRead(m) \/ MarkUnread(m) \/ DeleteMessage(m)
    \/ \E b \in Box : Relabel(m, b)

Next ==
  \/ \E a \in Actor : Give(a) \/ Step(a)
  \/ \E b \in Box, seen \in SUBSET Column : AppendMessage(b, seen)
  \/ Webmail
  \/ \E as \in (SUBSET Actor) \ {{}} : Crash(as)

Spec == Init /\ [][Next]_vars

-----------------------------------------------------------------------------
(* Properties.                                                             *)

(* Every variable keeps its type; labels, flags and UIDs belong to messages*)
(* that exist; and a goroutine has a message at hand exactly where its loop*)
(* has one.                                                                *)
TypeOK ==
  /\ rows \subseteq 1..created /\ created \in 0..MaxMessages
  /\ labeled \in [Message -> SUBSET Box]
  /\ flags \in [Message -> SUBSET Flag]
  /\ columns \in [Message -> SUBSET Column]
  /\ \A m \in Message \ rows : labeled[m] = {} /\ flags[m] = {} /\ columns[m] = {}
  /\ uids \subseteq Uid /\ named \subseteq Uid /\ shown \subseteq Uid
  /\ \A r \in uids : r.msg \in rows
  /\ last \in Nat
  /\ pc \in [Actor -> PC]
  /\ cmd \in [Actor -> Command \cup {None}]
  /\ todo \in [Actor -> SUBSET (1..created)]
  /\ listed \in [Actor -> Nat]
  /\ stmts \in [Actor -> Seq(Statement)]
  /\ \A a \in Actor :
       /\ cmd[a] = None <=> pc[a] = "idle"
       /\ todo[a] = {} <=> pc[a] \in {"idle", "list"}
       /\ stmts[a] # <<>> <=> pc[a] = "stmt"
  /\ commands \in 0..MaxCommands /\ disrupted \in 0..MaxDisruptions
  /\ raced \subseteq Message \X Box
  /\ touched \subseteq Message /\ torn \subseteq Message /\ spared \subseteq Message

(* A UID of a mailbox stands for one message for ever: one that was removed*)
(* or deleted does not hand its UID to a later one.                        *)
UidsNeverReused ==
  \A r, q \in named : r.box = q.box /\ r.uid = q.uid => r.msg = q.msg

(* A message has two UIDs in one mailbox only if two goroutines looked for *)
(* one before either inserted it, or one of them could not look.           *)
OneUid ==
  \A r, q \in uids :
    r.msg = q.msg /\ r.box = q.box /\ r # q => <<r.msg, r.box>> \in raced

(* STORE and COPY change the message the client was shown under the UID it *)
(* names, however many sessions expunge, deliver and delete in between; a  *)
(* derived number is the one exception.                                    *)
RightTarget ==
  \A a \in Actor :
    pc[a] \in {"stmt", "apply"} /\ cmd[a].aim.uid # Derived
      => First(a) = cmd[a].aim.msg

(* The two places of a flag agree: a message with a row for \Seen counts as*)
(* read, unless the webmail API marked it as unread or its flags were      *)
(* changed by two at once or by half a command.                            *)
SeenAgrees ==
  \A m \in Message :
    "seen" \in flags[m]
      => "seen" \in columns[m] \/ m \in touched \cup torn \/ Changing(m)

(* EXPUNGE removes no message that is not marked \Deleted, except one that *)
(* was unmarked after it read its flags.                                   *)
ExpungesMarked ==
  \A a \in Actor :
    pc[a] = "remove" /\ First(a) \in rows
      => "deleted" \in flags[First(a)] \/ First(a) \in spared

(* When EXPUNGE ends, the messages of its first page that were marked when *)
(* it began have left the mailbox, except those that were unmarked or      *)
(* labelled again meanwhile, that it could not read, or that it did not    *)
(* reach before it failed.  (Later pages it does not get right: removing   *)
(* moves the rest of the mailbox past the offset.)                         *)
ExpungeComplete ==
  [][\A a \in Actor :
       pc[a] \in {"read", "remove", "list"} /\ pc'[a] = "idle"
         => \A m \in cmd[a].marked :
              cmd[a].box \in labeled'[m] => m \in spared']_vars
=============================================================================
