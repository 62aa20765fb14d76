--------------------------- MODULE ComposeProofs ---------------------------
(***************************************************************************)
(* Proofs about Compose, for any addresses, files and bounds: its type     *)
(* invariant, DraftsEarned, QuietMeansSaved and MailedAsClicked.           *)
(***************************************************************************)
EXTENDS Compose, TLAPS, FiniteSetTheorems, SequenceTheorems

Ids == Draft \cup {None}
Versions == 0..edits
RowSet == [state : {"draft", "sent", "gone"}, body : Versions,
           cc : SUBSET Addr, atts : SUBSET File, by : 0..page.no]
ContentSet == [body : Versions, cc : SUBSET Addr]
CallSet == [op : Op, page : 1..page.no, id : Ids, what : ContentSet, files : SUBSET File,
            of : Ids, st : {"asked", "ok", "failed"}]
ClickSet == [id : Draft, page : 1..page.no, body : 1..edits, files : SUBSET File]
MailSet == [id : Draft, body : Versions, bare : BOOLEAN, files : SUBSET File]

(* A request without a draft creates one; the request that starts one for  *)
(* a file always does, and a mail without text is not sent.                *)
CallOK(c) ==
  /\ c \in CallSet
  /\ c.id = None => c.op \in Writing /\ (c.st = "ok" => c.of # None)
  /\ c.op = "start" => c.id = None
  /\ c.op = "submit" /\ c.id = None /\ c.st # "failed" => c.what.body # 0

(* TypeOK, part by part.                                                   *)
RowsOK == drafts \in Seq(RowSet) /\ Len(drafts) <= MaxDrafts
JobsOK ==
  jobs \in [1..MaxDrafts -> Nat] /\ \A d \in 1..MaxDrafts : jobs[d] > 0 => d \in Draft
HandOK == hand \in [id : Ids, body : Versions] /\ (hand.id = None => hand = Nobody)
MailsOK == mails \subseteq MailSet
PageOK ==
  /\ page \in [no : 0..MaxPages, open : BOOLEAN, loaded : Ids, id : Ids, body : Versions,
               cc : SUBSET Addr, sending : BOOLEAN, armed : BOOLEAN]
  /\ page.open => page.no # 0
CallsOK == IsFiniteSet(calls) /\ \A c \in calls : CallOK(c)
CountsOK == edits \in 0..MaxEdits /\ turns \in 0..MaxTurns
ClicksOK == clicks \subseteq ClickSet
FilesOK == kept \subseteq (1..page.no) \X File /\ binned \subseteq File
HistoryOK == raced \subseteq Draft /\ shaky \in BOOLEAN /\ excess \in [1..MaxPages -> Nat]
TypeInv ==
  /\ RowsOK /\ JobsOK /\ HandOK /\ MailsOK /\ PageOK /\ CallsOK
  /\ CountsOK /\ ClicksOK /\ FilesOK /\ HistoryOK

-----------------------------------------------------------------------------
(* Versions, pages and drafts only become more                             *)

Grown ==
  /\ edits' \in 0..MaxEdits /\ edits <= edits'
  /\ page'.no \in 0..MaxPages /\ page.no <= page'.no
  /\ Len(drafts') \in Nat /\ Len(drafts) <= Len(drafts')

LEMMA Numbers ==
  ASSUME TypeInv
  PROVE  /\ edits \in 0..MaxEdits /\ edits \in Nat /\ 0 \in Versions
         /\ page.no \in 0..MaxPages /\ page.no \in Nat
         /\ Len(drafts) \in Nat /\ None \notin Draft /\ Draft \subseteq 1..MaxDrafts
<1>1. edits \in 0..MaxEdits /\ page.no \in 0..MaxPages
  BY DEF TypeInv, CountsOK, PageOK
<1>2. edits \in Nat /\ page.no \in Nat /\ 0 \in Versions
  BY <1>1, ComposeAssumption DEF Versions
<1>3. Len(drafts) \in Nat /\ Len(drafts) <= MaxDrafts
  <2>1. drafts \in Seq(RowSet) /\ Len(drafts) <= MaxDrafts
    BY DEF TypeInv, RowsOK
  <2> QED BY <2>1, LenProperties
<1>4. None \notin Draft /\ Draft \subseteq 1..MaxDrafts
  BY <1>3, ComposeAssumption DEF None, Draft
<1> QED BY <1>1, <1>2, <1>3, <1>4

(* Nothing became more.                                                    *)
LEMMA Still ==
  ASSUME TypeInv, UNCHANGED <<drafts, edits>>, page'.no = page.no
  PROVE  Grown
BY Numbers DEF Grown

LEMMA SetsGrow ==
  ASSUME TypeInv, Grown
  PROVE  /\ Draft \subseteq Draft' /\ Ids \subseteq Ids'
         /\ Versions \subseteq Versions' /\ ContentSet \subseteq ContentSet'
         /\ RowSet \subseteq RowSet' /\ CallSet \subseteq CallSet'
         /\ ClickSet \subseteq ClickSet' /\ MailSet \subseteq MailSet'
         /\ 1..page.no \subseteq 1..page'.no /\ 1..page'.no \subseteq 1..MaxPages
<1>1. /\ Draft \subseteq Draft' /\ Versions \subseteq Versions'
      /\ 1..page.no \subseteq 1..page'.no /\ 0..page.no \subseteq 0..page'.no
      /\ 1..edits \subseteq 1..edits' /\ 1..page'.no \subseteq 1..MaxPages
  BY Numbers, ComposeAssumption DEF Grown, Draft, Versions
<1>2. Ids \subseteq Ids'
  BY <1>1 DEF Ids
<1>3. ContentSet \subseteq ContentSet'
  BY <1>1 DEF ContentSet
<1>4. RowSet \subseteq RowSet'
  BY <1>1 DEF RowSet
<1>5. CallSet \subseteq CallSet'
  BY <1>1, <1>2, <1>3 DEF CallSet
<1>6. ClickSet \subseteq ClickSet'
  BY <1>1 DEF ClickSet
<1>7. MailSet \subseteq MailSet'
  BY <1>1 DEF MailSet
<1> QED BY <1>1, <1>2, <1>3, <1>4, <1>5, <1>6, <1>7

LEMMA OldCalls ==
  ASSUME TypeInv, Grown
  PROVE  \A c \in calls : CallOK(c) /\ CallOK(c)'
<1>1. CallSet \subseteq CallSet'
  BY SetsGrow
<1>2. \A c \in calls : CallOK(c)
  BY DEF TypeInv, CallsOK
<1> QED BY <1>1, <1>2 DEF CallOK

(* What a step leaves alone keeps its type.                                *)
LEMMA Carried ==
  ASSUME TypeInv, Grown
  PROVE  /\ drafts' = drafts => RowsOK'
         /\ jobs' = jobs => JobsOK'
         /\ hand' = hand => HandOK'
         /\ mails' = mails => MailsOK'
         /\ page' = page => PageOK'
         /\ calls' = calls => CallsOK'
         /\ clicks' = clicks => ClicksOK'
         /\ UNCHANGED <<kept, binned>> => FilesOK'
         /\ UNCHANGED <<raced, shaky, excess>> => HistoryOK'
         /\ turns' = turns => CountsOK'
<1>1. /\ Draft \subseteq Draft' /\ Ids \subseteq Ids'
      /\ Versions \subseteq Versions'
      /\ RowSet \subseteq RowSet'
      /\ ClickSet \subseteq ClickSet' /\ MailSet \subseteq MailSet'
      /\ 1..page.no \subseteq 1..page'.no
  BY SetsGrow
<1>2. drafts' = drafts => RowsOK'
  <2>1. drafts \in Seq(RowSet) /\ Len(drafts) <= MaxDrafts
    BY DEF TypeInv, RowsOK
  <2>2. Seq(RowSet) \subseteq Seq(RowSet')
    BY <1>1, SeqMonotonic
  <2> QED BY <2>1, <2>2 DEF RowsOK
<1>3. jobs' = jobs => JobsOK'
  BY <1>1 DEF TypeInv, JobsOK
<1>4. hand' = hand => HandOK'
  BY <1>1 DEF TypeInv, HandOK
<1>5. mails' = mails => MailsOK'
  BY <1>1 DEF TypeInv, MailsOK
<1>6. page' = page => PageOK'
  BY <1>1 DEF TypeInv, PageOK
<1>7. calls' = calls => CallsOK'
  BY OldCalls DEF TypeInv, CallsOK
<1>8. clicks' = clicks => ClicksOK'
  BY <1>1 DEF TypeInv, ClicksOK
<1>9. UNCHANGED <<kept, binned>> => FilesOK'
  BY <1>1 DEF TypeInv, FilesOK
<1>10. UNCHANGED <<raced, shaky, excess>> => HistoryOK'
  BY <1>1 DEF TypeInv, HistoryOK
<1>11. turns' = turns => CountsOK'
  BY DEF TypeInv, CountsOK, Grown
<1> QED BY <1>2, <1>3, <1>4, <1>5, <1>6, <1>7, <1>8, <1>9, <1>10, <1>11

LEMMA Turned ==
  ASSUME TypeInv, Turn
  PROVE  turns' \in 0..MaxTurns
<1>1. turns \in 0..MaxTurns
  BY DEF TypeInv, CountsOK
<1> QED BY <1>1, ComposeAssumption DEF Turn

LEMMA Asked ==
  ASSUME TypeInv, Grown, NEW c, CallOK(c)', calls' = calls \cup {c}
  PROVE  CallsOK'
<1>1. IsFiniteSet(calls')
  BY FS_AddElement DEF TypeInv, CallsOK
<1>2. \A d \in calls : CallOK(d)'
  BY OldCalls
<1> QED BY <1>1, <1>2 DEF CallsOK

LEMMA Exchanged ==
  ASSUME TypeInv, Grown, NEW c, NEW d, CallOK(d)', calls' = (calls \ {c}) \cup {d}
  PROVE  CallsOK'
<1>1. IsFiniteSet(calls \ {c})
  BY FS_RemoveElement DEF TypeInv, CallsOK
<1>2. IsFiniteSet(calls')
  BY <1>1, FS_AddElement
<1>3. \A e \in calls : CallOK(e)'
  BY OldCalls
<1> QED BY <1>2, <1>3 DEF CallsOK

LEMMA Removed ==
  ASSUME TypeInv, Grown, NEW c, calls' = calls \ {c}
  PROVE  CallsOK'
<1>1. IsFiniteSet(calls')
  BY FS_RemoveElement DEF TypeInv, CallsOK
<1>2. \A e \in calls : CallOK(e)'
  BY OldCalls
<1> QED BY <1>1, <1>2 DEF CallsOK

LEMMA Contents ==
  ASSUME TypeInv
  PROVE  /\ Empty \in ContentSet /\ Shown \in ContentSet
         /\ Empty.body = 0 /\ Shown.body = page.body /\ Shown.cc = page.cc
         /\ page.id \in Ids /\ None \in Ids
<1>1. page.body \in Versions /\ page.cc \subseteq Addr /\ page.id \in Ids
  BY DEF TypeInv, PageOK
<1>2. 0 \in Versions
  BY Numbers
<1> QED BY <1>1, <1>2 DEF Empty, Shown, Content, ContentSet, Ids

(* A request of the page.                                                  *)
LEMMA CallTypes ==
  ASSUME TypeInv, page.open, NEW op \in Op, NEW id \in Ids, NEW what \in ContentSet,
         NEW files \in SUBSET File, NEW c, c = Call(op, id, what, files)
  PROVE  /\ c \in CallSet
         /\ c.op = op /\ c.id = id /\ c.what = what /\ c.files = files
         /\ c.page = page.no /\ c.of = None /\ c.st = "asked"
<1>1. page.no \in 1..page.no
  BY Numbers DEF TypeInv, PageOK
<1>2. None \in Ids
  BY DEF Ids
<1> QED BY <1>1, <1>2 DEF Call, CallSet

(* A request for a draft there is.                                         *)
LEMMA CallIsOK ==
  ASSUME TypeInv, Grown, page.open, NEW op \in Op \ {"start"}, NEW id \in Draft,
         NEW what \in ContentSet, NEW files \in SUBSET File,
         NEW c, c = Call(op, id, what, files)
  PROVE  CallOK(c)'
<1>1. c \in CallSet /\ c.op = op /\ c.id = id
  BY CallTypes DEF Ids
<1>2. CallSet \subseteq CallSet'
  BY SetsGrow
<1>3. id # None
  BY Numbers
<1> QED BY <1>1, <1>2, <1>3 DEF CallOK, Call

LEMMA Written ==
  ASSUME TypeInv, Grown, page.open, NEW op \in Writing, NEW files \in SUBSET File,
         op = "start" => page.id = None, op = "submit" => page.body # 0,
         Write(op, files)
  PROVE  CallsOK' /\ shaky' \in BOOLEAN /\ excess' \in [1..MaxPages -> Nat]
<1> PICK c : c = Call(op, page.id, Shown, files)
  OBVIOUS
<1>1. /\ c \in CallSet
      /\ c.op = op /\ c.id = page.id /\ c.what = Shown /\ c.st = "asked"
  BY CallTypes, Contents DEF Op, Writing
<1>2. CallSet \subseteq CallSet'
  BY SetsGrow
<1>3. CallOK(c)'
  BY <1>1, <1>2, Contents DEF CallOK
<1>4. calls' = calls \cup {c}
  BY DEF Write, Ask
<1>5. CallsOK'
  BY <1>3, <1>4, Asked
<1>6. excess' \in [1..MaxPages -> Nat]
  <2>1. excess \in [1..MaxPages -> Nat]
    BY DEF TypeInv, HistoryOK
  <2>2. excess' = excess \/ excess' = [excess EXCEPT ![page.no] = @ + 1]
    BY DEF Write
  <2> QED BY <2>1, <2>2
<1> QED BY <1>5, <1>6 DEF Write

-----------------------------------------------------------------------------
(* The steps of the page keep the types                                    *)

LEMMA OpenTypes ==
  ASSUME TypeInv, NEW d \in Ids, Open(d)
  PROVE  TypeInv'
<1>1. PICK n : /\ n = 0 \/ (d = None /\ n = edits + 1)
               /\ n <= MaxEdits
               /\ edits' = IF n = 0 THEN edits ELSE n
               /\ page' = [Blank(page.no + 1, d) EXCEPT !.open = TRUE, !.body = n,
                                                        !.armed = TRUE]
  BY DEF Open
<1>2. /\ ~page.open /\ page.no < MaxPages
      /\ (turns' = turns \/ Turn)
      /\ UNCHANGED <<serverVars, clicks, kept, binned, raced, excess>> /\ shaky' = FALSE
      /\ IF d = None THEN calls' = calls
         ELSE calls' = calls \cup {[Call("load", d, Empty, {}) EXCEPT !.page = page.no + 1]}
  BY DEF Open, Ask
<1>3. /\ page'.no = page.no + 1 /\ page'.open = TRUE /\ page'.loaded = None
      /\ page'.id = d /\ page'.body = n /\ page'.cc = {}
      /\ page' = [no |-> page.no + 1, open |-> TRUE, loaded |-> None, id |-> d,
                  body |-> n, cc |-> {}, sending |-> FALSE, armed |-> TRUE]
  BY <1>1 DEF Blank
<1>4. Grown
  <2>1. edits' \in 0..MaxEdits /\ edits <= edits'
    BY <1>1, Numbers, ComposeAssumption
  <2>2. page'.no \in 0..MaxPages /\ page.no <= page'.no
    BY <1>2, <1>3, Numbers, ComposeAssumption
  <2> QED BY <1>2, <2>1, <2>2, Numbers DEF Grown, serverVars
<1>5. PageOK'
  <2>1. page'.no \in 0..MaxPages /\ page'.no # 0
    BY <1>4, <1>3, Numbers DEF Grown
  <2>2. n \in 0..edits'
    BY <1>1, Numbers
  <2>3. d \in Ids' /\ None \in Ids'
    BY <1>4, SetsGrow DEF Ids
  <2> QED BY <1>3, <2>1, <2>2, <2>3 DEF PageOK, Versions
<1>6. CallsOK'
  <2>1. CASE d = None
    BY <1>2, <1>4, <2>1, Carried
  <2>2. CASE d # None
    <3>1. PICK c : c = [Call("load", d, Empty, {}) EXCEPT !.page = page.no + 1]
      OBVIOUS
    <3>2. c = [op |-> "load", page |-> page'.no, id |-> d, what |-> Empty, files |-> {},
               of |-> None, st |-> "asked"]
      BY <1>3, <3>1 DEF Call
    <3>3. Empty \in ContentSet' /\ d \in Ids' /\ None \in Ids'
      BY <1>4, SetsGrow, Contents
    <3>4. page'.no \in 1..page'.no
      BY <1>3, Numbers
    <3>5. c \in CallSet'
      BY <3>2, <3>3, <3>4 DEF CallSet, Op
    <3>6. CallOK(c)'
      BY <2>2, <3>2, <3>5 DEF CallOK
    <3> QED BY <1>2, <1>4, <2>2, <3>1, <3>6, Asked
  <2> QED BY <2>1, <2>2
<1>7. CountsOK'
  BY <1>2, <1>4, Turned DEF CountsOK, Grown, TypeInv
<1>8. HistoryOK'
  <2>1. raced' \subseteq Draft'
    BY <1>2, <1>4, SetsGrow DEF TypeInv, HistoryOK
  <2> QED BY <1>2, <2>1 DEF TypeInv, HistoryOK
<1> QED BY <1>2, <1>4, <1>5, <1>6, <1>7, <1>8, Carried DEF TypeInv, serverVars

(* A step of the page that is open: the server does nothing.               *)
LEMMA PageTypes ==
  ASSUME TypeInv, Grown, UNCHANGED serverVars, PageOK', CallsOK', ClicksOK', HistoryOK',
         UNCHANGED <<kept, binned>>, turns' = turns \/ Turn
  PROVE  TypeInv'
<1>1. RowsOK' /\ JobsOK' /\ HandOK' /\ MailsOK' /\ FilesOK'
  BY Carried DEF serverVars
<1>2. CountsOK'
  BY Turned DEF CountsOK, Grown, TypeInv
<1> QED BY <1>1, <1>2 DEF TypeInv

LEMMA JumpTypes ==
  ASSUME TypeInv, NEW d \in Draft, Jump(d)
  PROVE  TypeInv'
<1>1. Grown
  BY Still DEF Jump, serverVars
<1>2. PICK c : c = Call("load", d, Empty, {})
  OBVIOUS
<1>3. CallOK(c)'
  BY <1>1, <1>2, CallIsOK, Contents DEF Jump, Op
<1>4. CallsOK'
  BY <1>1, <1>2, <1>3, Asked DEF Jump, Ask
<1> QED BY <1>1, <1>4, PageTypes, Carried DEF Jump, serverVars, history

LEMMA EditTypes ==
  ASSUME TypeInv, Edit
  PROVE  TypeInv'
<1>1. /\ page.open /\ edits' = edits + 1 /\ edits < MaxEdits
      /\ page' = [page EXCEPT !.body = edits + 1, !.armed = TRUE]
      /\ UNCHANGED <<serverVars, calls, turns, history>>
  BY DEF Edit
<1>2. page'.no = page.no
  BY <1>1 DEF TypeInv, PageOK
<1>3. edits' \in 0..MaxEdits /\ edits <= edits' /\ edits + 1 \in 0..edits'
  BY <1>1, Numbers, ComposeAssumption
<1>4. Grown
  BY <1>1, <1>2, <1>3, Numbers DEF Grown, serverVars
<1>5. PageOK'
  <2>1. Ids \subseteq Ids'
    BY <1>4, SetsGrow
  <2> QED BY <1>1, <1>3, <2>1 DEF TypeInv, PageOK, Versions
<1> QED BY <1>1, <1>4, <1>5, PageTypes, Carried DEF history

LEMMA EditCcTypes ==
  ASSUME TypeInv, NEW a \in Addr, EditCc(a)
  PROVE  TypeInv'
<1>1. /\ page.open
      /\ page' = [page EXCEPT !.cc = IF a \in @ THEN @ \ {a} ELSE @ \cup {a}, !.armed = TRUE]
      /\ UNCHANGED <<serverVars, calls, edits, history>>
  BY DEF EditCc
<1>2. page'.no = page.no
  BY <1>1 DEF TypeInv, PageOK
<1>3. Grown
  BY <1>1, <1>2, Still DEF serverVars
<1>4. PageOK'
  <2>1. Ids \subseteq Ids' /\ Versions \subseteq Versions'
    BY <1>3, SetsGrow
  <2> QED BY <1>1, <2>1 DEF TypeInv, PageOK
<1> QED BY <1>1, <1>3, <1>4, PageTypes, Carried DEF history, EditCc

(* Nothing but the page's flags changes.                                   *)
LEMMA Flagged ==
  ASSUME TypeInv, UNCHANGED <<drafts, edits>>,
         \/ \E b \in BOOLEAN : page' = [page EXCEPT !.armed = b]
         \/ \E b \in BOOLEAN : page' = [page EXCEPT !.sending = b]
  PROVE  Grown /\ PageOK'
<1>1. page'.no = page.no
  BY DEF TypeInv, PageOK
<1>2. Grown
  BY <1>1, Still
<1>3. Ids \subseteq Ids' /\ Versions \subseteq Versions'
  BY <1>2, SetsGrow
<1> QED BY <1>2, <1>3 DEF TypeInv, PageOK

LEMMA PersistTypes ==
  ASSUME TypeInv, Persist
  PROVE  TypeInv'
<1>1. /\ page.open /\ page' = [page EXCEPT !.armed = FALSE]
      /\ UNCHANGED <<serverVars, edits, turns, clicks, kept, binned>>
      /\ \/ UNCHANGED <<calls, shaky, excess, raced>>
         \/ Write("save", {}) /\ raced' \subseteq raced \cup ({page.id} \ {None})
  BY DEF Persist
<1>2. Grown /\ PageOK'
  BY <1>1, Flagged DEF serverVars
<1>3. ClicksOK'
  BY <1>1, <1>2, Carried
<1>4. CASE UNCHANGED <<calls, shaky, excess, raced>>
  BY <1>1, <1>2, <1>3, <1>4, PageTypes, Carried
<1>5. CASE Write("save", {}) /\ raced' \subseteq raced \cup ({page.id} \ {None})
  <2>1. CallsOK' /\ shaky' \in BOOLEAN /\ excess' \in [1..MaxPages -> Nat]
    BY <1>1, <1>2, <1>5, Written DEF Writing
  <2>2. raced' \subseteq Draft'
    <3>1. raced \subseteq Draft /\ {page.id} \ {None} \subseteq Draft
      BY Contents DEF TypeInv, HistoryOK, Ids
    <3> QED BY <1>2, <1>5, <3>1, SetsGrow
  <2>3. HistoryOK'
    BY <2>1, <2>2 DEF HistoryOK
  <2> QED BY <1>1, <1>2, <1>3, <2>1, <2>3, PageTypes
<1> QED BY <1>1, <1>4, <1>5

LEMMA HandleSendTypes ==
  ASSUME TypeInv, HandleSend
  PROVE  TypeInv'
<1>1. /\ page.open /\ page.body # 0 /\ page' = [page EXCEPT !.sending = TRUE]
      /\ Write("submit", AttachedTo(page.no))
      /\ raced' = raced \/ (raced' = raced \cup {page.id} /\ Writes(page.id) # {})
      /\ clicks' \subseteq clicks \cup {Click(d, page.no, Shown, AttachedTo(page.no)) :
                                          d \in {page.id} \ {None}}
      /\ UNCHANGED <<serverVars, edits, turns, kept, binned>>
  BY DEF HandleSend
<1>2. Grown /\ PageOK'
  BY <1>1, Flagged DEF serverVars
<1>3. AttachedTo(page.no) \subseteq File
  BY DEF AttachedTo
<1>4. CallsOK' /\ shaky' \in BOOLEAN /\ excess' \in [1..MaxPages -> Nat]
  BY <1>1, <1>2, <1>3, Written DEF Writing
<1>5. HistoryOK'
  <2>1. Writes(page.id) # {} => page.id \in Draft
    BY Contents DEF Writes, Ids
  <2>2. raced' \subseteq Draft
    BY <1>1, <2>1 DEF TypeInv, HistoryOK
  <2> QED BY <1>2, <1>4, <2>2, SetsGrow DEF HistoryOK
<1>6. ClicksOK'
  <2>1. ClickSet \subseteq ClickSet'
    BY <1>2, SetsGrow
  <2>2. page.body \in 1..edits /\ page.no \in 1..page.no
    BY <1>1, Numbers DEF TypeInv, PageOK, Versions
  <2>3. \A d \in {page.id} \ {None} :
          Click(d, page.no, Shown, AttachedTo(page.no)) \in ClickSet
    BY <1>3, <2>2, Contents DEF Click, ClickSet, Ids
  <2> QED BY <1>1, <2>1, <2>3 DEF TypeInv, ClicksOK
<1> QED BY <1>1, <1>2, <1>4, <1>5, <1>6, PageTypes

LEMMA HandleFilesTypes ==
  ASSUME TypeInv, NEW f \in File, HandleFiles(f)
  PROVE  TypeInv'
<1>1. /\ page.open /\ Turn
      /\ UNCHANGED <<serverVars, page, edits, clicks, kept, binned, raced>>
      /\ \/ page.id = None /\ Write("start", {f})
         \/ /\ page.id # None /\ UNCHANGED <<shaky, excess>>
            /\ calls' = calls \cup {Call("upload", page.id, Empty, {f})}
  BY DEF HandleFiles, Ask
<1>2. Grown
  BY <1>1, Still DEF serverVars
<1>3. PageOK' /\ ClicksOK'
  BY <1>1, <1>2, Carried
<1>4. CASE page.id = None /\ Write("start", {f})
  <2>1. CallsOK' /\ shaky' \in BOOLEAN /\ excess' \in [1..MaxPages -> Nat]
    BY <1>1, <1>2, <1>4, Written DEF Writing
  <2>2. HistoryOK'
    BY <1>1, <1>2, <2>1, SetsGrow DEF TypeInv, HistoryOK
  <2> QED BY <1>1, <1>2, <1>3, <2>1, <2>2, PageTypes
<1>5. CASE /\ page.id # None /\ UNCHANGED <<shaky, excess>>
           /\ calls' = calls \cup {Call("upload", page.id, Empty, {f})}
  <2>1. PICK c : c = Call("upload", page.id, Empty, {f})
    OBVIOUS
  <2>2. CallOK(c)'
    <3>1. page.id \in Draft
      BY <1>5, Contents DEF Ids
    <3> QED BY <1>1, <1>2, <2>1, <3>1, CallIsOK, Contents DEF Op
  <2>3. CallsOK'
    BY <1>2, <1>5, <2>1, <2>2, Asked
  <2> QED BY <1>1, <1>2, <1>3, <1>5, <2>3, PageTypes, Carried
<1> QED BY <1>1, <1>4, <1>5

LEMMA RemoveAttachmentTypes ==
  ASSUME TypeInv, NEW d \in Draft, NEW f \in File, RemoveAttachment(d, f)
  PROVE  TypeInv'
<1>1. /\ page.open /\ Turn /\ page.id # None
      /\ UNCHANGED <<serverVars, page, edits, history>>
      /\ calls' = calls \cup {[Call("remove", page.id, Empty, {f}) EXCEPT !.of = d]}
  BY DEF RemoveAttachment, Ask
<1>2. Grown
  BY <1>1, Still DEF serverVars
<1>3. PICK b : b = Call("remove", page.id, Empty, {f})
  OBVIOUS
<1>4. b \in CallSet /\ b.op = "remove" /\ b.id = page.id
  BY <1>1, <1>3, CallTypes, Contents DEF Op
<1>5. PICK c : c = [b EXCEPT !.of = d]
  OBVIOUS
<1>6. c \in CallSet /\ c.op = "remove" /\ c.id = page.id
  <2>1. d \in Ids
    BY DEF Ids
  <2> QED BY <1>4, <1>5, <2>1 DEF CallSet
<1>7. CallOK(c)'
  <2>1. CallSet \subseteq CallSet'
    BY <1>2, SetsGrow
  <2> QED BY <1>1, <1>6, <2>1 DEF CallOK
<1>8. CallsOK'
  BY <1>1, <1>2, <1>3, <1>5, <1>7, Asked
<1> QED BY <1>1, <1>2, <1>8, PageTypes, Carried DEF history

LEMMA HandleDiscardTypes ==
  ASSUME TypeInv, HandleDiscard
  PROVE  TypeInv'
<1>1. /\ page.open /\ Turn /\ page.id # None
      /\ UNCHANGED <<serverVars, page, edits, history>>
      /\ calls' = calls \cup {Call("discard", page.id, Empty, {})}
  BY DEF HandleDiscard, Ask
<1>2. Grown
  BY <1>1, Still DEF serverVars
<1>3. PICK c : c = Call("discard", page.id, Empty, {})
  OBVIOUS
<1>4. CallOK(c)'
  <2>1. page.id \in Draft
    BY <1>1, Contents DEF Ids
  <2> QED BY <1>1, <1>2, <1>3, <2>1, CallIsOK, Contents DEF Op
<1>5. CallsOK'
  BY <1>1, <1>2, <1>3, <1>4, Asked
<1> QED BY <1>1, <1>2, <1>5, PageTypes, Carried DEF history

(* No page is open any more.                                               *)
LEMMA Blanked ==
  ASSUME TypeInv, UNCHANGED <<drafts, edits>>, page' = Blank(page.no, None)
  PROVE  Grown /\ PageOK'
<1>1. page'.no = page.no
  BY DEF Blank
<1>2. Grown
  BY <1>1, Still
<1>3. None \in Ids' /\ 0 \in Versions' /\ page.no \in 0..MaxPages
  BY <1>2, SetsGrow, Contents, Numbers
<1> QED BY <1>2, <1>3 DEF PageOK, Blank

LEMMA LeaveTypes ==
  ASSUME TypeInv, Leave
  PROVE  TypeInv'
<1>1. Grown /\ PageOK'
  BY Blanked DEF Leave, serverVars
<1> QED BY <1>1, PageTypes, Carried DEF Leave, history

-----------------------------------------------------------------------------
(* The steps of the server keep the types                                  *)

(* The row of one draft changes.                                           *)
LEMMA Amended ==
  ASSUME TypeInv, NEW d \in Draft, NEW r \in RowSet, drafts' = [drafts EXCEPT ![d] = r],
         page'.no = page.no, edits' = edits
  PROVE  /\ Grown /\ RowsOK' /\ Len(drafts') = Len(drafts) /\ Draft' = Draft
         /\ \A e \in Draft : drafts'[e] = IF e = d THEN r ELSE drafts[e]
<1>1. drafts \in Seq(RowSet) /\ Len(drafts) <= MaxDrafts
  BY DEF TypeInv, RowsOK
<1>2. d \in 1..Len(drafts)
  BY DEF Draft
<1>3. /\ drafts' \in Seq(RowSet) /\ Len(drafts') = Len(drafts)
      /\ \A e \in 1..Len(drafts) : drafts'[e] = IF e = d THEN r ELSE drafts[e]
  BY <1>1, <1>2, ExceptSeq
<1>4. Grown
  BY <1>3, Numbers DEF Grown
<1>5. RowSet \subseteq RowSet'
  BY <1>4, SetsGrow
<1>6. drafts' \in Seq(RowSet')
  BY <1>3, <1>5, SeqMonotonic
<1> QED BY <1>1, <1>3, <1>4, <1>6 DEF RowsOK, Draft

LEMMA Rows ==
  ASSUME TypeInv, NEW d \in Draft
  PROVE  drafts[d] \in RowSet
<1>1. drafts \in Seq(RowSet)
  BY DEF TypeInv, RowsOK
<1> QED BY <1>1, ElementOfSeq DEF Draft

LEMMA RefusedOK ==
  ASSUME TypeInv, Grown, NEW c \in calls, Refuse(c)
  PROVE  CallsOK'
<1>1. PICK d : d = [c EXCEPT !.st = "failed", !.what = Empty, !.files = {}]
  OBVIOUS
<1>2. CallOK(c) /\ c \in CallSet
  BY OldCalls DEF CallOK
<1>3. d \in CallSet /\ d.op = c.op /\ d.id = c.id /\ d.st = "failed"
  BY <1>1, <1>2, Contents DEF CallSet
<1>4. CallSet \subseteq CallSet'
  BY SetsGrow
<1>5. CallOK(d)'
  BY <1>2, <1>3, <1>4 DEF CallOK
<1> QED BY <1>1, <1>5, Exchanged DEF Refuse, Replace

(* An answer to a request for a draft there is.                            *)
LEMMA RepliedOK ==
  ASSUME TypeInv, Grown, NEW c \in calls, c.id # None, NEW d \in CallSet,
         d.op = c.op, d.id = c.id, Reply(c, d)
  PROVE  CallsOK'
<1>1. PICK e : e = [d EXCEPT !.st = "ok"]
  OBVIOUS
<1>2. e \in CallSet /\ e.op = c.op /\ e.id = c.id
  BY <1>1 DEF CallSet
<1>3. CallSet \subseteq CallSet'
  BY SetsGrow
<1>4. CallOK(c)
  BY OldCalls
<1>5. CallOK(e)'
  BY <1>2, <1>3, <1>4 DEF CallOK
<1> QED BY <1>1, <1>5, Exchanged DEF Reply, Replace

LEMMA AnsweredOK ==
  ASSUME TypeInv, Grown, NEW c \in calls, c.id # None, Reply(c, c)
  PROVE  CallsOK'
BY RepliedOK, OldCalls DEF CallOK

LEMMA ServerTypes ==
  ASSUME TypeInv, Grown, RowsOK', JobsOK', CallsOK', FilesOK', PageOK', HistoryOK',
         UNCHANGED <<hand, mails, clicks>>, turns' \in 0..MaxTurns
  PROVE  TypeInv'
<1>1. HandOK' /\ MailsOK' /\ ClicksOK'
  BY Carried
<1>2. CountsOK'
  BY DEF CountsOK, Grown
<1> QED BY <1>1, <1>2 DEF TypeInv

(* A request is refused, and nothing else happens but that it may count.   *)
LEMMA RefuseTypes ==
  ASSUME TypeInv, NEW c \in calls, Refuse(c), UNCHANGED <<serverVars, page, edits>>,
         UNCHANGED <<clicks, kept, binned, raced, shaky>>,
         excess' \in [1..MaxPages -> Nat], turns' \in 0..MaxTurns
  PROVE  TypeInv'
<1>1. Grown
  BY Still DEF serverVars
<1>2. CallsOK'
  BY <1>1, RefusedOK
<1>3. HistoryOK'
  BY <1>1, SetsGrow DEF TypeInv, HistoryOK
<1> QED BY <1>1, <1>2, <1>3, ServerTypes, Carried DEF serverVars

LEMMA KindOf ==
  ASSUME TypeInv, NEW c \in calls
  PROVE  /\ c.op \in Op /\ c.id \in Ids /\ c.of \in Ids /\ c.page \in 1..page.no
         /\ c.what \in ContentSet /\ c.files \subseteq File /\ c \in CallSet
         /\ c.op \notin Writing => c.id \in Draft
         /\ c.id # None => c.id \in Draft
<1>1. CallOK(c)
  BY DEF TypeInv, CallsOK
<1> QED BY <1>1 DEF CallOK, CallSet, Ids

LEMMA GetMessageTypes ==
  ASSUME TypeInv, NEW c \in calls, c.op = "load", GetMessage(c),
         UNCHANGED <<hand, mails, page, edits, turns, clicks, kept, raced, shaky, excess>>
  PROVE  TypeInv'
<1>1. Grown
  BY Still DEF GetMessage
<1>2. c.id \in Draft /\ c \in CallSet /\ c.id # None
  BY KindOf, Numbers DEF Writing
<1>3. CallsOK'
  <2>1. CASE Stored(c.id)
    <3>1. PICK d : d = [c EXCEPT !.what = Content(drafts[c.id].body, drafts[c.id].cc)]
      OBVIOUS
    <3>2. Content(drafts[c.id].body, drafts[c.id].cc) \in ContentSet
      BY <1>2, Rows DEF Content, ContentSet, RowSet
    <3>3. d \in CallSet /\ d.op = c.op /\ d.id = c.id
      BY <1>2, <3>1, <3>2 DEF CallSet
    <3>4. Reply(c, d)
      BY <2>1, <3>1 DEF GetMessage
    <3> QED BY <1>1, <1>2, <3>3, <3>4, RepliedOK
  <2>2. CASE ~Stored(c.id)
    BY <1>1, <2>2, RefusedOK DEF GetMessage
  <2> QED BY <2>1, <2>2
<1>4. turns' \in 0..MaxTurns
  BY DEF TypeInv, CountsOK
<1> QED BY <1>1, <1>3, <1>4, ServerTypes, Carried DEF GetMessage

LEMMA CreateDraftTypes ==
  ASSUME TypeInv, NEW c \in calls, c.st = "asked", c.id = None, CreateDraft(c),
         UNCHANGED <<hand, mails, page, edits, turns, clicks, kept, raced, shaky, excess>>
  PROVE  TypeInv'
<1>1. PICK r : r = [state |-> "draft", body |-> c.what.body, cc |-> c.what.cc,
                    atts |-> {}, by |-> c.page]
  OBVIOUS
<1>2. drafts' = Append(drafts, r) /\ Len(drafts) < MaxDrafts
  BY <1>1 DEF CreateDraft
<1>3. r \in RowSet
  <2>1. c.page \in 0..page.no
    BY KindOf, Numbers
  <2> QED BY <1>1, <2>1, KindOf DEF RowSet, ContentSet
<1>4. drafts \in Seq(RowSet) /\ Len(drafts) \in Nat
  BY Numbers DEF TypeInv, RowsOK
<1>5. drafts' \in Seq(RowSet) /\ Len(drafts') = Len(drafts) + 1
  BY <1>2, <1>3, <1>4
<1>6. Grown
  BY <1>5, Numbers DEF Grown
<1>7. RowsOK'
  <2>1. RowSet \subseteq RowSet'
    BY <1>6, SetsGrow
  <2>2. drafts' \in Seq(RowSet')
    BY <1>5, <2>1, SeqMonotonic
  <2>3. Len(drafts') <= MaxDrafts
    BY <1>2, <1>4, <1>5, ComposeAssumption
  <2> QED BY <2>2, <2>3 DEF RowsOK
<1>8. CallsOK'
  <2>1. PICK d : d = [[c EXCEPT !.of = Len(drafts) + 1] EXCEPT !.st = "ok"]
    OBVIOUS
  <2>2. Len(drafts) + 1 \in Draft' /\ Len(drafts) + 1 # None
    BY <1>4, <1>5 DEF Draft, None
  <2>3. c \in CallSet'
    BY <1>6, SetsGrow, KindOf
  <2>4. /\ d \in CallSet' /\ d.op = c.op /\ d.id = None /\ d.what = c.what
        /\ d.of = Len(drafts) + 1 /\ d.st = "ok"
    BY <2>1, <2>2, <2>3 DEF CallSet, Ids
  <2>5. CallOK(d)'
    BY <1>6, <2>2, <2>4, OldCalls DEF CallOK
  <2> QED BY <1>6, <2>1, <2>5, Exchanged DEF CreateDraft, Reply, Replace
<1>9. turns' \in 0..MaxTurns
  BY DEF TypeInv, CountsOK
<1> QED BY <1>6, <1>7, <1>8, <1>9, ServerTypes, Carried DEF CreateDraft

(* What an update leaves of a row.                                         *)
LEMMA UpdateRow ==
  ASSUME TypeInv, NEW c \in calls, c.id # None, UpdateDraft(c), Stored(c.id)
  PROVE  \E r \in RowSet :
           /\ drafts' = [drafts EXCEPT ![c.id] = r]
           /\ r.state = drafts[c.id].state /\ r.by = drafts[c.id].by
           /\ r.atts = drafts[c.id].atts /\ r.body = c.what.body
           /\ r.cc = IF c.what.cc = {} THEN drafts[c.id].cc ELSE c.what.cc
<1>1. c.id \in Draft /\ drafts[c.id] \in RowSet
  BY KindOf, Rows
<1>2. PICK r : r = [drafts[c.id] EXCEPT
                      !.body = c.what.body,
                      !.cc = IF c.what.cc = {} THEN @ ELSE c.what.cc]
  OBVIOUS
<1>3. r \in RowSet
  <2>1. c.what.body \in Versions /\ c.what.cc \subseteq Addr
    BY KindOf DEF ContentSet
  <2> QED BY <1>1, <1>2, <2>1 DEF RowSet
<1>4. drafts' = [drafts EXCEPT ![c.id] = r]
  <2>1. drafts' = [drafts EXCEPT ![c.id].body = c.what.body,
                                 ![c.id].cc = IF c.what.cc = {} THEN @ ELSE c.what.cc]
    BY DEF UpdateDraft
  <2>2. c.id \in DOMAIN drafts /\ drafts \in [1..Len(drafts) -> RowSet]
    BY <1>1 DEF TypeInv, RowsOK, Draft
  <2> QED BY <1>2, <2>1, <2>2
<1>5. /\ r.state = drafts[c.id].state /\ r.by = drafts[c.id].by
      /\ r.atts = drafts[c.id].atts /\ r.body = c.what.body
      /\ r.cc = IF c.what.cc = {} THEN drafts[c.id].cc ELSE c.what.cc
  BY <1>1, <1>2 DEF RowSet
<1> QED BY <1>3, <1>4, <1>5

LEMMA UpdateDraftTypes ==
  ASSUME TypeInv, NEW c \in calls, c.id # None, UpdateDraft(c),
         UNCHANGED <<hand, mails, page, edits, turns, clicks, kept, raced, shaky, excess>>
  PROVE  TypeInv'
<1>1. turns' \in 0..MaxTurns
  BY DEF TypeInv, CountsOK
<1>2. c.id \in Draft /\ c \in CallSet
  BY KindOf
<1>3. CASE ~Stored(c.id)
  <2>1. Grown
    BY <1>3, Still DEF UpdateDraft
  <2>2. CallsOK'
    BY <1>3, <2>1, RefusedOK DEF UpdateDraft
  <2> QED BY <1>1, <1>3, <2>1, <2>2, ServerTypes, Carried DEF UpdateDraft
<1>4. CASE Stored(c.id)
  <2>1. PICK r \in RowSet : drafts' = [drafts EXCEPT ![c.id] = r]
    BY <1>4, UpdateRow
  <2>2. Grown /\ RowsOK'
    BY <1>2, <2>1, Amended
  <2>3. PICK d : d = [c EXCEPT !.what = Empty, !.files = {}]
    OBVIOUS
  <2>4. d \in CallSet /\ d.op = c.op /\ d.id = c.id
    BY <1>2, <2>3, Contents DEF CallSet
  <2>5. Reply(c, d)
    BY <1>4, <2>3 DEF UpdateDraft
  <2>6. CallsOK'
    BY <2>2, <2>4, <2>5, RepliedOK
  <2> QED BY <1>1, <2>2, <2>6, ServerTypes, Carried DEF UpdateDraft
<1> QED BY <1>3, <1>4

LEMMA SendDraftTypes ==
  ASSUME TypeInv, NEW c \in calls, c.op = "send", SendDraft(c),
         UNCHANGED <<hand, mails, page, edits, turns, clicks, kept, raced, shaky, excess>>
  PROVE  TypeInv'
<1>1. Grown
  BY Still DEF SendDraft
<1>2. c.id \in Draft /\ c.id # None
  BY KindOf, Numbers DEF Writing
<1>3. CallsOK'
  BY <1>1, <1>2, RefusedOK, AnsweredOK DEF SendDraft
<1>4. JobsOK'
  <2>1. jobs' = jobs \/ jobs' = [jobs EXCEPT ![c.id] = @ + 1]
    BY DEF SendDraft
  <2>2. Draft \subseteq Draft' /\ Draft \subseteq 1..MaxDrafts
    BY <1>1, SetsGrow, Numbers
  <2>3. /\ jobs \in [1..MaxDrafts -> Nat]
        /\ \A d \in 1..MaxDrafts : jobs[d] > 0 => d \in Draft
    BY DEF TypeInv, JobsOK
  <2>4. jobs' \in [1..MaxDrafts -> Nat]
    BY <2>1, <2>3
  <2>5. \A d \in 1..MaxDrafts : jobs'[d] > 0 => d \in Draft
    BY <1>2, <2>1, <2>2, <2>3
  <2> QED BY <2>2, <2>4, <2>5 DEF JobsOK
<1>5. turns' \in 0..MaxTurns
  BY DEF TypeInv, CountsOK
<1> QED BY <1>1, <1>3, <1>4, <1>5, ServerTypes, Carried DEF SendDraft

(* A step that may change the state and the files of one draft.            *)
LEMMA Restated ==
  ASSUME TypeInv, NEW d \in Draft,
         \/ drafts' = drafts
         \/ \E atts \in SUBSET File : drafts' = [drafts EXCEPT ![d].atts = atts]
         \/ drafts' = [drafts EXCEPT ![d].state = "gone", ![d].atts = {}]
         \/ drafts' = [drafts EXCEPT ![d].state = "sent"] /\ Stored(d)
  PROVE  \E r \in RowSet :
           /\ drafts' = [drafts EXCEPT ![d] = r]
           /\ r.by = drafts[d].by /\ r.body = drafts[d].body /\ r.cc = drafts[d].cc
           /\ r.state # "gone" => drafts[d].state # "gone"
<1>1. drafts[d] \in RowSet /\ drafts \in Seq(RowSet) /\ d \in 1..Len(drafts)
  BY Rows DEF TypeInv, RowsOK, Draft
<1>2. drafts \in [1..Len(drafts) -> RowSet]
  BY <1>1
<1>3. drafts[d].state \in {"draft", "sent", "gone"} /\ drafts[d].atts \subseteq File
  BY <1>1 DEF RowSet
<1>4. CASE drafts' = drafts
  <2>1. drafts' = [drafts EXCEPT ![d] = drafts[d]]
    BY <1>2, <1>4
  <2> QED BY <1>1, <2>1
<1>5. CASE \E atts \in SUBSET File : drafts' = [drafts EXCEPT ![d].atts = atts]
  <2>1. PICK atts \in SUBSET File : drafts' = [drafts EXCEPT ![d].atts = atts]
    BY <1>5
  <2>2. PICK r : r = [drafts[d] EXCEPT !.atts = atts]
    OBVIOUS
  <2>3. /\ r \in RowSet /\ r.state = drafts[d].state /\ r.by = drafts[d].by
        /\ r.body = drafts[d].body /\ r.cc = drafts[d].cc
    BY <1>1, <2>2 DEF RowSet
  <2>4. drafts' = [drafts EXCEPT ![d] = r]
    BY <1>1, <1>2, <2>1, <2>2
  <2> QED BY <2>3, <2>4
<1>6. CASE drafts' = [drafts EXCEPT ![d].state = "gone", ![d].atts = {}]
  <2>1. PICK r : r = [drafts[d] EXCEPT !.state = "gone", !.atts = {}]
    OBVIOUS
  <2>2. /\ r \in RowSet /\ r.state = "gone" /\ r.by = drafts[d].by
        /\ r.body = drafts[d].body /\ r.cc = drafts[d].cc
    BY <1>1, <2>1 DEF RowSet
  <2>3. drafts' = [drafts EXCEPT ![d] = r]
    BY <1>1, <1>2, <1>6, <2>1
  <2> QED BY <2>2, <2>3
<1>7. CASE drafts' = [drafts EXCEPT ![d].state = "sent"] /\ Stored(d)
  <2>1. PICK r : r = [drafts[d] EXCEPT !.state = "sent"]
    OBVIOUS
  <2>2. /\ r \in RowSet /\ r.by = drafts[d].by
        /\ r.body = drafts[d].body /\ r.cc = drafts[d].cc
    BY <1>1, <2>1 DEF RowSet
  <2>3. drafts' = [drafts EXCEPT ![d] = r]
    BY <1>1, <1>2, <1>7, <2>1
  <2> QED BY <1>7, <2>2, <2>3 DEF Stored
<1> QED BY <1>4, <1>5, <1>6, <1>7

LEMMA FilesKept ==
  ASSUME TypeInv, Grown, kept' = kept, binned' \subseteq File
  PROVE  FilesOK'
<1>1. 1..page.no \subseteq 1..page'.no
  BY SetsGrow
<1> QED BY <1>1 DEF TypeInv, FilesOK

(* The requests about files, and the deletion of a draft.                  *)
LEMMA Changed ==
  ASSUME TypeInv, NEW c \in calls, c.op \in {"upload", "remove", "discard"}, Handle(c)
  PROVE  \E r \in RowSet :
           /\ drafts' = [drafts EXCEPT ![c.id] = r]
           /\ r.by = drafts[c.id].by /\ r.body = drafts[c.id].body
           /\ r.cc = drafts[c.id].cc /\ (r.state # "gone" => drafts[c.id].state # "gone")
<1>1. c.id \in Draft /\ c.id # None /\ c.files \subseteq File
  BY KindOf, Numbers DEF Writing
<1>2. drafts[c.id].atts \subseteq File
  BY <1>1, Rows DEF RowSet
<1>3. \/ c.op = "upload" /\ UploadAttachment(c)
      \/ c.op = "remove" /\ DeleteAttachment(c)
      \/ c.op = "discard" /\ DeleteMessage(c)
  BY DEF Handle, Writing
<1>4. \/ drafts' = drafts
      \/ \E atts \in SUBSET File : drafts' = [drafts EXCEPT ![c.id].atts = atts]
      \/ drafts' = [drafts EXCEPT ![c.id].state = "gone", ![c.id].atts = {}]
  <2>1. CASE UploadAttachment(c)
    <3>1. \/ drafts' = drafts
          \/ drafts' = [drafts EXCEPT ![c.id].atts = drafts[c.id].atts \cup c.files]
      BY <2>1 DEF UploadAttachment
    <3>2. drafts[c.id].atts \cup c.files \in SUBSET File
      BY <1>1, <1>2
    <3> QED BY <3>1, <3>2
  <2>2. CASE DeleteAttachment(c)
    <3>1. \/ drafts' = drafts
          \/ drafts' = [drafts EXCEPT ![c.id].atts = drafts[c.id].atts \ c.files]
      BY <2>2 DEF DeleteAttachment
    <3>2. drafts[c.id].atts \ c.files \in SUBSET File
      BY <1>2
    <3> QED BY <3>1, <3>2
  <2>3. CASE DeleteMessage(c)
    BY <2>3 DEF DeleteMessage
  <2> QED BY <1>3, <2>1, <2>2, <2>3
<1> QED BY <1>1, <1>4, Restated

LEMMA ChangeTypes ==
  ASSUME TypeInv, NEW c \in calls, c.op \in {"upload", "remove", "discard"}, Handle(c),
         UNCHANGED <<hand, mails, page, edits, turns, clicks, kept, raced, shaky, excess>>
  PROVE  TypeInv'
<1>1. c.id \in Draft /\ c.id # None /\ c.files \subseteq File
  BY KindOf, Numbers DEF Writing
<1>2. \/ c.op = "upload" /\ UploadAttachment(c)
      \/ c.op = "remove" /\ DeleteAttachment(c)
      \/ c.op = "discard" /\ DeleteMessage(c)
  BY DEF Handle, Writing
<1>3. PICK r \in RowSet : drafts' = [drafts EXCEPT ![c.id] = r]
  BY Changed
<1>4. Grown /\ RowsOK'
  BY <1>1, <1>3, Amended
<1>5. CallsOK'
  BY <1>1, <1>2, <1>4, RefusedOK, AnsweredOK, Removed
    DEF UploadAttachment, DeleteAttachment, DeleteMessage
<1>6. binned' \subseteq File /\ jobs' = jobs
  BY <1>1, <1>2 DEF UploadAttachment, DeleteAttachment, DeleteMessage, TypeInv, FilesOK
<1>7. turns' \in 0..MaxTurns
  BY DEF TypeInv, CountsOK
<1> QED BY <1>4, <1>5, <1>6, <1>7, ServerTypes, Carried, FilesKept

LEMMA ServeTypes ==
  ASSUME TypeInv, NEW c \in calls, Serve(c)
  PROVE  TypeInv'
<1>1. /\ c.st = "asked" /\ Handle(c) /\ c.op \in Op
      /\ UNCHANGED <<hand, mails, page, edits, turns, clicks, kept, raced, shaky, excess>>
  BY KindOf DEF Serve
<1>2. CASE c.op = "load"
  BY <1>1, <1>2, GetMessageTypes DEF Handle, Writing
<1>3. CASE c.op \in Writing /\ c.id = None
  <2>1. CreateDraft(c)
    BY <1>1, <1>3 DEF Handle, Writing
  <2> QED BY <1>1, <1>3, <2>1, CreateDraftTypes
<1>4. CASE c.op \in Writing /\ c.id # None
  <2>1. UpdateDraft(c)
    BY <1>1, <1>4 DEF Handle, Writing
  <2> QED BY <1>1, <1>4, <2>1, UpdateDraftTypes
<1>5. CASE c.op = "send"
  <2>1. SendDraft(c)
    BY <1>1, <1>5 DEF Handle, Writing
  <2> QED BY <1>1, <1>5, <2>1, SendDraftTypes
<1>6. CASE c.op \in {"upload", "remove", "discard"}
  BY <1>1, <1>6, ChangeTypes
<1> QED BY <1>1, <1>2, <1>3, <1>4, <1>5, <1>6 DEF Op, Writing

LEMMA FailTypes ==
  ASSUME TypeInv, NEW c \in calls, Fail(c)
  PROVE  TypeInv'
<1>1. /\ turns' \in 0..MaxTurns /\ UNCHANGED <<serverVars, page, edits, history>>
      /\ calls' = calls \ {c} \/ Refuse(c)
  BY Turned DEF Fail
<1>2. CASE Refuse(c)
  BY <1>1, <1>2, RefuseTypes DEF history, TypeInv, HistoryOK
<1>3. CASE calls' = calls \ {c}
  <2>1. Grown
    BY <1>1, Still DEF serverVars
  <2>2. CallsOK'
    BY <1>3, <2>1, Removed
  <2> QED BY <1>1, <2>1, <2>2, ServerTypes, Carried DEF serverVars, history
<1> QED BY <1>1, <1>2, <1>3

LEMMA LoseTypes ==
  ASSUME TypeInv, NEW c \in calls, Lose(c)
  PROVE  TypeInv'
<1>1. /\ turns' \in 0..MaxTurns /\ Refuse(c)
      /\ UNCHANGED <<serverVars, page, edits, clicks, kept, binned, raced, shaky>>
      /\ excess' = excess \/ excess' = [excess EXCEPT ![c.page] = @ + 1]
  BY Turned DEF Lose
<1>2. excess' \in [1..MaxPages -> Nat]
  BY <1>1 DEF TypeInv, HistoryOK
<1> QED BY <1>1, <1>2, RefuseTypes

-----------------------------------------------------------------------------
(* The answers and the worker keep the types                               *)

(* The request that follows an answer.                                     *)
LEMMA FollowUp ==
  ASSUME TypeInv, Grown, NEW c \in calls, NEW op \in Op \ {"start"}, NEW d \in Draft,
         NEW files \in SUBSET File, NEW e, e = [Call(op, d, Empty, files) EXCEPT !.page = c.page]
  PROVE  CallOK(e)' /\ e.op = op /\ e.id = d
<1>1. /\ e = [op |-> op, page |-> c.page, id |-> d, what |-> Empty, files |-> files,
              of |-> None, st |-> "asked"]
  BY DEF Call
<1>2. d \in Ids /\ d # None
  BY Numbers DEF Ids
<1>3. e \in CallSet
  <2>1. c.page \in 1..page.no /\ Empty \in ContentSet /\ None \in Ids
    BY KindOf, Contents
  <2>2. op \in Op /\ files \in SUBSET File /\ "asked" \in {"asked", "ok", "failed"}
    OBVIOUS
  <2> QED BY ONLY <1>1, <1>2, <2>1, <2>2 DEF CallSet
<1>4. CallSet \subseteq CallSet'
  BY SetsGrow
<1> QED BY <1>1, <1>2, <1>3, <1>4 DEF CallOK

LEMMA ThenOK ==
  ASSUME TypeInv, Grown, NEW c \in calls,
         \/ Then(c, {})
         \/ \E e : CallOK(e)' /\ Then(c, {e})
  PROVE  CallsOK'
<1>1. CASE Then(c, {})
  <2>1. calls' = calls \ {c}
    BY <1>1 DEF Then
  <2> QED BY <2>1, Removed
<1>2. CASE \E e : CallOK(e)' /\ Then(c, {e})
  BY <1>2, Exchanged DEF Then
<1> QED BY <1>1, <1>2

LEMMA AnswerTypes ==
  ASSUME TypeInv, Grown, PageOK', CallsOK', ClicksOK', kept' \subseteq (1..page.no) \X File,
         shaky' \in BOOLEAN, UNCHANGED <<serverVars, edits, turns, binned, raced, excess>>
  PROVE  TypeInv'
<1>1. RowsOK' /\ JobsOK' /\ HandOK' /\ MailsOK' /\ CountsOK'
  BY Carried DEF serverVars
<1>2. FilesOK' /\ HistoryOK'
  BY SetsGrow DEF TypeInv, FilesOK, HistoryOK
<1> QED BY <1>1, <1>2 DEF TypeInv

LEMMA AnswerLeaves ==
  ASSUME TypeInv
  PROVE  /\ UNCHANGED kept => kept' \subseteq (1..page.no) \X File
         /\ UNCHANGED shaky => shaky' \in BOOLEAN
         /\ shaky \in BOOLEAN
BY DEF TypeInv, FilesOK, HistoryOK

LEMMA LoadedTypes ==
  ASSUME TypeInv, NEW c \in calls, Loaded(c),
         UNCHANGED <<serverVars, edits, turns, binned, raced, excess>>
  PROVE  TypeInv'
<1>1. \/ page' = page
      \/ \E b \in BOOLEAN :
           page' = [page EXCEPT !.body = c.what.body, !.cc = c.what.cc, !.loaded = c.id,
                                !.armed = b]
  BY DEF Loaded, TypeInv, PageOK
<1>2. page'.no = page.no
  BY <1>1 DEF TypeInv, PageOK
<1>3. Grown
  BY <1>2, Still DEF serverVars
<1>4. PageOK'
  <2>1. Ids \subseteq Ids' /\ Versions \subseteq Versions'
    BY <1>3, SetsGrow
  <2>2. c.what.body \in Versions /\ c.what.cc \subseteq Addr /\ c.id \in Ids
    BY KindOf DEF ContentSet
  <2> QED BY <1>1, <2>1, <2>2 DEF TypeInv, PageOK
<1>5. CallsOK'
  BY <1>3, ThenOK DEF Loaded
<1>6. ClicksOK'
  BY <1>3, Carried DEF Loaded
<1> QED BY <1>3, <1>4, <1>5, <1>6, AnswerTypes, AnswerLeaves DEF Loaded

LEMMA Adopted ==
  ASSUME TypeInv, NEW c \in calls, NEW d \in Draft, NEW cs, Adopt(c, d, cs),
         UNCHANGED <<drafts, edits>>
  PROVE  Grown /\ PageOK'
<1>1. page' = page \/ page' = [page EXCEPT !.id = d, !.armed = TRUE]
  BY DEF Adopt
<1>2. page'.no = page.no
  BY <1>1 DEF TypeInv, PageOK
<1>3. Grown
  BY <1>2, Still
<1>4. PageOK'
  <2>1. Ids \subseteq Ids' /\ Versions \subseteq Versions' /\ d \in Ids
    BY <1>3, SetsGrow DEF Ids
  <2> QED BY <1>1, <2>1 DEF TypeInv, PageOK
<1> QED BY <1>3, <1>4

(* The draft an answer brings.                                             *)
LEMMA Brought ==
  ASSUME TypeInv, NEW c \in calls, c.st = "ok", c.id = None
  PROVE  c.of \in Draft
<1>1. CallOK(c)
  BY DEF TypeInv, CallsOK
<1> QED BY <1>1 DEF CallOK, CallSet, Ids

LEMMA SavedTypes ==
  ASSUME TypeInv, NEW c \in calls, Saved(c),
         UNCHANGED <<serverVars, edits, turns, binned, raced, excess>>
  PROVE  TypeInv'
<1>1. Grown /\ PageOK' /\ Then(c, {})
  <2>1. CASE c.id = None
    <3>1. c.of \in Draft /\ Adopt(c, c.of, {})
      BY <2>1, Brought DEF Saved
    <3> QED BY <3>1, Adopted DEF serverVars, Adopt
  <2>2. CASE c.id # None
    <3>1. page' = page /\ Then(c, {})
      BY <2>2 DEF Saved
    <3> QED BY <3>1, Still, Carried DEF serverVars
  <2> QED BY <2>1, <2>2
<1>2. CallsOK' /\ ClicksOK'
  BY <1>1, ThenOK, Carried DEF Saved
<1> QED BY <1>1, <1>2, AnswerTypes, AnswerLeaves DEF Saved

LEMMA SubmittedTypes ==
  ASSUME TypeInv, NEW c \in calls, Submitted(c),
         UNCHANGED <<serverVars, edits, turns, binned, raced, excess>>
  PROVE  TypeInv'
<1>1. PICK d : d = IF c.id = None THEN c.of ELSE c.id
  OBVIOUS
<1>2. PICK e : e = [Call("send", d, Empty, {}) EXCEPT !.page = c.page]
  OBVIOUS
<1>3. c.op = "submit" /\ c.st = "ok" /\ d \in Draft
  BY <1>1, Brought, KindOf DEF Submitted
<1>4. CASE c.id = None
  <2>1. Adopt(c, d, {e}) /\ clicks' = clicks \cup {Click(d, c.page, c.what, c.files)}
    BY <1>1, <1>2, <1>4 DEF Submitted
  <2>2. Grown /\ PageOK'
    BY <1>3, <2>1, Adopted DEF serverVars
  <2>3. CallsOK'
    <3>1. CallOK(e)'
      BY <1>2, <1>3, <2>2, FollowUp DEF Op
    <3> QED BY <2>1, <2>2, <3>1, ThenOK DEF Adopt
  <2>4. ClicksOK'
    <3>1. c.what.body # 0
      BY <1>3, <1>4 DEF TypeInv, CallsOK, CallOK
    <3>2. c.what.body \in 1..edits
      BY <3>1, KindOf, Numbers DEF ContentSet, Versions
    <3>3. Click(d, c.page, c.what, c.files) \in ClickSet
      BY <1>3, <3>2, KindOf DEF Click, ClickSet
    <3> QED BY <2>1, <2>2, <3>3, SetsGrow DEF TypeInv, ClicksOK
  <2> QED BY <2>2, <2>3, <2>4, AnswerTypes, AnswerLeaves DEF Submitted
<1>5. CASE c.id # None
  <2>1. Then(c, {e}) /\ UNCHANGED <<page, clicks>>
    BY <1>1, <1>2, <1>5 DEF Submitted
  <2>2. Grown /\ PageOK' /\ ClicksOK'
    BY <2>1, Still, Carried DEF serverVars
  <2>3. CallOK(e)'
    BY <1>2, <1>3, <2>2, FollowUp DEF Op
  <2>4. CallsOK'
    BY <2>1, <2>2, <2>3, ThenOK
  <2> QED BY <2>2, <2>4, AnswerTypes, AnswerLeaves DEF Submitted
<1> QED BY <1>4, <1>5

LEMMA StartedTypes ==
  ASSUME TypeInv, NEW c \in calls, Started(c),
         UNCHANGED <<serverVars, edits, turns, binned, raced, excess>>
  PROVE  TypeInv'
<1>1. c.id = None /\ c.st = "ok"
  BY DEF Started, TypeInv, CallsOK, CallOK
<1>2. c.of \in Draft /\ c.files \in SUBSET File
  BY <1>1, Brought, KindOf
<1>3. PICK e : e = [Call("upload", c.of, Empty, c.files) EXCEPT !.page = c.page]
  OBVIOUS
<1>4. Adopt(c, c.of, {e})
  BY <1>3 DEF Started
<1>5. Grown /\ PageOK'
  BY <1>2, <1>4, Adopted DEF serverVars
<1>6. CallOK(e)'
  BY <1>2, <1>3, <1>5, FollowUp DEF Op
<1>7. CallsOK' /\ ClicksOK'
  BY <1>4, <1>5, <1>6, ThenOK, Carried DEF Started, Adopt
<1> QED BY <1>5, <1>7, AnswerTypes, AnswerLeaves DEF Started

(* The other answers close the page, free its button or leave it.          *)
LEMMA OtherAnswers ==
  ASSUME TypeInv, NEW c \in calls,
         Sent(c) \/ NotSent(c) \/ Uploaded(c) \/ Discarded(c) \/ GivenUp(c)
  PROVE  /\ Then(c, {}) /\ clicks' = clicks
         /\ \/ page' = page \/ page' = Blank(page.no, None)
            \/ page' = [page EXCEPT !.sending = FALSE]
         /\ kept' \subseteq (1..page.no) \X File /\ shaky' \in BOOLEAN
<1>1. /\ Then(c, {}) /\ clicks' = clicks
      /\ \/ page' = page \/ page' = Blank(page.no, None)
         \/ page' = [page EXCEPT !.sending = FALSE]
      /\ shaky' = shaky \/ shaky' \in BOOLEAN
      /\ kept' = kept \/ kept' = kept \cup ({c.page} \X c.files)
  BY AnswerLeaves DEF Sent, NotSent, Uploaded, Discarded, GivenUp
<1>2. kept' \subseteq (1..page.no) \X File
  <2>1. {c.page} \X c.files \subseteq (1..page.no) \X File
    BY KindOf
  <2> QED BY <1>1, <2>1 DEF TypeInv, FilesOK
<1>3. shaky' \in BOOLEAN
  BY <1>1, AnswerLeaves
<1> QED BY <1>1, <1>2, <1>3

LEMMA OtherTypes ==
  ASSUME TypeInv, NEW c \in calls,
         Sent(c) \/ NotSent(c) \/ Uploaded(c) \/ Discarded(c) \/ GivenUp(c),
         UNCHANGED <<serverVars, edits, turns, binned, raced, excess>>
  PROVE  TypeInv'
<1>1. /\ Then(c, {}) /\ clicks' = clicks
      /\ \/ page' = page \/ page' = Blank(page.no, None)
         \/ page' = [page EXCEPT !.sending = FALSE]
      /\ kept' \subseteq (1..page.no) \X File /\ shaky' \in BOOLEAN
  BY OtherAnswers
<1>2. Grown /\ PageOK'
  BY <1>1, Still, Carried, Blanked, Flagged DEF serverVars
<1>3. CallsOK' /\ ClicksOK'
  BY <1>1, <1>2, ThenOK, Carried
<1> QED BY <1>1, <1>2, <1>3, AnswerTypes

LEMMA AnyAnswerTypes ==
  ASSUME TypeInv, NEW c \in calls, Answer(c)
  PROVE  TypeInv'
<1>1. UNCHANGED <<serverVars, edits, turns, binned, raced, excess>>
  BY DEF Answer
<1>2. \/ Loaded(c) \/ Saved(c) \/ Submitted(c) \/ Started(c)
      \/ Sent(c) \/ NotSent(c) \/ Uploaded(c) \/ Discarded(c) \/ GivenUp(c)
  BY DEF Answer
<1> QED BY <1>1, <1>2, LoadedTypes, SavedTypes, SubmittedTypes, StartedTypes, OtherTypes

LEMMA TakeTypes ==
  ASSUME TypeInv, NEW d \in Draft, Take(d)
  PROVE  TypeInv'
<1>1. /\ jobs[d] > 0 /\ jobs' = [jobs EXCEPT ![d] = @ - 1]
      /\ hand' = [id |-> d, body |-> drafts[d].body] \/ hand' = Nobody
      /\ UNCHANGED <<drafts, mails, page, calls, edits, turns, history>>
  BY DEF Take
<1>2. Grown
  BY <1>1, Still
<1>3. JobsOK'
  <2>1. /\ jobs \in [1..MaxDrafts -> Nat]
        /\ \A e \in 1..MaxDrafts : jobs[e] > 0 => e \in Draft
    BY DEF TypeInv, JobsOK
  <2>2. d \in 1..MaxDrafts /\ jobs[d] - 1 \in Nat
    BY <1>1, <2>1, Numbers
  <2>3. jobs' \in [1..MaxDrafts -> Nat]
    BY <1>1, <2>1, <2>2
  <2>4. \A e \in 1..MaxDrafts : jobs'[e] > 0 => e \in Draft
    BY <1>1, <2>1
  <2> QED BY <1>2, <2>3, <2>4, SetsGrow DEF JobsOK
<1>4. HandOK'
  <2>1. drafts[d].body \in Versions
    BY Rows DEF RowSet
  <2>2. Versions \subseteq Versions' /\ Ids \subseteq Ids' /\ d \in Ids /\ d # None
    BY <1>2, SetsGrow, Numbers DEF Ids
  <2>3. None \in Ids /\ 0 \in Versions
    BY Numbers DEF Ids
  <2> QED BY <1>1, <2>1, <2>2, <2>3 DEF HandOK, Nobody
<1> QED BY <1>1, <1>2, <1>3, <1>4, Carried DEF TypeInv, history

LEMMA MailTypes ==
  ASSUME TypeInv, Mail
  PROVE  TypeInv'
<1>1. PICK bare \in BOOLEAN :
        /\ turns' = turns \/ Turn
        /\ mails' = mails \cup {[id |-> hand.id, body |-> hand.body, bare |-> bare,
                                 files |-> IF bare THEN {} ELSE drafts[hand.id].atts]}
  BY DEF Mail
<1>2. /\ hand # Nobody /\ hand' = Nobody
      /\ \/ drafts' = drafts
         \/ drafts' = [drafts EXCEPT ![hand.id].state = "sent"] /\ Stored(hand.id)
      /\ UNCHANGED <<jobs, page, calls, edits, history>>
  BY DEF Mail
<1>3. hand.id \in Draft /\ hand.body \in Versions
  BY <1>2 DEF TypeInv, HandOK, Ids
<1>4. PICK r \in RowSet : drafts' = [drafts EXCEPT ![hand.id] = r]
  BY <1>2, <1>3, Restated
<1>5. Grown /\ RowsOK'
  BY <1>2, <1>3, <1>4, Amended
<1>6. MailsOK'
  <2>1. drafts[hand.id].atts \subseteq File
    BY <1>3, Rows DEF RowSet
  <2>2. [id |-> hand.id, body |-> hand.body, bare |-> bare,
         files |-> IF bare THEN {} ELSE drafts[hand.id].atts] \in MailSet
    BY <1>3, <2>1 DEF MailSet
  <2> QED BY <1>1, <1>5, <2>2, SetsGrow DEF TypeInv, MailsOK
<1>7. HandOK'
  <2>1. None \in Ids' /\ 0 \in Versions'
    BY <1>5, SetsGrow, Contents, Numbers
  <2> QED BY <1>2, <2>1 DEF HandOK, Nobody
<1>8. CountsOK'
  BY <1>1, <1>5, Turned DEF CountsOK, Grown, TypeInv
<1> QED BY <1>2, <1>5, <1>6, <1>7, <1>8, Carried DEF TypeInv, history

LEMMA InitTypes == Init => TypeInv
<1> SUFFICES ASSUME Init PROVE TypeInv
  OBVIOUS
<1>1. /\ edits = Existing /\ page = Blank(0, None) /\ page.no = 0
      /\ drafts = [d \in 1..Existing |->
                     [state |-> "draft", body |-> d, cc |-> {}, atts |-> {}, by |-> 0]]
  BY DEF Init, Blank
<1>2. Existing \in Nat /\ Existing \in 0..MaxEdits /\ 0 \in 0..MaxPages
  BY ComposeAssumption
<1>3. \A d \in 1..Existing : drafts[d] \in RowSet
  <2>1. \A d \in 1..Existing : d \in 0..edits
    BY <1>1, <1>2
  <2>2. 0 \in 0..page.no
    BY <1>1
  <2> QED BY <1>1, <2>1, <2>2 DEF RowSet, Versions
<1>4. drafts \in Seq(RowSet) /\ Len(drafts) = Existing
  <2>1. drafts \in [1..Existing -> RowSet]
    BY <1>1, <1>3
  <2>2. drafts \in Seq(RowSet)
    BY <1>2, <2>1, SeqDef
  <2> QED BY <1>2, <2>1, <2>2, LenProperties
<1>5. RowsOK
  BY <1>4, ComposeAssumption DEF RowsOK
<1>6. JobsOK
  <2>1. jobs = [d \in 1..MaxDrafts |-> 0]
    BY DEF Init
  <2> QED BY <2>1 DEF JobsOK
<1>7. HandOK /\ MailsOK /\ PageOK
  <2>1. 0 \in Versions /\ None \in Ids
    BY <1>1, <1>2 DEF Versions, Ids
  <2> QED BY <1>1, <1>2, <2>1 DEF Init, HandOK, MailsOK, PageOK, Nobody, Blank
<1>8. CallsOK /\ CountsOK /\ ClicksOK /\ FilesOK
  <2>1. 0 \in 0..MaxTurns
    BY ComposeAssumption
  <2> QED BY <1>1, <1>2, <2>1, FS_EmptySet
        DEF Init, CallsOK, CountsOK, ClicksOK, FilesOK
<1>9. HistoryOK
  BY DEF Init, HistoryOK
<1> QED BY <1>5, <1>6, <1>7, <1>8, <1>9 DEF TypeInv

LEMMA StutterTypes ==
  ASSUME TypeInv, UNCHANGED vars
  PROVE  TypeInv'
<1>1. /\ UNCHANGED <<serverVars, page, calls, edits, turns>>
      /\ UNCHANGED <<clicks, kept, binned, raced, shaky, excess>>
  BY DEF vars, history
<1>2. Grown
  BY <1>1, Still DEF serverVars
<1> QED BY <1>1, <1>2, Carried DEF TypeInv, serverVars

LEMMA TypeStep == TypeInv /\ [Next]_vars => TypeInv'
<1> SUFFICES ASSUME TypeInv, [Next]_vars PROVE TypeInv'
  OBVIOUS
<1>1. CASE Open(None)
  BY <1>1, OpenTypes DEF Ids
<1>2. CASE \E d \in Draft : Open(d) \/ Jump(d) \/ Take(d)
  BY <1>2, OpenTypes, JumpTypes, TakeTypes DEF Ids
<1>3. CASE Edit \/ (\E a \in Addr : EditCc(a)) \/ Persist \/ HandleSend
  BY <1>3, EditTypes, EditCcTypes, PersistTypes, HandleSendTypes
<1>4. CASE \E f \in File : HandleFiles(f) \/ \E d \in Draft : RemoveAttachment(d, f)
  BY <1>4, HandleFilesTypes, RemoveAttachmentTypes
<1>5. CASE HandleDiscard \/ Leave
  BY <1>5, HandleDiscardTypes, LeaveTypes
<1>6. CASE \E c \in calls : Serve(c) \/ Fail(c) \/ Lose(c) \/ Answer(c)
  BY <1>6, ServeTypes, FailTypes, LoseTypes, AnyAnswerTypes
<1>7. CASE Mail
  BY <1>7, MailTypes
<1>8. CASE UNCHANGED vars
  BY <1>8, StutterTypes
<1> QED BY <1>1, <1>2, <1>3, <1>4, <1>5, <1>6, <1>7, <1>8 DEF Next

LEMMA TypesImply == TypeInv => TypeOK
<1> SUFFICES ASSUME TypeInv PROVE TypeOK
  OBVIOUS
<1>1. RowsOK /\ JobsOK /\ HandOK /\ MailsOK /\ PageOK
  BY DEF TypeInv
<1>2. CallsOK /\ CountsOK /\ ClicksOK /\ FilesOK /\ HistoryOK
  BY DEF TypeInv
<1>3. /\ drafts \in Seq(RowSet) /\ Len(drafts) <= MaxDrafts
      /\ jobs \in [1..MaxDrafts -> Nat] /\ \A d \in 1..MaxDrafts : jobs[d] > 0 => d \in Draft
      /\ hand \in [id : Ids, body : Versions] /\ mails \subseteq MailSet
      /\ page \in [no : 0..MaxPages, open : BOOLEAN, loaded : Ids, id : Ids, body : Versions,
                   cc : SUBSET Addr, sending : BOOLEAN, armed : BOOLEAN]
  BY <1>1 DEF RowsOK, JobsOK, HandOK, MailsOK, PageOK
<1>4. /\ calls \subseteq CallSet
      /\ \A c \in calls : c.id = None => c.op \in Writing /\ (c.st = "ok" => c.of # None)
      /\ edits \in 0..MaxEdits /\ turns \in 0..MaxTurns /\ clicks \subseteq ClickSet
      /\ kept \subseteq (1..page.no) \X File /\ binned \subseteq File
      /\ raced \subseteq Draft /\ shaky \in BOOLEAN /\ excess \in [1..MaxPages -> Nat]
  BY <1>2 DEF CallsOK, CallOK, CountsOK, ClicksOK, FilesOK, HistoryOK
<1> QED BY <1>3, <1>4 DEF TypeOK, RowSet, CallSet, ContentSet, ClickSet, MailSet, Ids, Versions

(* Every variable of the page, its requests and the server keeps its type, *)
(* and a request without a draft is one that creates it.                   *)
THEOREM ComposeTypeCorrect == Spec => []TypeOK
<1>1. Init => TypeInv
  BY InitTypes
<1>2. TypeInv /\ [Next]_vars => TypeInv'
  BY TypeStep
<1>3. TypeInv => TypeOK
  BY TypesImply
<1> QED BY <1>1, <1>2, <1>3, PTL DEF Spec

-----------------------------------------------------------------------------
(* One page makes one draft                                                *)

Creation(c) == c.op \in Writing /\ c.id = None

(* The drafts page n has made, its creations under way, and those whose    *)
(* answer may still come.  A page without a draft and without any of them  *)
(* is yet to make one.                                                     *)
Made(n) == {d \in Draft : drafts[d].by = n}
Due(n) == {c \in calls : Creation(c) /\ c.page = n /\ c.st = "asked"}
Awaited(n) == {c \in calls : Creation(c) /\ c.page = n /\ c.st # "failed"}
Fresh(n) == page.no = n /\ page.open /\ page.id = None /\ Awaited(n) = {}
Yet(n) == IF Fresh(n) THEN 1 ELSE 0
EarnedInv ==
  \A n \in 1..MaxPages : Cardinality(Made(n)) + Cardinality(Due(n)) + Yet(n) <= 1 + excess[n]

LEMMA Finite ==
  ASSUME TypeInv, NEW n \in 1..MaxPages
  PROVE  /\ IsFiniteSet(Made(n)) /\ IsFiniteSet(Due(n))
         /\ Cardinality(Made(n)) \in Nat /\ Cardinality(Due(n)) \in Nat
         /\ Yet(n) \in {0, 1} /\ excess[n] \in Nat
<1>1. IsFiniteSet(Draft)
  <2>1. Len(drafts) \in Nat
    BY Numbers
  <2> QED BY <2>1, FS_Interval DEF Draft
<1>2. IsFiniteSet(Made(n))
  <2>1. Made(n) \subseteq Draft
    BY DEF Made
  <2> QED BY <1>1, <2>1, FS_Subset
<1>3. IsFiniteSet(Due(n))
  <2>1. Due(n) \subseteq calls /\ IsFiniteSet(calls)
    BY DEF Due, TypeInv, CallsOK
  <2> QED BY <2>1, FS_Subset
<1>4. Yet(n) \in {0, 1} /\ excess[n] \in Nat
  BY DEF Yet, TypeInv, HistoryOK
<1> QED BY <1>2, <1>3, <1>4, FS_CardinalityType

(* No draft is made.                                                       *)
SameMakers == Draft' = Draft /\ \A d \in Draft : drafts'[d].by = drafts[d].by

(* A page without a draft, and its creations, are as before.               *)
SameNeed ==
  page'.open /\ page'.id = None =>
    /\ page.open /\ page.id = None /\ page'.no = page.no
    /\ Awaited(page.no) \subseteq calls'
NoCreation == \A e \in calls' : Creation(e) /\ e.st # "failed" => e \in calls

LEMMA EarnedQuiet ==
  ASSUME TypeInv, TypeInv', EarnedInv, SameMakers, SameNeed, NoCreation, excess' = excess
  PROVE  EarnedInv'
<1> SUFFICES ASSUME NEW n \in 1..MaxPages
             PROVE  Cardinality(Made(n)') + Cardinality(Due(n)') + Yet(n)' <= 1 + excess'[n]
  BY DEF EarnedInv
<1>1. Made(n)' = Made(n)
  BY DEF Made, SameMakers
<1>2. Due(n)' \subseteq Due(n)
  BY DEF Due, NoCreation
<1>3. Cardinality(Due(n)') <= Cardinality(Due(n)) /\ Cardinality(Due(n)') \in Nat
  BY <1>2, Finite, FS_Subset, FS_CardinalityType
<1>4. Fresh(n)' => Fresh(n)
  <2> SUFFICES ASSUME Fresh(n)' PROVE Fresh(n)
    OBVIOUS
  <2>1. page'.no = n /\ page'.open /\ page'.id = None /\ Awaited(n)' = {}
    BY DEF Fresh
  <2>2. page.open /\ page.id = None /\ page.no = n /\ Awaited(n) \subseteq calls'
    BY <2>1 DEF SameNeed
  <2>3. Awaited(n) \subseteq Awaited(n)'
    BY <2>2 DEF Awaited
  <2> QED BY <2>1, <2>2, <2>3 DEF Fresh
<1>5. Yet(n)' \in {0, 1} /\ Yet(n)' <= Yet(n)
  BY <1>4 DEF Yet
<1>6. Cardinality(Made(n)) + Cardinality(Due(n)) + Yet(n) <= 1 + excess[n]
  BY DEF EarnedInv
<1> QED BY <1>1, <1>3, <1>5, <1>6, Finite

LEMMA SameDrafts ==
  ASSUME drafts' = drafts
  PROVE  SameMakers
BY DEF SameMakers, Draft

(* A step of the page that asks for nothing, or for no draft.              *)
LEMMA EarnedAsked ==
  ASSUME TypeInv, TypeInv', EarnedInv, drafts' = drafts, excess' = excess,
         \/ page'.open = FALSE
         \/ page'.open = page.open /\ page'.id = page.id /\ page'.no = page.no,
         \/ calls' = calls
         \/ \E e : calls' = calls \cup {e} /\ ~Creation(e)
  PROVE  EarnedInv'
<1>1. SameNeed
  BY DEF SameNeed, Awaited
<1>2. NoCreation
  BY DEF NoCreation
<1> QED BY <1>1, <1>2, SameDrafts, EarnedQuiet

(* The next page has made nothing yet.                                     *)
LEMMA OpenEarned ==
  ASSUME TypeInv, TypeInv', EarnedInv, NEW d \in Ids, Open(d)
  PROVE  EarnedInv'
<1> SUFFICES ASSUME NEW n \in 1..MaxPages
             PROVE  Cardinality(Made(n)') + Cardinality(Due(n)') + Yet(n)' <= 1 + excess'[n]
  BY DEF EarnedInv
<1>1. /\ ~page.open /\ drafts' = drafts /\ excess' = excess
      /\ \/ calls' = calls
         \/ calls' = calls \cup {[Call("load", d, Empty, {}) EXCEPT !.page = page.no + 1]}
  BY DEF Open, Ask, serverVars
<1>2. page'.no = page.no + 1
  BY DEF Open, Blank
<1>3. Made(n)' = Made(n)
  BY <1>1 DEF Made, Draft
<1>4. Due(n)' = Due(n)
  <2>1. \A e : e = [Call("load", d, Empty, {}) EXCEPT !.page = page.no + 1] => e.op = "load"
    BY DEF Call
  <2>2. \A e : e.op = "load" => ~Creation(e)
    BY DEF Creation, Writing
  <2> QED BY <1>1, <2>1, <2>2 DEF Due, Creation
<1>5. Cardinality(Made(n)) + Cardinality(Due(n)) + Yet(n) <= 1 + excess[n]
  BY DEF EarnedInv
<1>6. CASE n # page.no + 1
  <2>1. Yet(n)' = 0
    BY <1>2, <1>6 DEF Yet, Fresh
  <2> QED BY <1>1, <1>3, <1>4, <1>5, <2>1, Finite
<1>7. CASE n = page.no + 1
  <2>1. Made(n) = {}
    <3>1. \A e \in Draft : drafts[e].by \in 0..page.no
      BY Rows DEF RowSet
    <3>2. \A e \in Draft : drafts[e].by # n
      BY <1>7, <3>1, Numbers
    <3> QED BY <3>2 DEF Made
  <2>2. Due(n) = {}
    <3>1. \A e \in calls : e.page \in 1..page.no
      BY KindOf
    <3>2. \A e \in calls : e.page # n
      BY <1>7, <3>1, Numbers
    <3> QED BY <3>2 DEF Due
  <2>3. Cardinality(Made(n)') = 0 /\ Cardinality(Due(n)') = 0
    BY <1>3, <1>4, <2>1, <2>2, FS_EmptySet
  <2>4. Yet(n)' \in {0, 1}
    BY DEF Yet
  <2> QED BY <1>1, <2>3, <2>4, Finite
<1> QED BY <1>6, <1>7

(* A request that writes is the one the page was yet to make, or counts as *)
(* one too many.                                                           *)
LEMMA WriteEarned ==
  ASSUME TypeInv, TypeInv', EarnedInv, page.open, drafts' = drafts,
         page'.open = page.open, page'.id = page.id, page'.no = page.no,
         NEW op \in Writing, NEW files \in SUBSET File, Write(op, files)
  PROVE  EarnedInv'
<1>1. PICK c : c = Call(op, page.id, Shown, files)
  OBVIOUS
<1>2. c.op = op /\ c.id = page.id /\ c.page = page.no /\ c.st = "asked"
  BY <1>1 DEF Call
<1>3. /\ c \notin calls /\ calls' = calls \cup {c}
      /\ excess' = IF page.id = None /\ Writes(page.id) \cup Creates(page.no) # {}
                     THEN [excess EXCEPT ![page.no] = @ + 1] ELSE excess
  BY <1>1 DEF Write, Ask
<1>4. CASE page.id # None
  <2>1. ~Creation(c)
    BY <1>2, <1>4 DEF Creation
  <2> QED BY <1>3, <1>4, <2>1, EarnedAsked
<1>5. CASE page.id = None
  <2> SUFFICES ASSUME NEW n \in 1..MaxPages
               PROVE  Cardinality(Made(n)') + Cardinality(Due(n)') + Yet(n)' <= 1 + excess'[n]
    BY DEF EarnedInv
  <2>1. Made(n)' = Made(n)
    BY DEF Made, Draft
  <2>2. Cardinality(Made(n)) + Cardinality(Due(n)) + Yet(n) <= 1 + excess[n]
    BY DEF EarnedInv
  <2>3. CASE n # page.no
    <3>1. Due(n)' = Due(n)
      BY <1>2, <1>3, <2>3 DEF Due
    <3>2. Yet(n)' = 0
      BY <2>3 DEF Yet, Fresh
    <3>3. excess'[n] = excess[n]
      BY <1>3, <2>3 DEF TypeInv, HistoryOK
    <3> QED BY <2>1, <2>2, <3>1, <3>2, <3>3, Finite
  <2>4. CASE n = page.no
    <3>1. Due(n)' = Due(n) \cup {c}
      BY <1>2, <1>3, <1>5, <2>4 DEF Due, Creation
    <3>2. Cardinality(Due(n)') = Cardinality(Due(n)) + 1
      <4>1. c \notin Due(n)
        BY <1>3 DEF Due
      <4> QED BY <3>1, <4>1, Finite, FS_AddElement
    <3>3. Yet(n)' = 0
      <4>1. c \in Awaited(n)'
        BY <1>2, <1>3, <1>5, <2>4 DEF Awaited, Creation
      <4> QED BY <4>1 DEF Yet, Fresh
    <3>4. CASE Creates(page.no) = {}
      <4>1. Awaited(n) = {}
        BY <2>4, <3>4 DEF Awaited, Creates, Creation
      <4>2. Yet(n) = 1
        BY <1>5, <2>4, <4>1 DEF Yet, Fresh
      <4>3. excess'[n] >= excess[n] /\ excess'[n] \in Nat
        BY <1>3, <2>4, Finite DEF TypeInv, HistoryOK
      <4> QED BY <2>1, <2>2, <3>2, <3>3, <4>2, <4>3, Finite
    <3>5. CASE Creates(page.no) # {}
      <4>1. excess'[n] = excess[n] + 1
        BY <1>3, <1>5, <2>4, <3>5 DEF TypeInv, HistoryOK
      <4> QED BY <2>1, <2>2, <3>2, <3>3, <4>1, Finite
    <3> QED BY <3>4, <3>5
  <2> QED BY <2>3, <2>4
<1> QED BY <1>4, <1>5

LEMMA PageEarned ==
  ASSUME TypeInv, TypeInv', EarnedInv,
         \/ (\E d \in Draft : Jump(d)) \/ Edit \/ (\E a \in Addr : EditCc(a))
         \/ Persist \/ HandleSend
         \/ \E f \in File : HandleFiles(f) \/ \E d \in Draft : RemoveAttachment(d, f)
         \/ HandleDiscard \/ Leave
  PROVE  EarnedInv'
<1>1. ASSUME NEW op \in Op \ Writing, NEW id, NEW what, NEW files
      PROVE  ~Creation(Call(op, id, what, files))
  BY <1>1 DEF Creation, Call
<1>2. /\ "load" \in Op \ Writing /\ "upload" \in Op \ Writing
      /\ "remove" \in Op \ Writing /\ "discard" \in Op \ Writing
      /\ "save" \in Writing /\ "submit" \in Writing /\ "start" \in Writing
  BY DEF Op, Writing
<1>3. CASE \E d \in Draft : Jump(d)
  <2>1. PICK d \in Draft : Jump(d)
    BY <1>3
  <2>2. /\ calls' = calls \cup {Call("load", d, Empty, {})}
        /\ drafts' = drafts /\ excess' = excess /\ page' = page
    BY <2>1 DEF Jump, Ask, serverVars, history
  <2> QED BY <1>1, <1>2, <2>2, EarnedAsked
<1>4. CASE Edit \/ \E a \in Addr : EditCc(a)
  <2>1. UNCHANGED <<drafts, calls, excess>>
    BY <1>4 DEF Edit, EditCc, serverVars, history
  <2>2. page'.open = page.open /\ page'.id = page.id /\ page'.no = page.no
    BY <1>4 DEF Edit, EditCc, TypeInv, PageOK
  <2> QED BY <2>1, <2>2, EarnedAsked
<1>5. CASE Persist \/ HandleSend
  <2>1. /\ drafts' = drafts /\ page.open
        /\ \/ UNCHANGED <<calls, excess>>
           \/ \E op \in Writing, files \in SUBSET File : Write(op, files)
    <3>1. AttachedTo(page.no) \in SUBSET File
      BY DEF AttachedTo
    <3> QED BY <1>2, <1>5, <3>1 DEF Persist, HandleSend, serverVars
  <2>2. page'.open = page.open /\ page'.id = page.id /\ page'.no = page.no
    BY <1>5 DEF Persist, HandleSend, TypeInv, PageOK
  <2> QED BY <2>1, <2>2, EarnedAsked, WriteEarned
<1>6. CASE \E f \in File : HandleFiles(f)
  <2>1. PICK f \in File : HandleFiles(f)
    BY <1>6
  <2>2. /\ drafts' = drafts /\ page.open /\ page' = page
        /\ \/ Write("start", {f})
           \/ excess' = excess /\ calls' = calls \cup {Call("upload", page.id, Empty, {f})}
    BY <2>1 DEF HandleFiles, Ask, serverVars
  <2>3. {f} \in SUBSET File
    OBVIOUS
  <2> QED BY <1>1, <1>2, <2>2, <2>3, EarnedAsked, WriteEarned
<1>7. CASE \E f \in File, d \in Draft : RemoveAttachment(d, f)
  <2>1. PICK f \in File, d \in Draft : RemoveAttachment(d, f)
    BY <1>7
  <2>2. PICK e : e = [Call("remove", page.id, Empty, {f}) EXCEPT !.of = d]
    OBVIOUS
  <2>3. /\ calls' = calls \cup {e} /\ drafts' = drafts /\ excess' = excess /\ page' = page
    BY <2>1, <2>2 DEF RemoveAttachment, Ask, serverVars, history
  <2>4. ~Creation(e)
    BY <2>2 DEF Creation, Call, Writing
  <2> QED BY <2>3, <2>4, EarnedAsked
<1>8. CASE HandleDiscard
  <2>1. /\ calls' = calls \cup {Call("discard", page.id, Empty, {})}
        /\ drafts' = drafts /\ excess' = excess /\ page' = page
    BY <1>8 DEF HandleDiscard, Ask, serverVars, history
  <2> QED BY <1>1, <1>2, <2>1, EarnedAsked
<1>9. CASE Leave
  <2>1. UNCHANGED <<drafts, calls, excess>> /\ page'.open = FALSE
    BY <1>9 DEF Leave, Blank, serverVars, history
  <2> QED BY <2>1, EarnedAsked
<1> QED BY <1>3, <1>4, <1>5, <1>6, <1>7, <1>8, <1>9

(* A request ends, or becomes one that makes no draft.                     *)
LEMMA EarnedAnswered ==
  ASSUME TypeInv, TypeInv', EarnedInv, SameMakers, excess' = excess, NEW c \in calls,
         \/ calls' = calls \ {c}
         \/ \E e : calls' = (calls \ {c}) \cup {e} /\ (Creation(e) => e.st = "failed"),
         page'.open /\ page'.id = None =>
           page.open /\ page.id = None /\ page'.no = page.no /\ c \notin Awaited(page.no)
  PROVE  EarnedInv'
<1>1. SameNeed
  BY DEF SameNeed, Awaited
<1>2. NoCreation
  BY DEF NoCreation
<1> QED BY <1>1, <1>2, EarnedQuiet

(* A creation goes on: it leaves those under way, and once it is answered  *)
(* the page awaits it.                                                     *)
LEMMA Turnover ==
  ASSUME TypeInv, NEW c \in calls, Creation(c), NEW d,
         d.op = c.op, d.id = c.id, d.page = c.page, d.st # "asked",
         calls' = (calls \ {c}) \cup {d}, page' = page, NEW n \in 1..MaxPages
  PROVE  /\ n # c.page => Due(n)' = Due(n) /\ Yet(n)' = Yet(n)
         /\ n = c.page /\ c.st = "asked" => Cardinality(Due(n)') = Cardinality(Due(n)) - 1
         /\ n = c.page /\ c.st # "asked" => Due(n)' = Due(n)
         /\ n = c.page /\ d.st # "failed" => Yet(n)' = 0
         /\ Yet(n)' \in {0, 1}
<1>1. Creation(d)
  BY DEF Creation
<1>2. n # c.page => Due(n)' = Due(n) /\ Yet(n)' = Yet(n)
  <2> SUFFICES ASSUME n # c.page PROVE Due(n)' = Due(n) /\ Yet(n)' = Yet(n)
    OBVIOUS
  <2>1. Due(n)' = Due(n) /\ Awaited(n)' = Awaited(n)
    BY DEF Due, Awaited
  <2> QED BY <2>1 DEF Yet, Fresh
<1>3. n = c.page /\ c.st = "asked" => Cardinality(Due(n)') = Cardinality(Due(n)) - 1
  <2> SUFFICES ASSUME n = c.page, c.st = "asked"
               PROVE  Cardinality(Due(n)') = Cardinality(Due(n)) - 1
    OBVIOUS
  <2>1. Due(n)' = Due(n) \ {c} /\ c \in Due(n)
    BY DEF Due
  <2> QED BY <2>1, Finite, FS_RemoveElement
<1>4. n = c.page /\ c.st # "asked" => Due(n)' = Due(n)
  BY DEF Due
<1>5. n = c.page /\ d.st # "failed" => Yet(n)' = 0
  <2> SUFFICES ASSUME n = c.page, d.st # "failed" PROVE Yet(n)' = 0
    OBVIOUS
  <2>1. d \in Awaited(n)'
    BY <1>1 DEF Awaited
  <2> QED BY <2>1 DEF Yet, Fresh
<1> QED BY <1>2, <1>3, <1>4, <1>5 DEF Yet

(* A draft more.                                                           *)
LEMMA Appended ==
  ASSUME TypeInv, NEW c \in calls, CreateDraft(c), NEW k, k = Len(drafts) + 1
  PROVE  /\ Draft' = Draft \cup {k} /\ k \notin Draft /\ k # None
         /\ \A e \in Draft : drafts'[e] = drafts[e]
         /\ drafts'[k].by = c.page
         /\ drafts'[k].body = c.what.body /\ drafts'[k].cc = c.what.cc
<1>1. PICK r : r = [state |-> "draft", body |-> c.what.body, cc |-> c.what.cc,
                    atts |-> {}, by |-> c.page]
  OBVIOUS
<1>2. drafts' = Append(drafts, r)
  BY <1>1 DEF CreateDraft
<1>3. drafts \in Seq(RowSet) /\ Len(drafts) \in Nat
  BY Numbers DEF TypeInv, RowsOK
<1>4. /\ Len(drafts') = Len(drafts) + 1 /\ drafts'[k] = r
      /\ \A e \in 1..Len(drafts) : drafts'[e] = drafts[e]
  BY <1>2, <1>3, AppendProperties
<1>5. r.by = c.page /\ r.body = c.what.body /\ r.cc = c.what.cc
  BY <1>1
<1> QED BY <1>3, <1>4, <1>5 DEF Draft, None

LEMMA CreateDraftEarned ==
  ASSUME TypeInv, TypeInv', EarnedInv, NEW c \in calls, Creation(c), c.st = "asked",
         CreateDraft(c), page' = page, excess' = excess
  PROVE  EarnedInv'
<1> SUFFICES ASSUME NEW n \in 1..MaxPages
             PROVE  Cardinality(Made(n)') + Cardinality(Due(n)') + Yet(n)' <= 1 + excess'[n]
  BY DEF EarnedInv
<1>1. PICK d : d = [[c EXCEPT !.of = Len(drafts) + 1] EXCEPT !.st = "ok"]
  OBVIOUS
<1>2. calls' = (calls \ {c}) \cup {d}
  BY <1>1 DEF CreateDraft, Reply, Replace
<1>3. d.op = c.op /\ d.id = c.id /\ d.page = c.page /\ d.st = "ok"
  BY <1>1, KindOf DEF CallSet
<1>4. PICK k : k = Len(drafts) + 1
  OBVIOUS
<1>5. /\ Draft' = Draft \cup {k} /\ k \notin Draft /\ drafts'[k].by = c.page
      /\ \A e \in Draft : drafts'[e] = drafts[e]
  BY <1>4, Appended
<1>6. /\ n # c.page => Made(n)' = Made(n)
      /\ n = c.page => Cardinality(Made(n)') = Cardinality(Made(n)) + 1
  <2>1. n # c.page => Made(n)' = Made(n)
    BY <1>5 DEF Made
  <2>2. n = c.page => Made(n)' = Made(n) \cup {k} /\ k \notin Made(n)
    BY <1>5 DEF Made
  <2> QED BY <2>1, <2>2, Finite, FS_AddElement
<1>7. /\ n # c.page => Due(n)' = Due(n) /\ Yet(n)' = Yet(n)
      /\ n = c.page => Cardinality(Due(n)') = Cardinality(Due(n)) - 1 /\ Yet(n)' = 0
  BY <1>2, <1>3, Turnover
<1>8. Cardinality(Made(n)) + Cardinality(Due(n)) + Yet(n) <= 1 + excess[n]
  BY DEF EarnedInv
<1> QED BY <1>6, <1>7, <1>8, Finite

(* The row of one draft changes, and its maker stays.                      *)
LEMMA OtherMakers ==
  ASSUME TypeInv, NEW d \in Draft, page'.no = page.no, edits' = edits,
         \E r \in RowSet : drafts' = [drafts EXCEPT ![d] = r] /\ r.by = drafts[d].by
  PROVE  SameMakers
BY Amended DEF SameMakers

(* The request an answered one becomes is of its kind.                     *)
LEMMA Succession ==
  ASSUME TypeInv, NEW c \in calls,
         \/ GetMessage(c) \/ SendDraft(c)
         \/ c.id # None /\ UpdateDraft(c)
         \/ c.op \in {"upload", "remove", "discard"} /\ Handle(c)
  PROVE  \/ calls' = calls \ {c}
         \/ \E e : calls' = (calls \ {c}) \cup {e} /\ e.id = c.id /\ e.op = c.op
<1>1. c \in CallSet
  BY KindOf
<1>2. \/ calls' = calls \ {c}
      \/ Refuse(c) \/ Reply(c, c) \/ Reply(c, [c EXCEPT !.what = Empty, !.files = {}])
      \/ Reply(c, [c EXCEPT !.what = Content(drafts[c.id].body, drafts[c.id].cc)])
  BY DEF GetMessage, SendDraft, UpdateDraft, Handle, UploadAttachment, DeleteAttachment,
         DeleteMessage, Writing
<1>3. CASE Refuse(c)
  <2>1. PICK e : e = [c EXCEPT !.st = "failed", !.what = Empty, !.files = {}]
    OBVIOUS
  <2>2. e.id = c.id /\ e.op = c.op
    BY <1>1, <2>1 DEF CallSet
  <2> QED BY <1>3, <2>1, <2>2 DEF Refuse, Replace
<1>4. ASSUME NEW d, Reply(c, d),
             \/ d = c \/ d = [c EXCEPT !.what = Empty, !.files = {}]
             \/ \E w : d = [c EXCEPT !.what = w]
      PROVE  \E e : calls' = (calls \ {c}) \cup {e} /\ e.id = c.id /\ e.op = c.op
  <2>1. PICK e : e = [d EXCEPT !.st = "ok"]
    OBVIOUS
  <2>2. e.id = c.id /\ e.op = c.op
    BY <1>1, <1>4, <2>1 DEF CallSet
  <2> QED BY <1>4, <2>1, <2>2 DEF Reply, Replace
<1> QED BY <1>2, <1>3, <1>4

LEMMA ServeEarned ==
  ASSUME TypeInv, TypeInv', EarnedInv, NEW c \in calls, Serve(c)
  PROVE  EarnedInv'
<1>1. /\ c.st = "asked" /\ Handle(c) /\ c.op \in Op
      /\ UNCHANGED <<page, edits, excess>>
  BY KindOf DEF Serve
<1>2. CASE Creation(c)
  <2>1. CreateDraft(c)
    BY <1>1, <1>2 DEF Creation, Handle, Writing
  <2> QED BY <1>1, <1>2, <2>1, CreateDraftEarned
<1>3. CASE ~Creation(c)
  <2>1. c.id \in Draft
    BY <1>3, KindOf DEF Creation
  <2>2. \/ c.op = "load" /\ GetMessage(c)
        \/ c.op \in Writing /\ c.id # None /\ UpdateDraft(c)
        \/ c.op = "send" /\ SendDraft(c)
        \/ c.op \in {"upload", "remove", "discard"} /\ Handle(c)
    BY <1>1, <1>3 DEF Creation, Handle, Writing, Op
  <2>3. \E r \in RowSet : drafts' = [drafts EXCEPT ![c.id] = r] /\ r.by = drafts[c.id].by
    <3>1. CASE drafts' = drafts
      BY <2>1, <3>1, Restated
    <3>2. CASE UpdateDraft(c) /\ Stored(c.id)
      BY <2>1, <3>2, Numbers, UpdateRow
    <3>3. CASE c.op \in {"upload", "remove", "discard"}
      BY <1>1, <2>1, <3>3, Changed
    <3> QED BY <2>2, <3>1, <3>2, <3>3 DEF GetMessage, UpdateDraft, SendDraft
  <2>4. SameMakers
    BY <1>1, <2>1, <2>3, OtherMakers
  <2>5. \/ calls' = calls \ {c}
        \/ \E e : calls' = (calls \ {c}) \cup {e} /\ e.id = c.id /\ e.op = c.op
    BY <2>2, Succession
  <2>6. /\ calls' = calls \ {c} \/ \E e : calls' = (calls \ {c}) \cup {e} /\ ~Creation(e)
        /\ c \notin Awaited(page.no)
    BY <1>3, <2>5 DEF Creation, Awaited
  <2> QED BY <1>1, <2>4, <2>6, EarnedAnswered
<1> QED BY <1>2, <1>3

(* A request fails, or its answer is lost.                                 *)
LEMMA BrokenEarned ==
  ASSUME TypeInv, TypeInv', EarnedInv, NEW c \in calls, Fail(c) \/ Lose(c)
  PROVE  EarnedInv'
<1>1. PICK d : d = [c EXCEPT !.st = "failed", !.what = Empty, !.files = {}]
  OBVIOUS
<1>2. d.op = c.op /\ d.id = c.id /\ d.page = c.page /\ d.st = "failed"
  BY <1>1, KindOf DEF CallSet
<1>3. /\ drafts' = drafts /\ page' = page
      /\ \/ calls' = (calls \ {c}) \cup {d}
         \/ calls' = calls \ {c} /\ c.op = "remove"
      /\ \/ c.st = "asked" /\ excess' = excess
         \/ /\ c.st = "ok"
            /\ excess' = IF Creation(c) THEN [excess EXCEPT ![c.page] = @ + 1] ELSE excess
  BY <1>1 DEF Fail, Lose, Refuse, Replace, serverVars, history, Creation
<1>4. CASE ~Creation(c)
  BY <1>2, <1>3, <1>4, EarnedAnswered, SameDrafts DEF Creation, Awaited
<1>5. CASE Creation(c)
  <2> SUFFICES ASSUME NEW n \in 1..MaxPages
               PROVE  Cardinality(Made(n)') + Cardinality(Due(n)') + Yet(n)' <= 1 + excess'[n]
    BY DEF EarnedInv
  <2>1. Made(n)' = Made(n)
    BY <1>3 DEF Made, Draft
  <2>2. calls' = (calls \ {c}) \cup {d}
    BY <1>3, <1>5 DEF Creation, Writing
  <2>3. /\ n # c.page => Due(n)' = Due(n) /\ Yet(n)' = Yet(n)
        /\ n = c.page /\ c.st = "asked" => Cardinality(Due(n)') = Cardinality(Due(n)) - 1
        /\ n = c.page /\ c.st # "asked" => Due(n)' = Due(n)
        /\ Yet(n)' \in {0, 1}
    BY <1>2, <1>3, <1>5, <2>2, Turnover
  <2>4. /\ n # c.page => excess'[n] = excess[n]
        /\ n = c.page /\ c.st = "ok" => excess'[n] = excess[n] + 1
        /\ n = c.page /\ c.st = "asked" => excess'[n] = excess[n]
    BY <1>3, <1>5 DEF TypeInv, HistoryOK
  <2>5. Cardinality(Made(n)) + Cardinality(Due(n)) + Yet(n) <= 1 + excess[n]
    BY DEF EarnedInv
  <2> QED BY <1>3, <2>1, <2>3, <2>4, <2>5, Finite
<1> QED BY <1>4, <1>5

LEMMA AnswerEarned ==
  ASSUME TypeInv, TypeInv', EarnedInv, NEW c \in calls, Answer(c)
  PROVE  EarnedInv'
<1>1. drafts' = drafts /\ excess' = excess
  BY DEF Answer, serverVars
<1>2. SameMakers
  BY <1>1, SameDrafts
<1>3. ASSUME NEW d, NEW files, NEW op \in {"send", "upload"}, NEW e,
             e = [Call(op, d, Empty, files) EXCEPT !.page = c.page]
      PROVE  ~Creation(e)
  BY <1>3 DEF Call, Creation, Writing
<1>4. ASSUME c.id = None, c.st = "ok", NEW cs, Adopt(c, c.of, cs),
             page'.open, page'.id = None
      PROVE  page.open /\ page.id = None /\ page'.no = page.no /\ c \notin Awaited(page.no)
  <2>1. c.of # None
    BY <1>4, Brought, Numbers
  <2>2. ~Mine(c) /\ page' = page
    BY <1>4, <2>1 DEF Adopt, TypeInv, PageOK
  <2> QED BY <1>4, <2>2 DEF Mine, Awaited
<1>5. CASE Loaded(c)
  <2>1. calls' = calls \ {c} /\ c.op = "load"
    BY <1>5 DEF Loaded, Then
  <2>2. page'.open = page.open /\ page'.id = page.id /\ page'.no = page.no
    BY <1>5 DEF Loaded, TypeInv, PageOK
  <2>3. c \notin Awaited(page.no)
    BY <2>1 DEF Awaited, Creation, Writing
  <2> QED BY <1>1, <1>2, <2>1, <2>2, <2>3, EarnedAnswered
<1>6. CASE Saved(c)
  <2>1. calls' = calls \ {c}
    BY <1>6 DEF Saved, Then, Adopt
  <2>2. CASE c.id = None
    <3>1. Adopt(c, c.of, {}) /\ c.st = "ok"
      BY <1>6, <2>2 DEF Saved
    <3> QED BY <1>1, <1>2, <1>4, <2>1, <2>2, <3>1, EarnedAnswered
  <2>3. CASE c.id # None
    <3>1. page' = page /\ c \notin Awaited(page.no)
      BY <1>6, <2>3 DEF Saved, Awaited, Creation
    <3> QED BY <1>1, <1>2, <2>1, <3>1, EarnedAnswered
  <2> QED BY <2>2, <2>3
<1>7. CASE Submitted(c)
  <2>1. PICK d : d = IF c.id = None THEN c.of ELSE c.id
    OBVIOUS
  <2>2. PICK e : e = [Call("send", d, Empty, {}) EXCEPT !.page = c.page]
    OBVIOUS
  <2>3. calls' = (calls \ {c}) \cup {e} /\ ~Creation(e) /\ c.st = "ok"
    BY <1>3, <1>7, <2>1, <2>2 DEF Submitted, Then, Adopt
  <2>4. CASE c.id = None
    <3>1. Adopt(c, c.of, {e})
      BY <1>7, <2>1, <2>2, <2>4 DEF Submitted
    <3> QED BY <1>1, <1>2, <1>4, <2>3, <2>4, <3>1, EarnedAnswered
  <2>5. CASE c.id # None
    <3>1. page' = page /\ c \notin Awaited(page.no)
      BY <1>7, <2>5 DEF Submitted, Awaited, Creation
    <3> QED BY <1>1, <1>2, <2>3, <3>1, EarnedAnswered
  <2> QED BY <2>4, <2>5
<1>8. CASE Started(c)
  <2>1. PICK e : e = [Call("upload", c.of, Empty, c.files) EXCEPT !.page = c.page]
    OBVIOUS
  <2>2. Adopt(c, c.of, {e}) /\ c.st = "ok" /\ c.id = None
    BY <1>8, <2>1 DEF Started, TypeInv, CallsOK, CallOK
  <2>3. calls' = (calls \ {c}) \cup {e} /\ ~Creation(e)
    BY <1>3, <2>1, <2>2 DEF Then, Adopt
  <2> QED BY <1>1, <1>2, <1>4, <2>2, <2>3, EarnedAnswered
<1>9. CASE Sent(c) \/ NotSent(c) \/ Uploaded(c) \/ Discarded(c) \/ GivenUp(c)
  <2>1. calls' = calls \ {c}
    BY <1>9 DEF Sent, NotSent, Uploaded, Discarded, GivenUp, Then
  <2>2. \/ page'.open = FALSE
        \/ page'.open = page.open /\ page'.id = page.id /\ page'.no = page.no
    BY <1>9, OtherAnswers DEF Blank, TypeInv, PageOK
  <2>3. c \notin Awaited(page.no) \/ page'.open = FALSE
    BY <1>9 DEF Sent, NotSent, Uploaded, Discarded, GivenUp, Awaited, Creation, Writing, Blank
  <2> QED BY <1>1, <1>2, <2>1, <2>2, <2>3, EarnedAnswered
<1> QED BY <1>5, <1>6, <1>7, <1>8, <1>9 DEF Answer

LEMMA WorkerEarned ==
  ASSUME TypeInv, TypeInv', EarnedInv, (\E d \in Draft : Take(d)) \/ Mail
  PROVE  EarnedInv'
<1>1. UNCHANGED <<page, calls, edits, excess>>
  BY DEF Take, Mail, history
<1>2. SameMakers
  <2>1. CASE \E d \in Draft : Take(d)
    BY <2>1, SameDrafts DEF Take
  <2>2. CASE Mail
    <3>1. hand # Nobody
      BY <2>2 DEF Mail
    <3>2. hand.id \in Draft
      BY <3>1 DEF TypeInv, HandOK, Ids
    <3>3. \E r \in RowSet :
            drafts' = [drafts EXCEPT ![hand.id] = r] /\ r.by = drafts[hand.id].by
      BY <2>2, <3>2, Restated DEF Mail
    <3> QED BY <1>1, <3>2, <3>3, OtherMakers
  <2> QED BY <2>1, <2>2
<1>3. SameNeed /\ NoCreation
  BY <1>1 DEF SameNeed, NoCreation, Awaited
<1> QED BY <1>1, <1>2, <1>3, EarnedQuiet

LEMMA EarnedInit == Init => EarnedInv
<1> SUFFICES ASSUME Init, NEW n \in 1..MaxPages
             PROVE  Cardinality(Made(n)) + Cardinality(Due(n)) + Yet(n) <= 1 + excess[n]
  BY DEF EarnedInv
<1>1. /\ calls = {} /\ page = Blank(0, None) /\ excess[n] = 0
      /\ drafts = [d \in 1..Existing |->
                     [state |-> "draft", body |-> d, cc |-> {}, atts |-> {}, by |-> 0]]
  BY DEF Init
<1>2. Made(n) = {}
  <2>1. drafts \in Seq(RowSet)
    BY InitTypes DEF TypeInv, RowsOK
  <2>2. DOMAIN drafts = Draft
    BY <2>1, LenProperties DEF Draft
  <2>3. \A d \in Draft : drafts[d].by = 0
    BY <1>1, <2>2
  <2> QED BY <2>3 DEF Made
<1>3. Due(n) = {} /\ Yet(n) = 0
  BY <1>1 DEF Due, Yet, Fresh, Blank
<1> QED BY <1>1, <1>2, <1>3, FS_EmptySet

LEMMA EarnedStep == TypeInv /\ EarnedInv /\ [Next]_vars => EarnedInv'
<1> SUFFICES ASSUME TypeInv, EarnedInv, [Next]_vars PROVE EarnedInv'
  OBVIOUS
<1>1. TypeInv'
  BY TypeStep
<1>2. CASE \E d \in Ids : Open(d)
  BY <1>1, <1>2, OpenEarned
<1>3. CASE \/ (\E d \in Draft : Jump(d)) \/ Edit \/ (\E a \in Addr : EditCc(a))
           \/ Persist \/ HandleSend
           \/ \E f \in File : HandleFiles(f) \/ \E d \in Draft : RemoveAttachment(d, f)
           \/ HandleDiscard \/ Leave
  BY <1>1, <1>3, PageEarned
<1>4. CASE \E c \in calls : Serve(c) \/ Fail(c) \/ Lose(c) \/ Answer(c)
  BY <1>1, <1>4, ServeEarned, BrokenEarned, AnswerEarned
<1>5. CASE (\E d \in Draft : Take(d)) \/ Mail
  BY <1>1, <1>5, WorkerEarned
<1>6. CASE UNCHANGED vars
  <2>1. UNCHANGED <<drafts, page, calls, excess>>
    BY <1>6 DEF vars, serverVars, history
  <2>2. SameNeed /\ NoCreation
    BY <2>1 DEF SameNeed, NoCreation, Awaited
  <2> QED BY <1>1, <2>1, <2>2, SameDrafts, EarnedQuiet
<1> QED BY <1>2, <1>3, <1>4, <1>5, <1>6 DEF Next, Ids

(* One compose page makes one draft, and another one only for a creation   *)
(* that overlapped another or whose answer was lost: however the saves,    *)
(* the send button and the attachments interleave.                         *)
THEOREM OneDraftAPage == Spec => []DraftsEarned
<1>1. Init => TypeInv /\ EarnedInv
  BY InitTypes, EarnedInit
<1>2. (TypeInv /\ EarnedInv) /\ [Next]_vars => (TypeInv /\ EarnedInv)'
  BY TypeStep, EarnedStep
<1>3. TypeInv /\ EarnedInv => DraftsEarned
  <2> SUFFICES ASSUME TypeInv, EarnedInv, NEW n \in 1..page.no
               PROVE  Cardinality({d \in Draft : drafts[d].by = n}) <= 1 + excess[n]
    BY DEF DraftsEarned
  <2>1. n \in 1..MaxPages
    BY Numbers, ComposeAssumption
  <2>2. Cardinality(Made(n)) + Cardinality(Due(n)) + Yet(n) <= 1 + excess[n]
    BY <2>1 DEF EarnedInv
  <2>3. Cardinality(Made(n)) <= 1 + excess[n]
    BY <2>1, <2>2, Finite
  <2> QED BY <2>3 DEF Made
<1> QED BY <1>1, <1>2, <1>3, PTL DEF Spec

-----------------------------------------------------------------------------
(* A page at rest is saved                                                 *)

(* What may still write the page's draft, or make one for it.              *)
Writers == Writes(page.id) \cup Creates(page.no)
Matches(d) ==
  Stored(d) => drafts[d].body = page.body /\ (drafts[d].cc = page.cc \/ page.cc = {})

(* While nothing is typed, there is at most one such request: it carries   *)
(* what the page shows, and has brought it to its draft once it is served. *)
Rest == page.open /\ page.body # 0 /\ ~page.armed /\ ~shaky
RestInv ==
  Rest =>
    /\ Writers = {} => page.id # None /\ Matches(page.id)
    /\ \A v, w \in Writers : v = w
    /\ \A w \in Writers :
         /\ w.st = "asked" => w.what = Shown
         /\ w.st = "ok" => Matches(IF Creation(w) THEN w.of ELSE page.id)

(* Nobody knows of a draft before the answer with its id arrived.          *)
FreshInv ==
  \A w \in calls : Creation(w) /\ w.st = "ok" =>
    /\ \A v \in calls : /\ Creation(v) /\ v.st = "ok" /\ v.of = w.of => v = w
                        /\ w.page = page.no /\ v.op \in Writing => v.id # w.of
    /\ w.page = page.no => page.id # w.of

LEMMA FreshKept ==
  ASSUME TypeInv, FreshInv,
         \A e \in calls' : Creation(e) /\ e.st = "ok" => e \in calls,
         \A e \in calls' : e.op \in Writing /\ e.id # None =>
           e.id = page.id \/ \E v \in calls : v.op \in Writing /\ v.id = e.id,
         \/ page'.no = page.no /\ page'.id \in {page.id, None}
         \/ \A e \in calls : e.page # page'.no
  PROVE  FreshInv'
<1> SUFFICES ASSUME NEW w \in calls', Creation(w), w.st = "ok"
             PROVE  /\ \A v \in calls' :
                         /\ Creation(v) /\ v.st = "ok" /\ v.of = w.of => v = w
                         /\ w.page = page'.no /\ v.op \in Writing => v.id # w.of
                    /\ w.page = page'.no => page'.id # w.of
  BY DEF FreshInv, Creation
<1>1. w \in calls
  OBVIOUS
<1>2. w.of \in Draft /\ w.of # None
  BY <1>1, Brought, Numbers DEF Creation
<1>3. \A v \in calls' : Creation(v) /\ v.st = "ok" /\ v.of = w.of => v = w
  BY <1>1 DEF FreshInv
<1>4. ASSUME w.page = page'.no
      PROVE  page'.no = page.no /\ page'.id \in {page.id, None} /\ page.id # w.of
  BY <1>1, <1>4 DEF FreshInv
<1>5. ASSUME NEW v \in calls', w.page = page'.no, v.op \in Writing
      PROVE  v.id # w.of
  BY <1>1, <1>2, <1>4, <1>5 DEF FreshInv
<1> QED BY <1>2, <1>3, <1>4, <1>5

(* The content of a draft stays.                                           *)
SameRow(d) ==
  Stored(d)' =>
    Stored(d) /\ drafts'[d].body = drafts[d].body /\ drafts'[d].cc = drafts[d].cc

LEMMA RestKept ==
  ASSUME TypeInv, RestInv,
         Rest' => /\ Rest /\ page'.body = page.body /\ page'.cc = page.cc
                  /\ page'.id = page.id /\ Writers' = Writers,
         \A d \in Draft :
           d = page.id \/ (\E w \in Creates(page.no) : w.st = "ok" /\ w.of = d) => SameRow(d)
  PROVE  RestInv'
<1> SUFFICES ASSUME Rest'
             PROVE  /\ Writers = {} => page'.id # None /\ Matches(page.id)'
                    /\ \A v, w \in Writers : v = w
                    /\ \A w \in Writers :
                         /\ w.st = "asked" => w.what = Shown'
                         /\ w.st = "ok" => IF Creation(w) THEN Matches(w.of)'
                                                         ELSE Matches(page.id)'
  BY DEF RestInv, Creation
<1>1. /\ Rest /\ page'.body = page.body /\ page'.cc = page.cc
      /\ page'.id = page.id /\ Shown' = Shown
  BY DEF Shown, Content
<1>2. ASSUME NEW d \in Draft, SameRow(d), Matches(d) PROVE Matches(d)'
  BY <1>1, <1>2 DEF Matches, SameRow
<1>3. page.id # None /\ Matches(page.id) => Matches(page.id)'
  <2>1. page.id # None => page.id \in Draft
    BY Contents DEF Ids
  <2>2. page.id # None /\ Matches(page.id) => SameRow(page.id)
    BY <2>1
  <2> QED BY <1>1, <2>2 DEF Matches, SameRow, Stored, Draft
<1>4. Writers = {} => page'.id # None /\ Matches(page.id)'
  BY <1>1, <1>3 DEF RestInv
<1>5. ASSUME NEW w \in Writers, w.st = "ok", Creation(w)
      PROVE  Matches(w.of)'
  <2>1. w \in Creates(page.no) /\ w \in calls
    BY <1>5 DEF Writers, Writes, Creates, Creation
  <2>2. w.of \in Draft
    BY <1>5, <2>1, Brought DEF Creation
  <2>3. Matches(w.of)
    BY <1>1, <1>5 DEF RestInv
  <2> QED BY <1>2, <1>5, <2>1, <2>2, <2>3
<1>6. ASSUME NEW w \in Writers, w.st = "ok", ~Creation(w)
      PROVE  Matches(page.id)'
  <2>1. page.id # None
    BY <1>6 DEF Writers, Writes, Creates, Creation
  <2>2. Matches(page.id)
    BY <1>1, <1>6 DEF RestInv
  <2> QED BY <1>3, <2>1, <2>2
<1> QED BY <1>1, <1>4, <1>5, <1>6 DEF RestInv

LEMMA SameRows ==
  ASSUME drafts' = drafts
  PROVE  \A d : SameRow(d)
BY DEF SameRow, Stored, Draft

(* One row changes, and its content stays.                                 *)
LEMMA OtherRows ==
  ASSUME TypeInv, NEW d \in Draft, NEW r \in RowSet, drafts' = [drafts EXCEPT ![d] = r],
         page'.no = page.no, edits' = edits
  PROVE  /\ \A e \in Draft \ {d} : SameRow(e)
         /\ r.body = drafts[d].body /\ r.cc = drafts[d].cc
              /\ (r.state # "gone" => drafts[d].state # "gone") => SameRow(d)
<1>1. Draft' = Draft /\ \A e \in Draft : drafts'[e] = IF e = d THEN r ELSE drafts[e]
  BY Amended
<1> QED BY <1>1 DEF SameRow, Stored

(* A step of the page that writes nothing.                                 *)
LEMMA QuietAsked ==
  ASSUME TypeInv, RestInv, FreshInv, drafts' = drafts, page'.no = page.no,
         page'.id \in {page.id, None},
         Rest' => Rest /\ page'.body = page.body /\ page'.cc = page.cc /\ page'.id = page.id,
         calls' = calls \/ \E e : calls' = calls \cup {e} /\ e.op \notin Writing
  PROVE  RestInv' /\ FreshInv'
<1>1. page'.id = page.id => Writers' = Writers
  BY DEF Writers, Writes, Creates
<1>2. RestInv'
  BY <1>1, RestKept, SameRows
<1>3. FreshInv'
  BY FreshKept DEF Creation
<1> QED BY <1>2, <1>3

(* The page saves what it shows, and nothing else is under way.            *)
LEMMA QuietWritten ==
  ASSUME TypeInv, FreshInv, drafts' = drafts, NEW op \in Writing, NEW files, Write(op, files),
         page'.no = page.no, page'.id = page.id, page'.body = page.body, page'.cc = page.cc
  PROVE  RestInv' /\ FreshInv'
<1>1. PICK c : c = Call(op, page.id, Shown, files)
  OBVIOUS
<1>2. /\ c.op = op /\ c.id = page.id /\ c.page = page.no /\ c.st = "asked"
      /\ c.what = Shown /\ Shown' = Shown
  BY <1>1 DEF Call, Shown, Content
<1>3. calls' = calls \cup {c} /\ shaky' = (Writers # {})
  BY <1>1 DEF Write, Ask, Writers
<1>4. FreshInv'
  BY <1>2, <1>3, FreshKept
<1>5. Rest' => Writers' = {c}
  BY <1>2, <1>3 DEF Rest, Writers, Writes, Creates
<1>6. RestInv'
  BY <1>2, <1>5 DEF RestInv
<1> QED BY <1>4, <1>6

LEMMA OpenQuiet ==
  ASSUME TypeInv, FreshInv, NEW d \in Ids, Open(d)
  PROVE  RestInv' /\ FreshInv'
<1>1. page'.armed = TRUE /\ page'.no = page.no + 1
  BY DEF Open, Blank
<1>2. RestInv'
  BY <1>1 DEF RestInv, Rest
<1>3. \A e \in calls' : e \in calls \/ e.op \notin Writing
  BY DEF Open, Ask, Call, Writing
<1>4. \A e \in calls : e.page # page'.no
  BY <1>1, KindOf, Numbers
<1>5. FreshInv'
  BY <1>3, <1>4, FreshKept DEF Creation
<1> QED BY <1>2, <1>5

LEMMA PageQuiet ==
  ASSUME TypeInv, RestInv, FreshInv,
         \/ (\E d \in Draft : Jump(d)) \/ Edit \/ (\E a \in Addr : EditCc(a))
         \/ Persist \/ HandleSend
         \/ \E f \in File : HandleFiles(f) \/ \E d \in Draft : RemoveAttachment(d, f)
         \/ HandleDiscard \/ Leave
  PROVE  RestInv' /\ FreshInv'
<1>1. ASSUME NEW op \in Op \ Writing, NEW id, NEW what, NEW files
      PROVE  Call(op, id, what, files).op \notin Writing
  BY <1>1 DEF Call
<1>2. /\ "load" \in Op \ Writing /\ "upload" \in Op \ Writing
      /\ "remove" \in Op \ Writing /\ "discard" \in Op \ Writing
      /\ "save" \in Writing /\ "submit" \in Writing /\ "start" \in Writing
  BY DEF Op, Writing
<1>3. CASE \E d \in Draft : Jump(d)
  <2>1. PICK d \in Draft : Jump(d)
    BY <1>3
  <2>2. /\ calls' = calls \cup {Call("load", d, Empty, {})}
        /\ drafts' = drafts /\ page' = page /\ shaky' = shaky
    BY <2>1 DEF Jump, Ask, serverVars, history
  <2> QED BY <1>1, <1>2, <2>2, QuietAsked DEF Rest
<1>4. CASE Edit \/ \E a \in Addr : EditCc(a)
  <2>1. UNCHANGED <<drafts, calls>>
    BY <1>4 DEF Edit, EditCc, serverVars
  <2>2. page'.id = page.id /\ page'.no = page.no /\ page'.armed = TRUE
    BY <1>4 DEF Edit, EditCc, TypeInv, PageOK
  <2> QED BY <2>1, <2>2, QuietAsked DEF Rest
<1>5. CASE Persist \/ HandleSend
  <2>1. /\ drafts' = drafts
        /\ \/ calls' = calls /\ page.body = 0
           \/ \E op \in Writing : \E files : Write(op, files)
    BY <1>2, <1>5 DEF Persist, HandleSend, serverVars
  <2>2. /\ page'.id = page.id /\ page'.no = page.no
        /\ page'.body = page.body /\ page'.cc = page.cc
    BY <1>5 DEF Persist, HandleSend, TypeInv, PageOK
  <2>3. CASE calls' = calls /\ page.body = 0
    BY <2>1, <2>2, <2>3, QuietAsked DEF Rest
  <2>4. CASE \E op \in Writing : \E files : Write(op, files)
    BY <2>1, <2>2, <2>4, QuietWritten
  <2> QED BY <2>1, <2>3, <2>4
<1>6. CASE \E f \in File : HandleFiles(f)
  <2>1. PICK f \in File : HandleFiles(f)
    BY <1>6
  <2>2. /\ drafts' = drafts /\ page' = page
        /\ \/ Write("start", {f})
           \/ shaky' = shaky /\ calls' = calls \cup {Call("upload", page.id, Empty, {f})}
    BY <2>1 DEF HandleFiles, Ask, serverVars
  <2> QED BY <1>1, <1>2, <2>2, QuietAsked, QuietWritten DEF Rest
<1>7. CASE \E f \in File, d \in Draft : RemoveAttachment(d, f)
  <2>1. PICK f \in File, d \in Draft : RemoveAttachment(d, f)
    BY <1>7
  <2>2. PICK e : e = [Call("remove", page.id, Empty, {f}) EXCEPT !.of = d]
    OBVIOUS
  <2>3. /\ calls' = calls \cup {e} /\ drafts' = drafts /\ page' = page /\ shaky' = shaky
    BY <2>1, <2>2 DEF RemoveAttachment, Ask, serverVars, history
  <2>4. e.op \notin Writing
    BY <2>2 DEF Call, Writing
  <2> QED BY <2>3, <2>4, QuietAsked DEF Rest
<1>8. CASE HandleDiscard
  <2>1. /\ calls' = calls \cup {Call("discard", page.id, Empty, {})}
        /\ drafts' = drafts /\ page' = page /\ shaky' = shaky
    BY <1>8 DEF HandleDiscard, Ask, serverVars, history
  <2> QED BY <1>1, <1>2, <2>1, QuietAsked DEF Rest
<1>9. CASE Leave
  <2>1. /\ UNCHANGED <<drafts, calls>> /\ page'.open = FALSE
        /\ page'.no = page.no /\ page'.id = None
    BY <1>9 DEF Leave, Blank, serverVars
  <2> QED BY <2>1, QuietAsked DEF Rest
<1> QED BY <1>3, <1>4, <1>5, <1>6, <1>7, <1>8, <1>9

(* A request ends or changes that is none of the page's writers, and none  *)
(* takes its place.                                                        *)
LEMMA QuietAnswered ==
  ASSUME TypeInv, RestInv, FreshInv, NEW c \in calls,
         \/ calls' = calls \ {c}
         \/ \E e : /\ calls' = (calls \ {c}) \cup {e}
                   /\ \/ e.op \notin Writing
                      \/ /\ e.op = c.op /\ e.id = c.id /\ e.page = c.page
                         /\ ~Creation(e) \/ e.st = "failed",
         page'.no = page.no, page'.id \in {page.id, None},
         Rest' => /\ Rest /\ page'.body = page.body /\ page'.cc = page.cc
                  /\ page'.id = page.id /\ c \notin Writers,
         \A d \in Draft :
           d = page.id \/ (\E w \in Creates(page.no) : w.st = "ok" /\ w.of = d) => SameRow(d)
  PROVE  RestInv' /\ FreshInv'
<1>1. page'.id = page.id /\ c \notin Writers => Writers' = Writers
  BY DEF Writers, Writes, Creates
<1>2. RestInv'
  BY <1>1, RestKept
<1>3. FreshInv'
  <2>1. \A e \in calls' : Creation(e) /\ e.st = "ok" => e \in calls
    BY DEF Creation
  <2>2. \A e \in calls' : e.op \in Writing /\ e.id # None =>
          e.id = page.id \/ \E v \in calls : v.op \in Writing /\ v.id = e.id
    OBVIOUS
  <2> QED BY <2>1, <2>2, FreshKept
<1> QED BY <1>2, <1>3

(* The page's only writer is served, or fails.                             *)
LEMMA QuietReplaced ==
  ASSUME RestInv, NEW c \in Writers, NEW e, calls' = (calls \ {c}) \cup {e}, UNCHANGED <<page, shaky>>,
         e.op = c.op, e.id = c.id, e.page = c.page, e.st # "asked",
         e.st = "ok" /\ Rest => IF Creation(e) THEN Matches(e.of)' ELSE Matches(page.id)'
  PROVE  RestInv'
<1>1. Rest' = Rest
  BY DEF Rest
<1>2. Rest => Writers' = {e}
  <2>1. Rest => Writers = {c}
    BY DEF RestInv
  <2>2. Writers' = (Writers \ {c}) \cup {e}
    BY DEF Writers, Writes, Creates
  <2> QED BY <2>1, <2>2
<1> QED BY <1>1, <1>2 DEF RestInv, Creation

LEMMA CreateDraftQuiet ==
  ASSUME TypeInv, RestInv, FreshInv, NEW c \in calls, Creation(c), c.st = "asked",
         CreateDraft(c), UNCHANGED <<page, shaky>>
  PROVE  RestInv' /\ FreshInv'
<1>1. PICK d : d = [[c EXCEPT !.of = Len(drafts) + 1] EXCEPT !.st = "ok"]
  OBVIOUS
<1>2. PICK k : k = Len(drafts) + 1
  OBVIOUS
<1>3. calls' = (calls \ {c}) \cup {d}
  BY <1>1 DEF CreateDraft, Reply, Replace
<1>4. d.op = c.op /\ d.id = c.id /\ d.page = c.page /\ d.st = "ok" /\ d.of = k
  BY <1>1, <1>2, KindOf DEF CallSet
<1>5. /\ Draft' = Draft \cup {k} /\ k \notin Ids /\ k \notin Draft /\ None \notin Draft
      /\ \A e \in Draft : drafts'[e] = drafts[e]
      /\ drafts'[k].body = c.what.body /\ drafts'[k].cc = c.what.cc
  BY <1>2, Appended, Numbers DEF Ids, None
<1>6. FreshInv'
  <2> SUFFICES ASSUME NEW w \in calls', Creation(w), w.st = "ok"
               PROVE  /\ \A v \in calls' :
                           /\ Creation(v) /\ v.st = "ok" /\ v.of = w.of => v = w
                           /\ w.page = page.no /\ v.op \in Writing => v.id # w.of
                      /\ w.page = page.no => page.id # w.of
    BY DEF FreshInv, Creation
  <2>1. /\ \A v \in calls : v.id \in Ids /\ v.of \in Ids
        /\ d.id \in Ids /\ page.id \in Ids /\ d.id = None
    BY <1>4, KindOf, Contents DEF Creation
  <2>2. CASE w = d
    BY <1>3, <1>4, <1>5, <2>1, <2>2
  <2>3. CASE w # d
    <3>1. w \in calls /\ w.of \in Draft
      BY <1>3, <2>3, Brought DEF Creation
    <3> QED BY <1>3, <1>4, <1>5, <2>1, <2>3, <3>1 DEF FreshInv
  <2> QED BY <2>2, <2>3
<1>7. RestInv'
  <2>1. CASE c \in Writers
    <3>1. Rest => c.what = Shown
      BY <2>1 DEF RestInv
    <3>2. Rest => Matches(k)'
      BY <1>5, <3>1 DEF Matches, Shown, Content
    <3> QED BY <1>3, <1>4, <2>1, <3>2, QuietReplaced DEF Creation
  <2>2. CASE c \notin Writers
    <3>1. c.page # page.no
      BY <2>2 DEF Creation, Writers, Creates
    <3>2. Writers' = Writers
      BY <1>3, <1>4, <2>2, <3>1 DEF Creation, Writers, Writes, Creates
    <3>3. \A e \in Draft : SameRow(e)
      BY <1>5 DEF SameRow, Stored
    <3> QED BY <3>2, <3>3, RestKept DEF Rest
  <2> QED BY <2>1, <2>2
<1> QED BY <1>6, <1>7

LEMMA UpdateDraftQuiet ==
  ASSUME TypeInv, RestInv, FreshInv, NEW c \in calls, c.op \in Writing, c.id # None,
         c.st = "asked", UpdateDraft(c), UNCHANGED <<page, shaky, edits>>
  PROVE  RestInv' /\ FreshInv'
<1>1. /\ c.id \in Draft
      /\ \A d \in Draft : d # c.id => SameRow(d)
      /\ Stored(c.id) => drafts'[c.id].body = c.what.body
                         /\ (drafts'[c.id].cc = c.what.cc \/ c.what.cc = {})
      /\ ~Stored(c.id) => drafts' = drafts
  <2>1. c.id \in Draft
    BY KindOf
  <2>2. CASE Stored(c.id)
    <3>1. PICK r \in RowSet :
            /\ drafts' = [drafts EXCEPT ![c.id] = r] /\ r.body = c.what.body
            /\ r.cc = IF c.what.cc = {} THEN drafts[c.id].cc ELSE c.what.cc
      BY <2>2, UpdateRow
    <3>2. drafts'[c.id] = r
      <4>1. page'.no = page.no /\ edits' = edits
        OBVIOUS
      <4> QED BY <2>1, <3>1, <4>1, Amended
    <3>3. \A d \in Draft \ {c.id} : SameRow(d)
      BY <2>1, <3>1, OtherRows
    <3> QED BY <2>1, <2>2, <3>1, <3>2, <3>3
  <2>3. CASE ~Stored(c.id)
    BY <2>1, <2>3, SameRows DEF UpdateDraft
  <2> QED BY <2>2, <2>3
<1>2. PICK e : /\ calls' = (calls \ {c}) \cup {e}
               /\ e.op = c.op /\ e.id = c.id /\ e.page = c.page /\ e.st # "asked"
               /\ e.st = "ok" => Stored(c.id)
  <2>1. c \in CallSet
    BY KindOf
  <2>2. CASE Stored(c.id)
    <3>1. PICK e : e = [[c EXCEPT !.what = Empty, !.files = {}] EXCEPT !.st = "ok"]
      OBVIOUS
    <3>2. e.op = c.op /\ e.id = c.id /\ e.page = c.page /\ e.st = "ok"
      BY <2>1, <3>1 DEF CallSet
    <3> QED BY <2>2, <3>1, <3>2 DEF UpdateDraft, Reply, Replace
  <2>3. CASE ~Stored(c.id)
    <3>1. PICK e : e = [c EXCEPT !.st = "failed", !.what = Empty, !.files = {}]
      OBVIOUS
    <3>2. e.op = c.op /\ e.id = c.id /\ e.page = c.page /\ e.st = "failed"
      BY <2>1, <3>1 DEF CallSet
    <3> QED BY <2>3, <3>1, <3>2 DEF UpdateDraft, Refuse, Replace
  <2> QED BY <2>2, <2>3
<1>3. CASE c \in Writers
  <2>1. c.id = page.id
    BY <1>3 DEF Writers, Writes, Creates
  <2>2. Rest => c.what = Shown
    BY <1>3 DEF RestInv
  <2>3. e.st = "ok" /\ Rest => Matches(page.id)'
    BY <1>1, <1>2, <2>1, <2>2 DEF Matches, Shown, Content
  <2>4. RestInv'
    BY <1>2, <1>3, <2>3, QuietReplaced DEF Creation
  <2>5. FreshInv'
    BY <1>2, FreshKept DEF Creation
  <2> QED BY <2>4, <2>5
<1>4. CASE c \notin Writers
  <2>1. c.id # page.id
    BY <1>4 DEF Writers, Writes
  <2>2. ASSUME NEW w \in Creates(page.no), w.st = "ok" PROVE w.of # c.id
    BY <2>2 DEF FreshInv, Creates, Creation
  <2>3. \A d \in Draft :
          d = page.id \/ (\E w \in Creates(page.no) : w.st = "ok" /\ w.of = d) => SameRow(d)
    BY <1>1, <2>1, <2>2
  <2> QED BY <1>2, <1>4, <2>3, QuietAnswered DEF Rest, Creation
<1> QED BY <1>3, <1>4

LEMMA ServeQuiet ==
  ASSUME TypeInv, RestInv, FreshInv, NEW c \in calls, Serve(c)
  PROVE  RestInv' /\ FreshInv'
<1>1. /\ c.st = "asked" /\ Handle(c) /\ c.op \in Op
      /\ UNCHANGED <<page, edits, shaky>>
  BY KindOf DEF Serve
<1>2. CASE c.op \in Writing /\ c.id = None
  <2>1. CreateDraft(c)
    BY <1>1, <1>2 DEF Handle, Writing
  <2> QED BY <1>1, <1>2, <2>1, CreateDraftQuiet DEF Creation
<1>3. CASE c.op \in Writing /\ c.id # None
  <2>1. UpdateDraft(c)
    BY <1>1, <1>3 DEF Handle, Writing
  <2> QED BY <1>1, <1>3, <2>1, UpdateDraftQuiet
<1>4. CASE c.op \notin Writing
  <2>1. \/ c.op = "load" /\ GetMessage(c)
        \/ c.op = "send" /\ SendDraft(c)
        \/ c.op \in {"upload", "remove", "discard"} /\ Handle(c)
    BY <1>1, <1>4 DEF Handle, Writing, Op
  <2>2. \/ calls' = calls \ {c}
        \/ \E e : calls' = (calls \ {c}) \cup {e} /\ e.op \notin Writing
    BY <1>4, <2>1, Succession
  <2>3. c \notin Writers
    BY <1>4 DEF Writers, Writes, Creates
  <2>4. \A d \in Draft : SameRow(d)
    <3>1. CASE drafts' = drafts
      BY <3>1, SameRows
    <3>2. CASE c.op \in {"upload", "remove", "discard"}
      <4>1. PICK r \in RowSet :
              /\ drafts' = [drafts EXCEPT ![c.id] = r]
              /\ r.body = drafts[c.id].body /\ r.cc = drafts[c.id].cc
              /\ (r.state # "gone" => drafts[c.id].state # "gone")
        BY <1>1, <3>2, Changed
      <4>2. c.id \in Draft
        BY <1>4, KindOf
      <4> QED BY <1>1, <4>1, <4>2, OtherRows
    <3> QED BY <2>1, <3>1, <3>2 DEF GetMessage, SendDraft
  <2> QED BY <1>1, <2>2, <2>3, <2>4, QuietAnswered DEF Rest
<1> QED BY <1>2, <1>3, <1>4

LEMMA BrokenQuiet ==
  ASSUME TypeInv, RestInv, FreshInv, NEW c \in calls, Fail(c) \/ Lose(c)
  PROVE  RestInv' /\ FreshInv'
<1>1. PICK d : d = [c EXCEPT !.st = "failed", !.what = Empty, !.files = {}]
  OBVIOUS
<1>2. d.op = c.op /\ d.id = c.id /\ d.page = c.page /\ d.st = "failed"
  BY <1>1, KindOf DEF CallSet
<1>3. /\ drafts' = drafts /\ page' = page /\ shaky' = shaky
      /\ \/ calls' = (calls \ {c}) \cup {d}
         \/ calls' = calls \ {c} /\ c.op = "remove"
  BY <1>1 DEF Fail, Lose, Refuse, Replace, serverVars, history
<1>4. CASE c \in Writers
  <2>1. calls' = (calls \ {c}) \cup {d}
    BY <1>3, <1>4 DEF Writers, Writes, Creates, Writing
  <2>2. RestInv'
    BY <1>2, <1>3, <1>4, <2>1, QuietReplaced
  <2>3. FreshInv'
    BY <1>2, <1>3, <2>1, FreshKept
  <2> QED BY <2>2, <2>3
<1>5. CASE c \notin Writers
  BY <1>2, <1>3, <1>5, SameRows, QuietAnswered DEF Rest
<1> QED BY <1>4, <1>5

(* The page learns of the draft it made: it saves anew, unless it knew.    *)
LEMMA AdoptQuiet ==
  ASSUME TypeInv, RestInv, FreshInv, NEW c \in calls, Creation(c), c.st = "ok", NEW cs,
         Adopt(c, c.of, cs), \A e \in cs : e.op \notin Writing,
         drafts' = drafts, shaky' = shaky
  PROVE  RestInv' /\ FreshInv'
<1>1. /\ calls' = (calls \ {c}) \cup cs /\ page'.no = page.no
      /\ page' = page \/ (page'.id = c.of /\ page'.armed = TRUE)
      /\ Mine(c) => page'.id = c.of
  BY DEF Adopt, Then, TypeInv, PageOK
<1>2. FreshInv'
  <2> SUFFICES ASSUME NEW w \in calls', Creation(w), w.st = "ok"
               PROVE  /\ \A v \in calls' :
                           /\ Creation(v) /\ v.st = "ok" /\ v.of = w.of => v = w
                           /\ w.page = page.no /\ v.op \in Writing => v.id # w.of
                      /\ w.page = page.no => page'.id # w.of
    BY <1>1 DEF FreshInv, Creation
  <2>1. w \in calls /\ w # c /\ w.of # c.of
    BY <1>1 DEF FreshInv, Creation
  <2>2. \A v \in calls' : v.op \in Writing => v \in calls
    BY <1>1
  <2>3. w.page = page.no => page.id # w.of
    BY <2>1 DEF FreshInv
  <2>4. w.page = page.no => page'.id # w.of
    BY <1>1, <2>1, <2>3
  <2> QED BY <2>1, <2>2, <2>4 DEF FreshInv, Creation
<1>3. RestInv'
  <2>1. CASE Mine(c)
    <3>1. page.id # c.of
      BY <2>1 DEF FreshInv, Mine
    <3>2. page'.armed = TRUE
      BY <1>1, <2>1, <3>1
    <3> QED BY <3>2 DEF RestInv, Rest
  <2>2. CASE ~Mine(c)
    <3>1. page' = page
      BY <2>2 DEF Adopt
    <3>2. CASE page.open
      <4>1. c.page # page.no
        BY <2>2, <3>2 DEF Mine
      <4>2. Writers' = Writers
        BY <1>1, <3>1, <4>1 DEF Creation, Writers, Writes, Creates
      <4> QED BY <3>1, <4>2, RestKept, SameRows DEF Rest
    <3>3. CASE ~page.open
      BY <3>1, <3>3 DEF RestInv, Rest
    <3> QED BY <3>2, <3>3
  <2> QED BY <2>1, <2>2
<1> QED BY <1>2, <1>3

(* An update is answered: the draft holds what it brought.                 *)
LEMMA ToldQuiet ==
  ASSUME TypeInv, RestInv, FreshInv, NEW c \in calls, c.op \in Writing, c.id # None,
         c.st = "ok", NEW cs, Then(c, cs), \A e \in cs : e.op \notin Writing,
         UNCHANGED <<drafts, page, shaky>>
  PROVE  RestInv' /\ FreshInv'
<1>1. calls' = (calls \ {c}) \cup cs
  BY DEF Then
<1>2. FreshInv'
  BY <1>1, FreshKept DEF Creation
<1>3. CASE c \in Writers
  <2>1. Rest => Writers = {c} /\ Matches(page.id) /\ page.id # None
    BY <1>3 DEF RestInv, Creation, Writers, Writes, Creates
  <2>2. Writers' = Writers \ {c}
    BY <1>1 DEF Writers, Writes, Creates
  <2>3. Rest' = Rest /\ (Matches(page.id)' <=> Matches(page.id))
    BY DEF Rest, Matches, Stored, Draft
  <2>4. Rest' => page'.id # None /\ Matches(page.id)' /\ Writers' = {}
    BY <2>1, <2>2, <2>3
  <2>5. RestInv'
    BY <2>4 DEF RestInv
  <2> QED BY <1>2, <2>5
<1>4. CASE c \notin Writers
  <2>1. Writers' = Writers
    BY <1>1, <1>4 DEF Writers, Writes, Creates
  <2>2. RestInv'
    BY <2>1, RestKept, SameRows DEF Rest
  <2> QED BY <1>2, <2>2
<1> QED BY <1>3, <1>4

LEMMA AnswerQuiet ==
  ASSUME TypeInv, RestInv, FreshInv, NEW c \in calls, Answer(c)
  PROVE  RestInv' /\ FreshInv'
<1>1. drafts' = drafts
  BY DEF Answer, serverVars
<1>2. \A d : SameRow(d)
  BY <1>1, SameRows
<1>3. CASE Loaded(c)
  <2>1. calls' = calls \ {c} /\ c.op = "load" /\ shaky' = shaky
    BY <1>3 DEF Loaded, Then
  <2>2. /\ page'.open = page.open /\ page'.id = page.id /\ page'.no = page.no
        /\ ~page'.armed => page'.body = page.body /\ page'.cc = page.cc /\ ~page.armed
    <3>1. CASE Mine(c)
      <4>1. page' = [page EXCEPT !.body = c.what.body, !.cc = c.what.cc, !.loaded = c.id,
                                 !.armed = @ \/ c.what # Shown]
        BY <1>3, <3>1 DEF Loaded
      <4>2. /\ page'.open = page.open /\ page'.id = page.id /\ page'.no = page.no
            /\ page'.body = c.what.body /\ page'.cc = c.what.cc
            /\ page'.armed = (page.armed \/ c.what # Shown)
        BY <4>1 DEF TypeInv, PageOK
      <4>3. c.what = Shown => c.what.body = page.body /\ c.what.cc = page.cc
        BY DEF Shown, Content
      <4> QED BY <4>2, <4>3
    <3>2. CASE ~Mine(c)
      BY <1>3, <3>2 DEF Loaded
    <3> QED BY <3>1, <3>2
  <2>3. c \notin Writers
    BY <2>1 DEF Writers, Writes, Creates, Writing
  <2> QED BY <1>2, <2>1, <2>2, <2>3, QuietAnswered DEF Rest
<1>4. CASE Saved(c)
  <2>1. c.op \in Writing /\ c.st = "ok" /\ shaky' = shaky
    BY <1>4 DEF Saved, Writing
  <2>2. CASE c.id = None
    <3>1. Adopt(c, c.of, {})
      BY <1>4, <2>2 DEF Saved
    <3> QED BY <1>1, <2>1, <2>2, <3>1, AdoptQuiet DEF Creation
  <2>3. CASE c.id # None
    <3>1. Then(c, {}) /\ page' = page
      BY <1>4, <2>3 DEF Saved
    <3> QED BY <1>1, <2>1, <2>3, <3>1, ToldQuiet
  <2> QED BY <2>2, <2>3
<1>5. CASE Submitted(c)
  <2>1. c.op \in Writing /\ c.st = "ok" /\ shaky' = shaky
    BY <1>5 DEF Submitted, Writing
  <2>2. PICK d : d = IF c.id = None THEN c.of ELSE c.id
    OBVIOUS
  <2>3. PICK e : e = [Call("send", d, Empty, {}) EXCEPT !.page = c.page]
    OBVIOUS
  <2>4. e.op \notin Writing
    BY <2>3 DEF Call, Writing
  <2>5. CASE c.id = None
    <3>1. Adopt(c, c.of, {e})
      BY <1>5, <2>2, <2>3, <2>5 DEF Submitted
    <3> QED BY <1>1, <2>1, <2>4, <2>5, <3>1, AdoptQuiet DEF Creation
  <2>6. CASE c.id # None
    <3>1. Then(c, {e}) /\ page' = page
      BY <1>5, <2>2, <2>3, <2>6 DEF Submitted
    <3> QED BY <1>1, <2>1, <2>4, <2>6, <3>1, ToldQuiet
  <2> QED BY <2>5, <2>6
<1>6. CASE Started(c)
  <2>1. PICK e : e = [Call("upload", c.of, Empty, c.files) EXCEPT !.page = c.page]
    OBVIOUS
  <2>2. /\ Adopt(c, c.of, {e}) /\ c.st = "ok" /\ shaky' = shaky
        /\ c.op \in Writing /\ c.id = None
    BY <1>6, <2>1 DEF Started, TypeInv, CallsOK, CallOK, Writing
  <2>3. e.op \notin Writing
    BY <2>1 DEF Call, Writing
  <2> QED BY <1>1, <2>2, <2>3, AdoptQuiet DEF Creation
<1>7. CASE Sent(c) \/ NotSent(c) \/ Uploaded(c) \/ Discarded(c) \/ GivenUp(c)
  <2>1. calls' = calls \ {c}
    BY <1>7 DEF Sent, NotSent, Uploaded, Discarded, GivenUp, Then
  <2>2. /\ page'.no = page.no /\ page'.id \in {page.id, None}
        /\ \/ page'.open = FALSE
           \/ /\ page'.open = page.open /\ page'.id = page.id /\ page'.armed = page.armed
              /\ page'.body = page.body /\ page'.cc = page.cc
    BY <1>7, OtherAnswers DEF Blank, TypeInv, PageOK
  <2>3. ~shaky' => ~shaky
    BY <1>7 DEF Sent, NotSent, Uploaded, Discarded, GivenUp
  <2>4. c \notin Writers \/ page'.open = FALSE \/ shaky'
    BY <1>7 DEF Sent, NotSent, Uploaded, Discarded, GivenUp, Writers, Writes, Creates,
                Writing, Blank
  <2>5. Rest' => /\ Rest /\ page'.body = page.body /\ page'.cc = page.cc
                 /\ page'.id = page.id /\ c \notin Writers
    BY <2>2, <2>3, <2>4 DEF Rest
  <2> QED BY <1>2, <2>1, <2>2, <2>5, QuietAnswered
<1> QED BY <1>3, <1>4, <1>5, <1>6, <1>7 DEF Answer

LEMMA WorkerQuiet ==
  ASSUME TypeInv, RestInv, FreshInv, (\E d \in Draft : Take(d)) \/ Mail
  PROVE  RestInv' /\ FreshInv'
<1>1. UNCHANGED <<page, calls, edits, shaky>>
  BY DEF Take, Mail, history
<1>2. \A d \in Draft : SameRow(d)
  <2>1. CASE \E d \in Draft : Take(d)
    BY <2>1, SameRows DEF Take
  <2>2. CASE Mail
    <3>1. hand # Nobody
      BY <2>2 DEF Mail
    <3>2. hand.id \in Draft
      BY <3>1 DEF TypeInv, HandOK, Ids
    <3>3. PICK r \in RowSet :
            /\ drafts' = [drafts EXCEPT ![hand.id] = r]
            /\ r.body = drafts[hand.id].body /\ r.cc = drafts[hand.id].cc
            /\ (r.state # "gone" => drafts[hand.id].state # "gone")
      BY <2>2, <3>2, Restated DEF Mail
    <3>4. page'.no = page.no /\ edits' = edits
      BY <1>1
    <3> QED BY <3>2, <3>3, <3>4, OtherRows
  <2> QED BY <2>1, <2>2
<1>3. Writers' = Writers /\ Rest' = Rest
  BY <1>1 DEF Writers, Writes, Creates, Rest
<1>4. RestInv'
  BY <1>1, <1>2, <1>3, RestKept
<1>5. FreshInv'
  BY <1>1, FreshKept
<1> QED BY <1>4, <1>5

LEMMA QuietStep == TypeInv /\ RestInv /\ FreshInv /\ [Next]_vars => RestInv' /\ FreshInv'
<1> SUFFICES ASSUME TypeInv, RestInv, FreshInv, [Next]_vars PROVE RestInv' /\ FreshInv'
  OBVIOUS
<1>1. CASE \E d \in Ids : Open(d)
  BY <1>1, OpenQuiet
<1>2. CASE \/ (\E d \in Draft : Jump(d)) \/ Edit \/ (\E a \in Addr : EditCc(a))
           \/ Persist \/ HandleSend
           \/ \E f \in File : HandleFiles(f) \/ \E d \in Draft : RemoveAttachment(d, f)
           \/ HandleDiscard \/ Leave
  BY <1>2, PageQuiet
<1>3. CASE \E c \in calls : Serve(c) \/ Fail(c) \/ Lose(c) \/ Answer(c)
  BY <1>3, ServeQuiet, BrokenQuiet, AnswerQuiet
<1>4. CASE (\E d \in Draft : Take(d)) \/ Mail
  BY <1>4, WorkerQuiet
<1>5. CASE UNCHANGED vars
  <2>1. UNCHANGED <<drafts, page, calls, shaky>>
    BY <1>5 DEF vars, serverVars, history
  <2> QED BY <2>1, QuietAsked DEF Rest
<1> QED BY <1>1, <1>2, <1>3, <1>4, <1>5 DEF Next, Ids

(* When nothing was typed since the last save and no save is under way,    *)
(* the draft in the mailbox holds what the page shows, unless that save    *)
(* overlapped another one or failed: whatever was opened, loaded, adopted, *)
(* attached, sent or mailed before.                                        *)
THEOREM SavedAtRest == Spec => []QuietMeansSaved
<1>1. Init => TypeInv /\ RestInv /\ FreshInv
  <2>1. Init => RestInv /\ FreshInv
    BY DEF Init, Blank, RestInv, Rest, FreshInv
  <2> QED BY <2>1, InitTypes
<1>2. (TypeInv /\ RestInv /\ FreshInv) /\ [Next]_vars => (TypeInv /\ RestInv /\ FreshInv)'
  BY TypeStep, QuietStep
<1>3. RestInv => QuietMeansSaved
  BY DEF RestInv, Rest, Writers, Matches, QuietMeansSaved
<1> QED BY <1>1, <1>2, <1>3, PTL DEF Spec

-----------------------------------------------------------------------------
(* What goes out has the text of a click                                   *)

ClickedAs(d, b) == \E k \in clicks : k.id = d /\ k.body = b

(* A draft somebody has sent, or is about to.                              *)
Pledged(d) ==
  \/ \E k \in clicks : k.id = d
  \/ \E c \in calls : c.op = "submit" /\ c.id = None /\ c.of = d

(* A draft whose save for the sending is done.                             *)
Going(d) ==
  \/ \E c \in calls : c.op = "submit" /\ c.id = d /\ c.st = "ok"
  \/ \E c \in calls : c.op = "send" /\ c.id = d
  \/ jobs[d] > 0

SubmitsClicked ==
  \A c \in calls : c.op = "submit" /\ c.id # None /\ c.st = "asked" =>
    ClickedAs(c.id, c.what.body)
NoStraySave ==
  \A d \in Draft \ raced : Pledged(d) => \A c \in calls : c.op = "save" => c.id # d
RowsClicked ==
  \A d \in Draft \ raced : Stored(d) /\ Going(d) => ClickedAs(d, drafts[d].body)
MadeClicked ==
  \A c \in calls :
    c.op = "submit" /\ c.id = None /\ c.st = "ok" /\ c.of \notin raced /\ Stored(c.of) =>
      drafts[c.of].body = c.what.body \/ ClickedAs(c.of, drafts[c.of].body)
ReadClicked == hand # Nobody /\ hand.id \notin raced => ClickedAs(hand.id, hand.body)
OutClicked == \A m \in mails : m.id \notin raced => ClickedAs(m.id, m.body)
TextInv ==
  SubmitsClicked /\ NoStraySave /\ RowsClicked /\ MadeClicked /\ ReadClicked /\ OutClicked

(* A request that is no news: it writes nothing, continues one there was,  *)
(* or has a click or a race recorded for it.                               *)
Echo(e) ==
  \/ e.op \notin {"save", "submit", "send"}
  \/ /\ e.op = "save"
     /\ \/ e.id = None \/ e.id \in raced' \/ ~Pledged(e.id)'
        \/ \E c \in calls : c.op = "save" /\ c.id = e.id
  \/ /\ e.op = "send"
     /\ \/ \E c \in calls : c.id = e.id /\ (c.op = "send" \/ (c.op = "submit" /\ c.st = "ok"))
        \/ e.id \in raced' \/ (Stored(e.id)' => ClickedAs(e.id, drafts[e.id].body)')
  \/ /\ e.op = "submit" /\ e.st = "failed"
     /\ \E c \in calls : c.op = "submit" /\ c.id = e.id /\ c.of = e.of
  \/ /\ e.op = "submit" /\ e.st = "ok" /\ e.id # None
     /\ Stored(e.id)' => ClickedAs(e.id, drafts[e.id].body)'
  \/ /\ e.op = "submit" /\ e.st = "asked" /\ e.of = None
     /\ e.id # None => ClickedAs(e.id, e.what.body)'

(* The text of a row stays, or an automatic save or a click accounts for   *)
(* it.                                                                     *)
RowTold(d) ==
  Stored(d)' =>
    /\ Stored(d)
    /\ \/ drafts'[d].body = drafts[d].body \/ ClickedAs(d, drafts[d].body)'
       \/ \E c \in calls : c.op = "save" /\ c.id = d

LEMMA TextKept ==
  ASSUME TypeInv, TextInv, Draft' = Draft, clicks \subseteq clicks', raced \subseteq raced',
         hand' = hand \/ ReadClicked', mails' = mails \/ OutClicked',
         \A e \in calls' : e \in calls \/ Echo(e),
         \A d \in Draft : RowTold(d) /\ (jobs'[d] > 0 => Going(d)),
         \A d \in Draft \ raced' : Pledged(d)' =>
           Pledged(d) \/ \A c \in calls : c.op = "save" => c.id # d
  PROVE  TextInv'
<1>1. ASSUME NEW d, NEW b, ClickedAs(d, b) PROVE ClickedAs(d, b)'
  BY <1>1 DEF ClickedAs
<1>2. SubmitsClicked'
  <2> SUFFICES ASSUME NEW c \in calls', c.op = "submit", c.id # None, c.st = "asked"
               PROVE  ClickedAs(c.id, c.what.body)'
    BY DEF SubmitsClicked
  <2>1. CASE c \in calls
    BY <1>1, <2>1 DEF TextInv, SubmitsClicked
  <2>2. CASE Echo(c)
    BY <2>2 DEF Echo
  <2> QED BY <2>1, <2>2
<1>3. ASSUME NEW d \in Draft \ raced', Pledged(d) PROVE \A c \in calls : c.op = "save" => c.id # d
  BY <1>3 DEF TextInv, NoStraySave
<1>4. NoStraySave'
  <2> SUFFICES ASSUME NEW d \in Draft \ raced', Pledged(d)',
                      NEW c \in calls', c.op = "save", c.id = d
               PROVE  FALSE
    BY DEF NoStraySave
  <2>1. \A e \in calls : e.op = "save" => e.id # d
    BY <1>3
  <2>2. Echo(c)
    BY <2>1
  <2>3. d # None
    BY Numbers
  <2> QED BY <2>1, <2>2, <2>3 DEF Echo
<1>5. RowsClicked'
  <2> SUFFICES ASSUME NEW d \in Draft \ raced', Stored(d)', Going(d)'
               PROVE  ClickedAs(d, drafts[d].body)'
    BY DEF RowsClicked
  <2>1. Stored(d) /\ d # None
    BY Numbers DEF RowTold
  <2>2. Going(d) \/ ClickedAs(d, drafts[d].body)'
    <3>1. CASE jobs'[d] > 0
      BY <3>1
    <3>2. CASE \E c \in calls' : c.op = "submit" /\ c.id = d /\ c.st = "ok"
      <4>1. PICK c \in calls' : c.op = "submit" /\ c.id = d /\ c.st = "ok"
        BY <3>2
      <4>2. c \in calls => Going(d)
        BY <4>1 DEF Going
      <4>3. Echo(c) => ClickedAs(d, drafts[d].body)'
        BY <4>1 DEF Echo
      <4> QED BY <4>2, <4>3
    <3>3. CASE \E c \in calls' : c.op = "send" /\ c.id = d
      <4>1. PICK c \in calls' : c.op = "send" /\ c.id = d
        BY <3>3
      <4>2. c \in calls => Going(d)
        BY <4>1 DEF Going
      <4>3. Echo(c) => Going(d) \/ ClickedAs(d, drafts[d].body)'
        BY <4>1 DEF Echo, Going
      <4> QED BY <4>2, <4>3
    <3> QED BY <3>1, <3>2, <3>3 DEF Going
  <2>3. CASE Going(d)
    <3>1. ClickedAs(d, drafts[d].body)
      BY <2>1, <2>3 DEF TextInv, RowsClicked
    <3>2. Pledged(d)
      BY <3>1 DEF ClickedAs, Pledged
    <3>3. drafts'[d].body = drafts[d].body \/ ClickedAs(d, drafts[d].body)'
      BY <1>3, <3>2 DEF RowTold
    <3> QED BY <3>1, <3>3 DEF ClickedAs
  <2> QED BY <2>2, <2>3
<1>6. MadeClicked'
  <2> SUFFICES ASSUME NEW c \in calls', c.op = "submit", c.id = None, c.st = "ok",
                      c.of \notin raced', Stored(c.of)'
               PROVE  drafts'[c.of].body = c.what.body \/ ClickedAs(c.of, drafts[c.of].body)'
    BY DEF MadeClicked
  <2>1. c \in calls
    BY DEF Echo
  <2>2. c.of \in Draft /\ c.of \notin raced
    BY <2>1, Brought
  <2>3. Pledged(c.of)
    BY <2>1 DEF Pledged
  <2>4. /\ Stored(c.of)
        /\ drafts'[c.of].body = drafts[c.of].body \/ ClickedAs(c.of, drafts[c.of].body)'
    BY <1>3, <2>2, <2>3 DEF RowTold
  <2>5. drafts[c.of].body = c.what.body \/ ClickedAs(c.of, drafts[c.of].body)
    BY <2>1, <2>2, <2>4 DEF TextInv, MadeClicked
  <2> QED BY <2>4, <2>5 DEF ClickedAs
<1>7. ReadClicked'
  BY <1>1 DEF TextInv, ReadClicked
<1>8. OutClicked'
  BY <1>1 DEF TextInv, OutClicked
<1> QED BY <1>2, <1>4, <1>5, <1>6, <1>7, <1>8 DEF TextInv

LEMMA NobodyPledges ==
  ASSUME TypeInv, clicks' = clicks,
         \A e \in calls' :
           \/ e \in calls \/ e.op # "submit" \/ e.of = None
           \/ \E c \in calls : c.op = "submit" /\ c.id = e.id /\ c.of = e.of
  PROVE  \A d \in Draft : Pledged(d)' => Pledged(d)
<1> SUFFICES ASSUME NEW d \in Draft, Pledged(d)' PROVE Pledged(d)
  OBVIOUS
<1>1. d # None
  BY Numbers
<1>2. CASE \E k \in clicks' : k.id = d
  BY <1>2 DEF Pledged
<1>3. CASE \E c \in calls' : c.op = "submit" /\ c.id = None /\ c.of = d
  <2>1. PICK e \in calls' : e.op = "submit" /\ e.id = None /\ e.of = d
    BY <1>3
  <2>2. \E c \in calls : c.op = "submit" /\ c.id = None /\ c.of = d
    BY <1>1, <2>1
  <2> QED BY <2>2 DEF Pledged
<1> QED BY <1>2, <1>3 DEF Pledged

(* The server does nothing.                                                *)
LEMMA TextAsked ==
  ASSUME TypeInv, TextInv, UNCHANGED serverVars, clicks \subseteq clicks', raced \subseteq raced',
         \A e \in calls' : e \in calls \/ Echo(e),
         \A d \in Draft \ raced' : Pledged(d)' =>
           Pledged(d) \/ \A c \in calls : c.op = "save" => c.id # d
  PROVE  TextInv'
<1>1. UNCHANGED <<drafts, jobs, hand, mails>>
  BY DEF serverVars
<1>2. \A d \in Draft : RowTold(d) /\ (jobs'[d] > 0 => Going(d))
  BY <1>1, SameRows DEF SameRow, RowTold, Going
<1>3. Draft' = Draft
  BY <1>1 DEF Draft
<1> QED BY <1>1, <1>2, <1>3, TextKept

LEMMA OpenText ==
  ASSUME TypeInv, TextInv, NEW d \in Ids, Open(d)
  PROVE  TextInv'
<1>1. PICK e : e = [Call("load", d, Empty, {}) EXCEPT !.page = page.no + 1]
  OBVIOUS
<1>2. e.op = "load"
  BY <1>1 DEF Call
<1>3. UNCHANGED <<serverVars, clicks, raced>> /\ calls' \subseteq calls \cup {e}
  BY <1>1 DEF Open, Ask
<1>4. \A f \in calls' : f \in calls \/ (f.op = "load" /\ Echo(f))
  BY <1>2, <1>3 DEF Echo
<1>5. \A g \in Draft : Pledged(g)' => Pledged(g)
  BY <1>3, <1>4, NobodyPledges
<1> QED BY <1>3, <1>4, <1>5, TextAsked

LEMMA PersistText ==
  ASSUME TypeInv, TextInv, Persist
  PROVE  TextInv'
<1>1. UNCHANGED <<serverVars, clicks>> /\ raced \subseteq raced'
  BY DEF Persist
<1>2. CASE page.body = 0
  <2>1. calls' = calls
    BY <1>2 DEF Persist
  <2>2. \A g \in Draft : Pledged(g)' => Pledged(g)
    BY <1>1, <2>1, NobodyPledges
  <2> QED BY <1>1, <2>1, <2>2, TextAsked
<1>3. CASE page.body # 0
  <2>1. PICK e : e = Call("save", page.id, Shown, {})
    OBVIOUS
  <2>2. e.op = "save" /\ e.id = page.id
    BY <2>1 DEF Call
  <2>3. /\ calls' = calls \cup {e}
        /\ raced' = IF \/ \E k \in clicks : k.id = page.id
                       \/ \E c \in calls : c.op = "submit" /\ page.id \in {c.id, c.of}
                      THEN raced \cup ({page.id} \ {None}) ELSE raced
    BY <1>3, <2>1 DEF Persist, Write, Ask
  <2>4. \A g \in Draft : Pledged(g)' => Pledged(g)
    BY <1>1, <2>2, <2>3, NobodyPledges
  <2>5. page.id \in Ids
    BY Contents
  <2>6. PICK p : p = page.id
    OBVIOUS
  <2>7. CASE \/ \E k \in clicks : k.id = p
             \/ \E c \in calls : c.op = "submit" /\ p \in {c.id, c.of}
    <3>1. Echo(e)
      BY <2>2, <2>3, <2>6, <2>7 DEF Echo
    <3> QED BY <1>1, <2>3, <2>4, <3>1, TextAsked
  <2>8. CASE ~ \/ \E k \in clicks : k.id = p
               \/ \E c \in calls : c.op = "submit" /\ p \in {c.id, c.of}
    <3>1. ~Pledged(p)
      BY <2>8 DEF Pledged
    <3>2. p = None \/ ~Pledged(p)'
      BY <2>4, <2>5, <2>6, <3>1 DEF Ids
    <3>3. Echo(e)
      BY <2>2, <2>6, <3>2 DEF Echo
    <3> QED BY <1>1, <2>3, <2>4, <3>3, TextAsked
  <2> QED BY <2>7, <2>8
<1> QED BY <1>2, <1>3

LEMMA HandleSendText ==
  ASSUME TypeInv, TextInv, HandleSend
  PROVE  TextInv'
<1>1. PICK e : e = Call("submit", page.id, Shown, AttachedTo(page.no))
  OBVIOUS
<1>2. e.op = "submit" /\ e.id = page.id /\ e.what = Shown /\ e.of = None /\ e.st = "asked"
  BY <1>1 DEF Call
<1>3. /\ UNCHANGED serverVars /\ calls' = calls \cup {e}
      /\ raced' = IF \E c \in Writes(page.id) : c.op = "save"
                    THEN raced \cup {page.id} ELSE raced
      /\ clicks' = clicks \cup {Click(d, page.no, Shown, AttachedTo(page.no)) :
                                  d \in {page.id} \ {None}}
  BY <1>1 DEF HandleSend, Write, Ask
<1>4. Echo(e)
  <2>1. PICK p, b : p = page.id /\ b = Shown.body
    OBVIOUS
  <2>2. p # None => ClickedAs(p, b)'
    <3>1. PICK k : k = Click(page.id, page.no, Shown, AttachedTo(page.no))
      OBVIOUS
    <3>2. k.id = p /\ k.body = b
      BY <2>1, <3>1 DEF Click
    <3>3. p # None => k \in clicks'
      BY <1>3, <2>1, <3>1
    <3> QED BY <3>2, <3>3 DEF ClickedAs
  <2>3. e.id = p /\ e.what.body = b
    BY <1>2, <2>1
  <2>4. e.id # None => ClickedAs(e.id, e.what.body)'
    BY <2>2, <2>3
  <2> QED BY <1>2, <2>4 DEF Echo
<1>5. ASSUME NEW d \in Draft \ raced', Pledged(d)'
      PROVE  Pledged(d) \/ \A c \in calls : c.op = "save" => c.id # d
  <2>1. d # None
    BY Numbers
  <2>2. CASE d = page.id
    <3>1. ~ \E c \in Writes(page.id) : c.op = "save"
      BY <1>3, <1>5, <2>2
    <3> QED BY <2>1, <2>2, <3>1 DEF Writes, Writing
  <2>3. CASE d # page.id
    <3>1. \A k \in clicks' : k.id = d => k \in clicks
      BY <1>3, <2>3 DEF Click
    <3>2. \A c \in calls' : c.op = "submit" /\ c.id = None /\ c.of = d => c \in calls
      BY <1>2, <1>3, <2>1
    <3>3. Pledged(d)
      BY <1>5, <3>1, <3>2 DEF Pledged
    <3> QED BY <3>3
  <2> QED BY <2>2, <2>3
<1> QED BY <1>3, <1>4, <1>5, TextAsked

(* The steps of the page that write no text.                               *)
LEMMA OtherText ==
  ASSUME TypeInv, TextInv,
         \/ (\E d \in Draft : Jump(d)) \/ Edit \/ (\E a \in Addr : EditCc(a))
         \/ \E f \in File : HandleFiles(f) \/ \E d \in Draft : RemoveAttachment(d, f)
         \/ HandleDiscard \/ Leave
  PROVE  TextInv'
<1>1. /\ UNCHANGED <<serverVars, clicks, raced>>
      /\ \A e \in calls' : e \in calls \/ e.op \notin {"save", "submit", "send"}
  <2>1. CASE \E d \in Draft : Jump(d)
    BY <2>1 DEF Jump, history, Ask, Call
  <2>2. CASE Edit \/ (\E a \in Addr : EditCc(a)) \/ Leave
    BY <2>2 DEF Edit, EditCc, Leave, history
  <2>3. CASE \E f \in File : HandleFiles(f)
    BY <2>3 DEF HandleFiles, Write, Ask, Call
  <2>4. CASE \E f \in File : \E d \in Draft : RemoveAttachment(d, f)
    BY <2>4 DEF RemoveAttachment, history, Ask, Call
  <2>5. CASE HandleDiscard
    BY <2>5 DEF HandleDiscard, history, Ask, Call
  <2> QED BY <2>1, <2>2, <2>3, <2>4, <2>5
<1>2. \A e \in calls' : e \in calls \/ Echo(e)
  BY <1>1 DEF Echo
<1>3. \A g \in Draft : Pledged(g)' => Pledged(g)
  BY <1>1, NobodyPledges
<1> QED BY <1>1, <1>2, <1>3, TextAsked

(* A request fails, is refused or is answered: it is none of the above.    *)
LEMMA EchoOf ==
  ASSUME NEW c \in calls, NEW e, e.op = c.op, e.id = c.id, e.of = c.of,
         e.op = "submit" => e.st = "failed"
  PROVE  Echo(e)
BY DEF Echo

LEMMA BrokenText ==
  ASSUME TypeInv, TextInv, NEW c \in calls, Fail(c) \/ Lose(c)
  PROVE  TextInv'
<1>1. PICK e : e = [c EXCEPT !.st = "failed", !.what = Empty, !.files = {}]
  OBVIOUS
<1>2. e.op = c.op /\ e.id = c.id /\ e.of = c.of /\ e.st = "failed"
  BY <1>1, KindOf DEF CallSet
<1>3. UNCHANGED <<serverVars, clicks, raced>> /\ calls' \subseteq calls \cup {e}
  BY <1>1 DEF Fail, Lose, Refuse, Replace, history
<1>4. \A f \in calls' : f \in calls \/ Echo(f)
  BY <1>2, <1>3, EchoOf
<1>5. \A g \in Draft : Pledged(g)' => Pledged(g)
  BY <1>2, <1>3, NobodyPledges
<1> QED BY <1>3, <1>4, <1>5, TextAsked

(* handleSend goes on with the draft it saved.                             *)
LEMMA SubmittedText ==
  ASSUME TypeInv, TextInv, NEW c \in calls, Submitted(c), UNCHANGED <<serverVars, raced>>
  PROVE  TextInv'
<1>1. PICK d : d = IF c.id = None THEN c.of ELSE c.id
  OBVIOUS
<1>2. PICK e : e = [Call("send", d, Empty, {}) EXCEPT !.page = c.page]
  OBVIOUS
<1>3. e.op = "send" /\ e.id = d
  BY <1>2 DEF Call
<1>4. c.op = "submit" /\ c.st = "ok" /\ calls' = (calls \ {c}) \cup {e}
  BY <1>1, <1>2 DEF Submitted, Adopt, Then
<1>5. CASE c.id # None
  <2>1. clicks' = clicks
    BY <1>5 DEF Submitted
  <2>2. Echo(e)
    BY <1>1, <1>3, <1>4, <1>5 DEF Echo
  <2>3. \A g \in Draft : Pledged(g)' => Pledged(g)
    BY <1>3, <1>4, <2>1, NobodyPledges
  <2> QED BY <1>4, <2>1, <2>2, <2>3, TextAsked
<1>6. CASE c.id = None
  <2>1. PICK k : k = Click(d, c.page, c.what, c.files)
    OBVIOUS
  <2>2. clicks' = clicks \cup {k} /\ k.id = d /\ k.body = c.what.body /\ d = c.of
    BY <1>1, <1>6, <2>1 DEF Submitted, Click
  <2>3. drafts' = drafts
    BY DEF serverVars
  <2>4. d \in raced' \/ (Stored(d)' => ClickedAs(d, drafts[d].body)')
    <3> SUFFICES ASSUME d \notin raced, Stored(d) PROVE ClickedAs(d, drafts[d].body)'
      BY <2>3 DEF Stored, Draft
    <3>1. drafts[d].body = c.what.body \/ ClickedAs(d, drafts[d].body)
      BY <1>4, <1>6, <2>2 DEF TextInv, MadeClicked
    <3> QED BY <2>2, <2>3, <3>1 DEF ClickedAs
  <2>5. Echo(e)
    BY <1>3, <2>4 DEF Echo
  <2>6. ASSUME NEW g \in Draft, Pledged(g)' PROVE Pledged(g)
    <3>1. \A f \in calls' : f.op = "submit" => f \in calls
      BY <1>3, <1>4
    <3> QED BY <1>4, <1>6, <2>2, <2>6, <3>1 DEF Pledged
  <2> QED BY <1>4, <2>2, <2>5, <2>6, TextAsked
<1> QED BY <1>5, <1>6

LEMMA AnswerText ==
  ASSUME TypeInv, TextInv, NEW c \in calls, Answer(c)
  PROVE  TextInv'
<1>1. UNCHANGED <<serverVars, raced>>
  BY DEF Answer
<1>2. CASE Submitted(c)
  BY <1>1, <1>2, SubmittedText
<1>3. CASE ~Submitted(c)
  <2>1. clicks' = clicks
    BY <1>3 DEF Answer, Loaded, Saved, Sent, NotSent, Started, Uploaded, Discarded, GivenUp
  <2>2. \A f \in calls' : f \in calls \/ f.op = "upload"
    <3>1. PICK e : e = [Call("upload", c.of, Empty, c.files) EXCEPT !.page = c.page]
      OBVIOUS
    <3>2. e.op = "upload"
      BY <3>1 DEF Call
    <3>3. calls' \subseteq calls \cup {e}
      BY <1>3, <3>1 DEF Answer, Loaded, Saved, Sent, NotSent, Started, Uploaded, Discarded,
                        GivenUp, Adopt, Then
    <3> QED BY <3>2, <3>3
  <2>3. \A f \in calls' : f \in calls \/ Echo(f)
    BY <2>2 DEF Echo
  <2>4. \A g \in Draft : Pledged(g)' => Pledged(g)
    BY <2>1, <2>2, NobodyPledges
  <2> QED BY <1>1, <2>1, <2>3, <2>4, TextAsked
<1> QED BY <1>2, <1>3

LEMMA CreateDraftText ==
  ASSUME TypeInv, TextInv, NEW c \in calls, c.id = None, CreateDraft(c),
         UNCHANGED <<hand, mails, clicks, raced>>
  PROVE  TextInv'
<1>1. PICK k : k = Len(drafts) + 1
  OBVIOUS
<1>2. PICK e : e = [[c EXCEPT !.of = k] EXCEPT !.st = "ok"]
  OBVIOUS
<1>3. e.op = c.op /\ e.id = None /\ e.of = k /\ e.st = "ok" /\ e.what = c.what
  BY <1>2, KindOf DEF CallSet
<1>4. calls' = (calls \ {c}) \cup {e} /\ jobs' = jobs
  BY <1>1, <1>2 DEF CreateDraft, Reply, Replace
<1>5. /\ Draft' = Draft \cup {k} /\ k \notin Draft /\ k # None
      /\ \A d \in Draft : drafts'[d] = drafts[d]
      /\ drafts'[k].body = c.what.body
  BY <1>1, Appended
<1>6. /\ \A f \in calls : f.id # k /\ f.of # k
      /\ \A v \in clicks : v.id \in Draft
      /\ k \in 1..MaxDrafts => jobs[k] = 0
      /\ \A m \in mails : m.id \in Draft
      /\ None \notin Draft /\ Draft \subseteq 1..MaxDrafts
  <2>1. \A f \in calls : f.id # k /\ f.of # k
    BY <1>5, KindOf DEF Ids
  <2>2. (\A v \in clicks : v.id \in Draft) /\ (\A m \in mails : m.id \in Draft)
    BY DEF TypeInv, ClicksOK, ClickSet, MailsOK, MailSet
  <2>3. k \in 1..MaxDrafts => jobs[k] = 0
    BY <1>5 DEF TypeInv, JobsOK
  <2> QED BY <2>1, <2>2, <2>3, Numbers
<1>7. k \in 1..MaxDrafts
  <2>1. Len(drafts) < MaxDrafts
    BY DEF CreateDraft
  <2> QED BY <1>1, <2>1, Numbers, ComposeAssumption
<1>8. \A d \in Draft : (Stored(d)' <=> Stored(d)) /\ drafts'[d].body = drafts[d].body
  BY <1>5 DEF Stored
<1>9. \A d, b : ClickedAs(d, b)' <=> ClickedAs(d, b)
  BY DEF ClickedAs
<1>10. \A d \in Draft : Pledged(d)' => Pledged(d)
  BY <1>3, <1>4, <1>5 DEF Pledged
<1>11. ~Going(k)' /\ \A d \in Draft : Going(d)' => Going(d)
  BY <1>3, <1>4, <1>5, <1>6, <1>7 DEF Going
<1>12. SubmitsClicked'
  BY <1>3, <1>4, <1>9 DEF TextInv, SubmitsClicked
<1>13. NoStraySave'
  <2> SUFFICES ASSUME NEW d \in Draft', d \notin raced, Pledged(d)',
                      NEW f \in calls', f.op = "save", f.id = d
               PROVE  FALSE
    BY DEF NoStraySave
  <2>1. d # None /\ f \in calls
    BY <1>3, <1>4, <1>5, <1>6
  <2>2. d \in Draft
    BY <1>5, <1>6, <2>1
  <2> QED BY <1>10, <2>1, <2>2 DEF TextInv, NoStraySave
<1>14. RowsClicked'
  <2> SUFFICES ASSUME NEW d \in Draft', d \notin raced, Stored(d)', Going(d)'
               PROVE  ClickedAs(d, drafts[d].body)'
    BY DEF RowsClicked
  <2>1. d \in Draft /\ Going(d)
    BY <1>5, <1>11
  <2> QED BY <1>8, <1>9, <2>1 DEF TextInv, RowsClicked
<1>15. MadeClicked'
  <2> SUFFICES ASSUME NEW f \in calls', f.op = "submit", f.id = None, f.st = "ok",
                      f.of \notin raced, Stored(f.of)'
               PROVE  drafts'[f.of].body = f.what.body \/ ClickedAs(f.of, drafts[f.of].body)'
    BY DEF MadeClicked
  <2>1. CASE f = e
    BY <1>3, <1>5, <2>1
  <2>2. CASE f \in calls
    <3>1. f.of \in Draft
      BY <2>2, Brought
    <3> QED BY <1>8, <1>9, <2>2, <3>1 DEF TextInv, MadeClicked
  <2> QED BY <1>4, <2>1, <2>2
<1>16. ReadClicked' /\ OutClicked'
  BY <1>9 DEF TextInv, ReadClicked, OutClicked
<1> QED BY <1>12, <1>13, <1>14, <1>15, <1>16 DEF TextInv

LEMMA UpdateDraftText ==
  ASSUME TypeInv, TextInv, NEW c \in calls, c.op \in {"save", "submit"}, c.id # None,
         c.st = "asked", UpdateDraft(c), UNCHANGED <<hand, mails, page, edits, clicks, raced>>
  PROVE  TextInv'
<1>1. PICK d \in Draft : d = c.id
  BY KindOf
<1>2. /\ Draft' = Draft /\ \A g \in Draft : g # d => SameRow(g)
      /\ Stored(d)' => Stored(d) /\ drafts'[d].body = c.what.body
  <2>1. CASE Stored(c.id)
    <3>1. PICK r \in RowSet :
            /\ drafts' = [drafts EXCEPT ![d] = r] /\ r.body = c.what.body
      BY <1>1, <2>1, UpdateRow
    <3>2. page'.no = page.no /\ edits' = edits
      OBVIOUS
    <3>3. drafts'[d] = r
      BY <3>1, <3>2, Amended
    <3>4. Draft' = Draft
      BY <3>1, <3>2, Amended
    <3>5. \A g \in Draft \ {d} : SameRow(g)
      BY <1>1, <3>1, <3>2, OtherRows
    <3> QED BY <1>1, <2>1, <3>1, <3>3, <3>4, <3>5
  <2>2. CASE ~Stored(c.id)
    <3>1. drafts' = drafts
      BY <2>2 DEF UpdateDraft
    <3>2. ~Stored(d)'
      BY <1>1, <2>2, <3>1 DEF Stored, Draft
    <3> QED BY <3>1, <3>2, SameRows DEF Draft
  <2> QED BY <2>1, <2>2
<1>3. PICK e : /\ calls' = (calls \ {c}) \cup {e} /\ jobs' = jobs
               /\ e.op = c.op /\ e.id = c.id /\ e.of = c.of /\ e.st \in {"ok", "failed"}
  <2>1. PICK f, g : /\ f = [[c EXCEPT !.what = Empty, !.files = {}] EXCEPT !.st = "ok"]
                    /\ g = [c EXCEPT !.st = "failed", !.what = Empty, !.files = {}]
    OBVIOUS
  <2>2. /\ f.op = c.op /\ f.id = c.id /\ f.of = c.of /\ f.st = "ok"
        /\ g.op = c.op /\ g.id = c.id /\ g.of = c.of /\ g.st = "failed"
    BY <2>1, KindOf DEF CallSet
  <2>3. jobs' = jobs /\ calls' \in {(calls \ {c}) \cup {f}, (calls \ {c}) \cup {g}}
    BY <2>1 DEF UpdateDraft, Reply, Refuse, Replace
  <2> QED BY <2>2, <2>3
<1>4. c.op = "submit" => ClickedAs(d, c.what.body)'
  BY <1>1 DEF TextInv, SubmitsClicked, ClickedAs
<1>5. \A g \in Draft : RowTold(g)
  <2> SUFFICES ASSUME NEW g \in Draft PROVE RowTold(g)
    OBVIOUS
  <2>1. CASE g # d
    BY <1>2, <2>1 DEF SameRow, RowTold
  <2>2. CASE g = d /\ c.op = "save"
    BY <1>1, <1>2, <2>2 DEF RowTold
  <2>3. CASE g = d /\ c.op = "submit"
    BY <1>2, <1>4, <2>3 DEF RowTold, ClickedAs
  <2> QED BY <2>1, <2>2, <2>3
<1>6. Echo(e)
  <2>1. e.id = d /\ (Stored(d)' /\ c.op = "submit" => ClickedAs(d, drafts[d].body)')
    BY <1>1, <1>2, <1>3, <1>4 DEF ClickedAs
  <2>2. CASE e.op = "save" \/ e.st = "failed"
    BY <1>3, <2>2, EchoOf
  <2>3. CASE e.op = "submit" /\ e.st = "ok"
    BY <1>3, <2>1, <2>3 DEF Echo
  <2> QED BY <1>3, <2>2, <2>3
<1>7. \A g \in Draft : Pledged(g)' => Pledged(g)
  BY <1>3, NobodyPledges
<1>8. \A g \in Draft : jobs'[g] > 0 => Going(g)
  BY <1>3 DEF Going
<1> QED BY <1>2, <1>3, <1>5, <1>6, <1>7, <1>8, TextKept

LEMMA SendDraftText ==
  ASSUME TypeInv, TextInv, NEW c \in calls, c.op = "send", SendDraft(c),
         UNCHANGED <<hand, mails, clicks, raced>>
  PROVE  TextInv'
<1>1. PICK f, g : /\ f = [c EXCEPT !.st = "ok"]
                  /\ g = [c EXCEPT !.st = "failed", !.what = Empty, !.files = {}]
  OBVIOUS
<1>2. f.op = "send" /\ f.id = c.id /\ f.of = c.of /\ g.op = "send" /\ g.id = c.id /\ g.of = c.of
  BY <1>1, KindOf DEF CallSet
<1>3. /\ drafts' = drafts /\ calls' \subseteq calls \cup {f, g}
      /\ jobs' = jobs \/ jobs' = [jobs EXCEPT ![c.id] = @ + 1]
  BY <1>1 DEF SendDraft, Reply, Refuse, Replace
<1>4. \A h \in calls' : h \in calls \/ Echo(h)
  BY <1>2, <1>3, EchoOf
<1>5. \A h \in Draft : Pledged(h)' => Pledged(h)
  BY <1>2, <1>3, NobodyPledges
<1>6. ASSUME NEW h \in Draft, jobs'[h] > 0 PROVE Going(h)
  <2>1. CASE h = c.id
    BY <2>1 DEF Going
  <2>2. CASE h # c.id
    <3>1. jobs'[h] = jobs[h]
      BY <1>3, <2>2, Numbers DEF TypeInv, JobsOK
    <3> QED BY <1>6, <3>1 DEF Going
  <2> QED BY <2>1, <2>2
<1>7. \A h \in Draft : RowTold(h)
  BY <1>3, SameRows DEF SameRow, RowTold
<1>8. Draft' = Draft
  BY <1>3 DEF Draft
<1> QED BY <1>4, <1>5, <1>6, <1>7, <1>8, TextKept

(* The other requests change no text.                                      *)
LEMMA HandledText ==
  ASSUME TypeInv, TextInv, NEW c \in calls,
         \/ c.op = "load" /\ GetMessage(c)
         \/ c.op \in {"upload", "remove", "discard"} /\ Handle(c),
         UNCHANGED <<hand, mails, page, edits, clicks, raced>>
  PROVE  TextInv'
<1>1. jobs' = jobs /\ Draft' = Draft /\ \A d \in Draft : SameRow(d)
  <2>1. CASE c.op = "load" /\ GetMessage(c)
    BY <2>1, SameRows DEF GetMessage, Draft
  <2>2. CASE c.op \in {"upload", "remove", "discard"} /\ Handle(c)
    <3>1. PICK r \in RowSet :
            /\ drafts' = [drafts EXCEPT ![c.id] = r]
            /\ r.body = drafts[c.id].body /\ r.cc = drafts[c.id].cc
            /\ (r.state # "gone" => drafts[c.id].state # "gone")
      BY <2>2, Changed
    <3>2. c.id \in Draft
      BY <2>2, KindOf DEF Writing
    <3>3. jobs' = jobs
      BY <2>2 DEF Handle, UploadAttachment, DeleteAttachment, DeleteMessage, Writing
    <3>4. page'.no = page.no /\ edits' = edits
      OBVIOUS
    <3> QED BY <3>1, <3>2, <3>3, <3>4, Amended, OtherRows
  <2> QED BY <2>1, <2>2
<1>2. \A f \in calls' : f \in calls \/ f.op \notin {"save", "submit", "send"}
  BY Succession
<1>3. \A f \in calls' : f \in calls \/ Echo(f)
  BY <1>2 DEF Echo
<1>4. \A d \in Draft : Pledged(d)' => Pledged(d)
  BY <1>2, NobodyPledges
<1>5. \A d \in Draft : RowTold(d) /\ (jobs'[d] > 0 => Going(d))
  BY <1>1 DEF SameRow, RowTold, Going
<1> QED BY <1>1, <1>3, <1>4, <1>5, TextKept

LEMMA ServeText ==
  ASSUME TypeInv, TextInv, NEW c \in calls, Serve(c)
  PROVE  TextInv'
<1>1. /\ c.st = "asked" /\ Handle(c) /\ c.op \in Op
      /\ UNCHANGED <<hand, mails, page, edits, clicks, raced>>
  BY KindOf DEF Serve
<1>2. CASE c.op \in Writing /\ c.id = None
  <2>1. CreateDraft(c)
    BY <1>1, <1>2 DEF Handle, Writing
  <2> QED BY <1>1, <1>2, <2>1, CreateDraftText
<1>3. CASE c.op \in Writing /\ c.id # None
  <2>1. UpdateDraft(c)
    BY <1>1, <1>3 DEF Handle, Writing
  <2>2. c.op \in {"save", "submit"}
    BY <1>3 DEF Writing, TypeInv, CallsOK, CallOK
  <2> QED BY <1>1, <1>3, <2>1, <2>2, UpdateDraftText
<1>4. CASE c.op = "send"
  <2>1. SendDraft(c)
    BY <1>1, <1>4 DEF Handle, Writing
  <2> QED BY <1>1, <1>4, <2>1, SendDraftText
<1>5. CASE c.op \in {"load", "upload", "remove", "discard"}
  <2>1. c.op = "load" => GetMessage(c)
    BY <1>1 DEF Handle, Writing
  <2> QED BY <1>1, <1>5, <2>1, HandledText
<1> QED BY <1>1, <1>2, <1>3, <1>4, <1>5 DEF Op, Writing

LEMMA WorkerText ==
  ASSUME TypeInv, TextInv, (\E d \in Draft : Take(d)) \/ Mail
  PROVE  TextInv'
<1>1. UNCHANGED <<page, calls, edits, clicks, raced>>
  BY DEF Take, Mail, history
<1>2. \A d \in Draft : Pledged(d)' => Pledged(d)
  BY <1>1, NobodyPledges
<1>3. CASE \E d \in Draft : Take(d)
  <2>1. PICK d \in Draft : Take(d)
    BY <1>3
  <2>2. drafts' = drafts /\ mails' = mails /\ jobs[d] > 0 /\ jobs' = [jobs EXCEPT ![d] = @ - 1]
    BY <2>1 DEF Take
  <2>3. ASSUME NEW g \in Draft, jobs'[g] > 0 PROVE jobs[g] > 0
    <3>1. jobs \in [1..MaxDrafts -> Nat] /\ Draft \subseteq 1..MaxDrafts
      BY Numbers DEF TypeInv, JobsOK
    <3> QED BY <2>2, <2>3, <3>1
  <2>4. ReadClicked'
    <3> SUFFICES ASSUME hand' # Nobody, d \notin raced
                 PROVE  ClickedAs(hand.id, hand.body)'
      <4>1. hand' = Nobody \/ hand'.id = d
        BY <2>1 DEF Take
      <4> QED BY <1>1, <4>1 DEF ReadClicked, ClickedAs
    <3>1. IsDraft(d) /\ hand'.id = d /\ hand'.body = drafts[d].body
      BY <2>1 DEF Take
    <3>2. Stored(d) /\ Going(d)
      BY <2>2, <3>1 DEF IsDraft, Stored, Going
    <3> QED BY <1>1, <3>1, <3>2 DEF TextInv, RowsClicked, ClickedAs
  <2>5. \A g \in Draft : RowTold(g) /\ (jobs'[g] > 0 => Going(g))
    BY <2>2, <2>3, SameRows DEF SameRow, RowTold, Going
  <2>6. Draft' = Draft
    BY <2>2 DEF Draft
  <2> QED BY <1>1, <1>2, <2>2, <2>4, <2>5, <2>6, TextKept
<1>4. CASE Mail
  <2>1. hand # Nobody /\ hand' = Nobody /\ jobs' = jobs
    BY <1>4 DEF Mail
  <2>2. hand.id \in Draft
    BY <2>1 DEF TypeInv, HandOK, Ids
  <2>3. PICK m : mails' = mails \cup {m} /\ m.id = hand.id /\ m.body = hand.body
    <3>1. PICK bare \in BOOLEAN :
            mails' = mails \cup {[id |-> hand.id, body |-> hand.body, bare |-> bare,
                                  files |-> IF bare THEN {} ELSE drafts[hand.id].atts]}
      BY <1>4 DEF Mail
    <3>2. PICK m : m = [id |-> hand.id, body |-> hand.body, bare |-> bare,
                        files |-> IF bare THEN {} ELSE drafts[hand.id].atts]
      OBVIOUS
    <3>3. m.id = hand.id /\ m.body = hand.body
      BY <3>2
    <3> QED BY <3>1, <3>2, <3>3
  <2>4. OutClicked'
    BY <1>1, <2>1, <2>3 DEF TextInv, OutClicked, ReadClicked, ClickedAs
  <2>5. ReadClicked'
    BY <2>1 DEF ReadClicked
  <2>6. Draft' = Draft /\ \A d \in Draft : SameRow(d)
    <3>1. PICK r \in RowSet :
            /\ drafts' = [drafts EXCEPT ![hand.id] = r]
            /\ r.body = drafts[hand.id].body /\ r.cc = drafts[hand.id].cc
            /\ (r.state # "gone" => drafts[hand.id].state # "gone")
      BY <1>4, <2>2, Restated DEF Mail
    <3>2. page'.no = page.no /\ edits' = edits
      BY <1>1
    <3> QED BY <2>2, <3>1, <3>2, Amended, OtherRows
  <2>7. \A g \in Draft : RowTold(g) /\ (jobs'[g] > 0 => Going(g))
    BY <2>1, <2>6 DEF SameRow, RowTold, Going
  <2> QED BY <1>1, <1>2, <2>4, <2>5, <2>6, <2>7, TextKept
<1> QED BY <1>3, <1>4

LEMMA TextStep == TypeInv /\ TextInv /\ [Next]_vars => TextInv'
<1> SUFFICES ASSUME TypeInv, TextInv, [Next]_vars PROVE TextInv'
  OBVIOUS
<1>1. CASE \E d \in Ids : Open(d)
  BY <1>1, OpenText
<1>2. CASE \/ (\E d \in Draft : Jump(d)) \/ Edit \/ (\E a \in Addr : EditCc(a))
           \/ \E f \in File : HandleFiles(f) \/ \E d \in Draft : RemoveAttachment(d, f)
           \/ HandleDiscard \/ Leave
  BY <1>2, OtherText
<1>3. CASE Persist \/ HandleSend
  BY <1>3, PersistText, HandleSendText
<1>4. CASE \E c \in calls : Serve(c) \/ Fail(c) \/ Lose(c) \/ Answer(c)
  BY <1>4, ServeText, BrokenText, AnswerText
<1>5. CASE (\E d \in Draft : Take(d)) \/ Mail
  BY <1>5, WorkerText
<1>6. CASE UNCHANGED vars
  <2>1. UNCHANGED <<serverVars, calls, clicks, raced>>
    BY <1>6 DEF vars, history
  <2>2. \A d \in Draft : Pledged(d)' => Pledged(d)
    BY <2>1, NobodyPledges
  <2> QED BY <2>1, <2>2, TextAsked
<1> QED BY <1>1, <1>2, <1>3, <1>4, <1>5, <1>6 DEF Next, Ids

-----------------------------------------------------------------------------
(* What goes out has the files of a click                                  *)

(* A page that knows a draft waits for no other, and never for two, unless *)
(* its excess says so.                                                     *)
Alive(c) == Creation(c) /\ c.st # "failed"
NoneWhileKnown ==
  page.open /\ page.id # None =>
    \A c \in calls : Alive(c) /\ c.page = page.no => excess[page.no] > 0
OneAtATime ==
  \A c, e \in calls : Alive(c) /\ Alive(e) /\ c.page = e.page /\ c # e => excess[c.page] > 0
LoneInv == NoneWhileKnown /\ OneAtATime

LEMMA ExcessGrows ==
  ASSUME TypeInv, excess' = excess \/ \E p : excess' = [excess EXCEPT ![p] = @ + 1],
         NEW n \in 1..MaxPages
  PROVE  /\ excess[n] \in Nat /\ excess'[n] \in Nat
         /\ excess[n] > 0 => excess'[n] > 0
         /\ excess'[n] = 0 => excess[n] = 0
<1>1. excess \in [1..MaxPages -> Nat]
  BY DEF TypeInv, HistoryOK
<1>2. CASE excess' = excess
  BY <1>1, <1>2
<1>3. CASE \E p : excess' = [excess EXCEPT ![p] = @ + 1]
  <2>1. PICK p : excess' = [excess EXCEPT ![p] = @ + 1]
    BY <1>3
  <2>2. excess[n] \in Nat /\ excess'[n] = IF n = p THEN excess[n] + 1 ELSE excess[n]
    BY <1>1, <2>1
  <2> QED BY <2>2
<1> QED BY <1>2, <1>3

LEMMA PagesOfCalls ==
  ASSUME TypeInv
  PROVE  /\ \A c \in calls : c.page \in 1..MaxPages /\ c.page <= page.no
         /\ page.open => page.no \in 1..MaxPages
<1>1. page.no \in 0..MaxPages /\ page.no \in Nat /\ (page.open => page.no # 0)
  BY Numbers DEF TypeInv, PageOK
<1>2. \A c \in calls : c.page \in 1..page.no
  BY KindOf
<1> QED BY <1>1, <1>2, ComposeAssumption

LEMMA LoneKept ==
  ASSUME TypeInv, LoneInv, excess' = excess \/ \E p : excess' = [excess EXCEPT ![p] = @ + 1],
         \A e \in calls' : Alive(e) => e \in calls,
         page'.open /\ page'.id # None =>
           \/ page.open /\ page.id # None /\ page'.no = page.no
           \/ \A e \in calls' : Alive(e) /\ e.page = page'.no => excess[e.page] > 0
  PROVE  LoneInv'
<1>1. NoneWhileKnown'
  <2> SUFFICES ASSUME page'.open, page'.id # None,
                      NEW c \in calls', Alive(c), c.page = page'.no
               PROVE  excess'[c.page] > 0
    BY DEF NoneWhileKnown, Alive, Creation
  <2>1. c \in calls /\ c.page \in 1..MaxPages
    BY PagesOfCalls
  <2>2. excess[c.page] > 0
    BY <2>1 DEF LoneInv, NoneWhileKnown
  <2> QED BY <2>1, <2>2, ExcessGrows
<1>2. OneAtATime'
  <2> SUFFICES ASSUME NEW c \in calls', NEW e \in calls', Alive(c), Alive(e),
                      c.page = e.page, c # e
               PROVE  excess'[c.page] > 0
    BY DEF OneAtATime, Alive, Creation
  <2>1. c \in calls /\ e \in calls /\ c.page \in 1..MaxPages
    BY PagesOfCalls
  <2>2. excess[c.page] > 0
    BY <2>1 DEF LoneInv, OneAtATime
  <2> QED BY <2>1, <2>2, ExcessGrows
<1> QED BY <1>1, <1>2 DEF LoneInv

LEMMA WriteLone ==
  ASSUME TypeInv, LoneInv, page.open, NEW op \in Writing, NEW files \in SUBSET File,
         Write(op, files), page'.no = page.no, page'.id = page.id, page'.open = page.open
  PROVE  LoneInv'
<1>1. PICK w : w = Call(op, page.id, Shown, files)
  OBVIOUS
<1>2. w.op = op /\ w.id = page.id /\ w.page = page.no
  BY <1>1 DEF Call
<1>3. /\ calls' = calls \cup {w}
      /\ excess' = IF page.id = None /\ Writes(page.id) \cup Creates(page.no) # {}
                     THEN [excess EXCEPT ![page.no] = @ + 1] ELSE excess
  BY <1>1 DEF Write, Ask
<1>4. excess' = excess \/ \E p : excess' = [excess EXCEPT ![p] = @ + 1]
  BY <1>3
<1>5. CASE page.id # None
  <2>1. \A e \in calls' : Alive(e) => e \in calls
    BY <1>2, <1>3, <1>5 DEF Alive, Creation
  <2> QED BY <1>4, <1>5, <2>1, LoneKept
<1>6. CASE page.id = None
  <2>1. NoneWhileKnown'
    BY <1>6 DEF NoneWhileKnown
  <2>2. ASSUME NEW e \in calls, Alive(e), e.page = page.no PROVE excess'[page.no] > 0
    <3>1. e \in Creates(page.no)
      BY <2>2 DEF Alive, Creation, Creates
    <3>2. excess' = [excess EXCEPT ![page.no] = @ + 1]
      BY <1>3, <1>6, <3>1
    <3>3. excess \in [1..MaxPages -> Nat] /\ page.no \in 1..MaxPages
      BY PagesOfCalls DEF TypeInv, HistoryOK
    <3> QED BY <3>2, <3>3
  <2>3. OneAtATime'
    <3> SUFFICES ASSUME NEW c \in calls', NEW e \in calls', Alive(c), Alive(e),
                        c.page = e.page, c # e
                 PROVE  excess'[c.page] > 0
      BY DEF OneAtATime, Alive, Creation
    <3>1. CASE c \in calls /\ e \in calls
      <4>1. excess[c.page] > 0 /\ c.page \in 1..MaxPages
        BY <3>1, PagesOfCalls DEF LoneInv, OneAtATime
      <4> QED BY <1>4, <4>1, ExcessGrows
    <3>2. CASE c = w \/ e = w
      BY <1>2, <1>3, <2>2, <3>2
    <3> QED BY <1>3, <3>1, <3>2
  <2> QED BY <2>1, <2>3 DEF LoneInv
<1> QED BY <1>5, <1>6

LEMMA OpenLone ==
  ASSUME TypeInv, LoneInv, NEW d \in Ids, Open(d)
  PROVE  LoneInv'
<1>1. page'.no = page.no + 1
  BY DEF Open, Blank
<1>2. \A e \in calls' : Alive(e) => e \in calls
  BY DEF Open, Ask, Call, Alive, Creation, Writing
<1>3. \A e \in calls : e.page # page'.no
  BY <1>1, PagesOfCalls, Numbers, KindOf
<1>4. excess' = excess
  BY DEF Open
<1> QED BY <1>2, <1>3, <1>4, LoneKept

LEMMA PageLone ==
  ASSUME TypeInv, LoneInv,
         \/ (\E d \in Draft : Jump(d)) \/ Edit \/ (\E a \in Addr : EditCc(a))
         \/ Persist \/ HandleSend
         \/ \E f \in File : HandleFiles(f) \/ \E d \in Draft : RemoveAttachment(d, f)
         \/ HandleDiscard \/ Leave
  PROVE  LoneInv'
<1>1. ASSUME excess' = excess,
             page'.open => page.open /\ page'.id = page.id /\ page'.no = page.no,
             \A e \in calls' : e \in calls \/ e.id # None \/ e.op \notin Writing
      PROVE  LoneInv'
  BY <1>1, LoneKept DEF Alive, Creation
<1>2. CASE \E d \in Draft : Jump(d)
  BY <1>1, <1>2 DEF Jump, history, Ask, Call, Writing
<1>3. CASE Edit \/ \E a \in Addr : EditCc(a)
  BY <1>1, <1>3 DEF Edit, EditCc, history, TypeInv, PageOK
<1>4. CASE Persist
  <2>1. page.open /\ page'.open = page.open /\ page'.id = page.id /\ page'.no = page.no
    BY <1>4 DEF Persist, TypeInv, PageOK
  <2>2. CASE page.body = 0
    BY <1>1, <1>4, <2>1, <2>2 DEF Persist
  <2>3. CASE page.body # 0
    BY <1>4, <2>1, <2>3, WriteLone DEF Persist, Writing
  <2> QED BY <2>2, <2>3
<1>5. CASE HandleSend
  <2>1. page.open /\ page'.open = page.open /\ page'.id = page.id /\ page'.no = page.no
    BY <1>5 DEF HandleSend, TypeInv, PageOK
  <2> QED BY <1>5, <2>1, WriteLone DEF HandleSend, Writing, AttachedTo
<1>6. CASE \E f \in File : HandleFiles(f)
  <2>1. PICK f \in File : HandleFiles(f)
    BY <1>6
  <2>2. CASE page.id = None
    BY <2>1, <2>2, WriteLone DEF HandleFiles, Writing
  <2>3. CASE page.id # None
    BY <1>1, <2>1, <2>3 DEF HandleFiles, Ask, Call
  <2> QED BY <2>2, <2>3
<1>7. CASE \E f \in File : \E d \in Draft : RemoveAttachment(d, f)
  BY <1>1, <1>7 DEF RemoveAttachment, history, Ask, Call
<1>8. CASE HandleDiscard \/ Leave
  BY <1>1, <1>8 DEF HandleDiscard, Leave, history, Ask, Call, Blank
<1> QED BY <1>2, <1>3, <1>4, <1>5, <1>6, <1>7, <1>8

LEMMA CreateDraftLone ==
  ASSUME TypeInv, LoneInv, NEW c \in calls, Alive(c), CreateDraft(c), UNCHANGED <<page, excess>>
  PROVE  LoneInv'
<1>1. PICK e : e = [[c EXCEPT !.of = Len(drafts) + 1] EXCEPT !.st = "ok"]
  OBVIOUS
<1>2. e.op = c.op /\ e.id = c.id /\ e.page = c.page
  BY <1>1, KindOf DEF CallSet
<1>3. calls' = (calls \ {c}) \cup {e}
  BY <1>1 DEF CreateDraft, Reply, Replace
<1>4. NoneWhileKnown'
  BY <1>2, <1>3 DEF LoneInv, NoneWhileKnown, Alive, Creation
<1>5. OneAtATime'
  BY <1>2, <1>3 DEF LoneInv, OneAtATime, Alive, Creation
<1> QED BY <1>4, <1>5 DEF LoneInv

LEMMA ServeLone ==
  ASSUME TypeInv, LoneInv, NEW c \in calls, Serve(c)
  PROVE  LoneInv'
<1>1. c.st = "asked" /\ Handle(c) /\ c.op \in Op /\ UNCHANGED <<page, excess>>
  BY KindOf DEF Serve
<1>2. CASE c.op \in Writing /\ c.id = None
  <2>1. CreateDraft(c)
    BY <1>1, <1>2 DEF Handle, Writing
  <2> QED BY <1>1, <1>2, <2>1, CreateDraftLone DEF Alive, Creation
<1>3. CASE c.id # None
  <2>1. \/ GetMessage(c) \/ SendDraft(c) \/ UpdateDraft(c)
        \/ c.op \in {"upload", "remove", "discard"} /\ Handle(c)
    BY <1>1, <1>3 DEF Handle, Writing, Op
  <2>2. \A e \in calls' : Alive(e) => e \in calls
    BY <1>3, <2>1, Succession DEF Alive, Creation
  <2> QED BY <1>1, <2>2, LoneKept
<1> QED BY <1>1, <1>2, <1>3, KindOf, Numbers

LEMMA BrokenLone ==
  ASSUME TypeInv, LoneInv, NEW c \in calls, Fail(c) \/ Lose(c)
  PROVE  LoneInv'
<1>1. PICK d : d = [c EXCEPT !.st = "failed", !.what = Empty, !.files = {}]
  OBVIOUS
<1>2. d.st = "failed"
  BY <1>1, KindOf DEF CallSet
<1>3. /\ page' = page /\ calls' \subseteq calls \cup {d}
      /\ excess' = excess \/ excess' = [excess EXCEPT ![c.page] = @ + 1]
  BY <1>1 DEF Fail, Lose, Refuse, Replace, history
<1>4. \A e \in calls' : Alive(e) => e \in calls
  BY <1>2, <1>3 DEF Alive
<1> QED BY <1>3, <1>4, LoneKept

(* The page that learns of its draft waited for this creation alone.       *)
LEMMA AdoptLone ==
  ASSUME TypeInv, LoneInv, NEW c \in calls, Alive(c), NEW cs, Adopt(c, c.of, cs),
         \A e \in cs : ~Creation(e), excess' = excess
  PROVE  LoneInv'
<1>1. /\ calls' = (calls \ {c}) \cup cs
      /\ page' = page \/ (Mine(c) /\ page'.no = page.no)
  BY DEF Adopt, Then, TypeInv, PageOK
<1>2. \A e \in calls' : Alive(e) => e \in calls /\ e # c
  BY <1>1 DEF Alive
<1>3. ASSUME page' # page PROVE \A e \in calls' : Alive(e) /\ e.page = page'.no => excess[e.page] > 0
  BY <1>1, <1>2, <1>3 DEF LoneInv, OneAtATime, Mine
<1> QED BY <1>1, <1>2, <1>3, LoneKept

LEMMA AnswerLone ==
  ASSUME TypeInv, LoneInv, NEW c \in calls, Answer(c)
  PROVE  LoneInv'
<1>1. excess' = excess
  BY DEF Answer
<1>2. PICK e, u : /\ e = [Call("send", IF c.id = None THEN c.of ELSE c.id, Empty, {})
                            EXCEPT !.page = c.page]
                  /\ u = [Call("upload", c.of, Empty, c.files) EXCEPT !.page = c.page]
  OBVIOUS
<1>3. ~Creation(e) /\ ~Creation(u)
  BY <1>2 DEF Call, Creation, Writing
<1>4. ASSUME NEW cs, \A f \in cs : f \in {e, u}, Adopt(c, c.of, cs), Creation(c), c.st = "ok"
      PROVE  LoneInv'
  BY <1>1, <1>3, <1>4, AdoptLone DEF Alive
<1>5. ASSUME NEW cs, \A f \in cs : f \in {e, u}, Then(c, cs),
             page'.open => page.open /\ page'.no = page.no /\ page'.id = page.id
      PROVE  LoneInv'
  <2>1. \A f \in calls' : Alive(f) => f \in calls
    BY <1>3, <1>5 DEF Then, Alive
  <2> QED BY <1>1, <1>5, <2>1, LoneKept
<1>6. CASE Loaded(c)
  BY <1>5, <1>6 DEF Loaded, TypeInv, PageOK
<1>7. CASE Saved(c)
  BY <1>4, <1>5, <1>7 DEF Saved, Creation, Writing
<1>8. CASE Submitted(c)
  <2>1. CASE c.id = None
    <3>1. Adopt(c, c.of, {e}) /\ Creation(c) /\ c.st = "ok"
      BY <1>2, <1>8, <2>1 DEF Submitted, Creation, Writing
    <3> QED BY <1>4, <3>1
  <2>2. CASE c.id # None
    <3>1. Then(c, {e}) /\ page' = page
      BY <1>2, <1>8, <2>2 DEF Submitted
    <3> QED BY <1>5, <3>1
  <2> QED BY <2>1, <2>2
<1>9. CASE Started(c)
  <2>1. Adopt(c, c.of, {u}) /\ Creation(c) /\ c.st = "ok"
    BY <1>2, <1>9 DEF Started, Creation, Writing, TypeInv, CallsOK, CallOK
  <2> QED BY <1>4, <2>1
<1>10. CASE Sent(c) \/ NotSent(c) \/ Uploaded(c) \/ Discarded(c) \/ GivenUp(c)
  <2>1. Then(c, {}) /\ (page'.open => page.open /\ page'.no = page.no /\ page'.id = page.id)
    BY <1>10, OtherAnswers DEF Blank, TypeInv, PageOK
  <2> QED BY <1>5, <2>1
<1> QED BY <1>6, <1>7, <1>8, <1>9, <1>10 DEF Answer

LEMMA LoneStep == TypeInv /\ LoneInv /\ [Next]_vars => LoneInv'
<1> SUFFICES ASSUME TypeInv, LoneInv, [Next]_vars PROVE LoneInv'
  OBVIOUS
<1>1. CASE \E d \in Ids : Open(d)
  BY <1>1, OpenLone
<1>2. CASE \/ (\E d \in Draft : Jump(d)) \/ Edit \/ (\E a \in Addr : EditCc(a))
           \/ Persist \/ HandleSend
           \/ \E f \in File : HandleFiles(f) \/ \E d \in Draft : RemoveAttachment(d, f)
           \/ HandleDiscard \/ Leave
  BY <1>2, PageLone
<1>3. CASE \E c \in calls : Serve(c) \/ Fail(c) \/ Lose(c) \/ Answer(c)
  BY <1>3, ServeLone, BrokenLone, AnswerLone
<1>4. CASE (\E d \in Draft : Take(d)) \/ Mail \/ UNCHANGED vars
  <2>1. UNCHANGED <<page, calls, excess>>
    BY <1>4 DEF Take, Mail, vars, history
  <2> QED BY <2>1, LoneKept
<1> QED BY <1>1, <1>2, <1>3, <1>4 DEF Next, Ids

(* The files are on the draft, but for those the user removed; or the      *)
(* draft is deleted.                                                       *)
Holds(d, fs) == fs \subseteq drafts[d].atts \cup binned \/ drafts[d].state = "gone"

NothingYet ==
  page.open /\ page.id = None =>
    AttachedTo(page.no) = {} /\ \A c \in calls : c.op = "upload" => c.page # page.no
FilesOfPage ==
  page.open /\ page.id # None /\ excess[page.no] = 0 =>
    /\ \A c \in calls : c.op = "upload" /\ c.page = page.no => c.id = page.id
    /\ Holds(page.id, AttachedTo(page.no))
PageFiles == NothingYet /\ FilesOfPage

UploadsHeld == \A c \in calls : c.op = "upload" /\ c.st = "ok" => Holds(c.id, c.files)
FirstSubmits == \A c \in calls : c.op = "submit" /\ c.id = None => c.files = {}
ClicksHeld == \A k \in clicks : excess[k.page] = 0 => Holds(k.id, k.files)
MailsHeld ==
  \A m \in mails :
    /\ drafts[m.id].state # "draft"
    /\ m.bare \/ drafts[m.id].atts \subseteq m.files \/ drafts[m.id].state = "gone"
AttachedInv == PageFiles /\ UploadsHeld /\ FirstSubmits /\ ClicksHeld /\ MailsHeld

(* What may become of the files of a draft: only those of a draft that was *)
(* not sent become more.                                                   *)
RowHeld(d) ==
  /\ \/ drafts'[d].state = drafts[d].state \/ drafts'[d].state = "gone"
     \/ drafts[d].state # "gone" /\ drafts'[d].state = "sent"
  /\ drafts[d].atts \subseteq drafts'[d].atts \cup binned' \/ drafts'[d].state = "gone"
  /\ drafts'[d].atts \subseteq drafts[d].atts \/ drafts[d].state = "draft"
RowsHeld == binned \subseteq binned' /\ \A d \in Draft : RowHeld(d)

LEMMA HoldsOn ==
  ASSUME RowsHeld, NEW d \in Draft, NEW fs, Holds(d, fs)
  PROVE  Holds(d, fs)'
BY DEF RowsHeld, RowHeld, Holds

LEMMA RowsStay ==
  ASSUME drafts' = drafts, binned' = binned
  PROVE  RowsHeld
BY DEF RowsHeld, RowHeld

LEMMA OthersHeld ==
  ASSUME TypeInv, AttachedInv, RowsHeld,
         excess' = excess \/ \E p : excess' = [excess EXCEPT ![p] = @ + 1],
         \A e \in calls' : e.op = "submit" /\ e.id = None => e \in calls \/ e.files = {},
         \A e \in calls' : e.op = "upload" /\ e.st = "ok" => e \in calls \/ Holds(e.id, e.files)',
         \A k \in clicks' :
           k \in clicks \/ (excess'[k.page] = 0 => Holds(k.id, k.files)'),
         mails' = mails \/ MailsHeld'
  PROVE  UploadsHeld' /\ FirstSubmits' /\ ClicksHeld' /\ MailsHeld'
<1>1. UploadsHeld'
  <2> SUFFICES ASSUME NEW c \in calls', c.op = "upload", c.st = "ok", c \in calls
               PROVE  Holds(c.id, c.files)'
    BY DEF UploadsHeld
  <2>1. c.id \in Draft /\ Holds(c.id, c.files)
    BY KindOf DEF AttachedInv, UploadsHeld, Writing
  <2> QED BY <2>1, HoldsOn
<1>2. FirstSubmits'
  BY DEF AttachedInv, FirstSubmits
<1>3. ClicksHeld'
  <2> SUFFICES ASSUME NEW k \in clicks', excess'[k.page] = 0, k \in clicks
               PROVE  Holds(k.id, k.files)'
    BY DEF ClicksHeld
  <2>1. k.id \in Draft /\ k.page \in 1..MaxPages
    <3>1. k.id \in Draft /\ k.page \in 1..page.no
      BY DEF TypeInv, ClicksOK, ClickSet
    <3> QED BY <3>1, Numbers, ComposeAssumption
  <2>2. Holds(k.id, k.files)
    BY <2>1, ExcessGrows DEF AttachedInv, ClicksHeld
  <2> QED BY <2>1, <2>2, HoldsOn
<1>4. MailsHeld'
  <2> SUFFICES ASSUME mails' = mails, NEW m \in mails
               PROVE  /\ drafts'[m.id].state # "draft"
                      /\ \/ m.bare \/ drafts'[m.id].atts \subseteq m.files
                         \/ drafts'[m.id].state = "gone"
    BY DEF MailsHeld
  <2>1. m.id \in Draft
    BY DEF TypeInv, MailsOK, MailSet
  <2>2. /\ drafts[m.id].state # "draft"
        /\ m.bare \/ drafts[m.id].atts \subseteq m.files \/ drafts[m.id].state = "gone"
    BY DEF AttachedInv, MailsHeld
  <2> QED BY <2>1, <2>2 DEF RowsHeld, RowHeld
<1> QED BY <1>1, <1>2, <1>3, <1>4

(* The page stays what it is, and so do its files.                         *)
LEMMA PageHeld ==
  ASSUME TypeInv, AttachedInv, RowsHeld,
         excess' = excess \/ \E p : excess' = [excess EXCEPT ![p] = @ + 1],
         page'.open => page.open /\ page'.no = page.no /\ page'.id = page.id, kept' = kept,
         \A e \in calls' : e.op = "upload" =>
           \/ \E c \in calls : c.op = "upload" /\ c.page = e.page /\ c.id = e.id
           \/ ~Mine(e) \/ (e.id = page.id /\ page.id # None)
  PROVE  PageFiles'
<1> SUFFICES ASSUME page'.open PROVE PageFiles'
  BY DEF PageFiles, NothingYet, FilesOfPage
<1>1. page.open /\ page'.no = page.no /\ page'.id = page.id /\ page.no \in 1..MaxPages
  BY PagesOfCalls
<1>2. AttachedTo(page.no)' = AttachedTo(page.no)
  BY <1>1 DEF AttachedTo
<1>3. NothingYet'
  <2> SUFFICES ASSUME page.id = None
               PROVE  /\ AttachedTo(page.no)' = {}
                      /\ \A e \in calls' : e.op = "upload" => e.page # page.no
    BY <1>1 DEF NothingYet
  <2>1. AttachedTo(page.no) = {} /\ \A c \in calls : c.op = "upload" => c.page # page.no
    BY <1>1 DEF AttachedInv, PageFiles, NothingYet
  <2> QED BY <1>1, <1>2, <2>1 DEF Mine
<1>4. FilesOfPage'
  <2> SUFFICES ASSUME page.id # None, excess'[page.no] = 0
               PROVE  /\ \A e \in calls' : e.op = "upload" /\ e.page = page.no => e.id = page.id
                      /\ Holds(page.id, AttachedTo(page.no))'
    BY <1>1 DEF FilesOfPage
  <2>1. excess[page.no] = 0
    BY <1>1, ExcessGrows
  <2>2. PICK d, fs : d = page.id /\ fs = AttachedTo(page.no)
    OBVIOUS
  <2>3. /\ \A c \in calls : c.op = "upload" /\ c.page = page.no => c.id = page.id
        /\ Holds(d, fs)
    BY <1>1, <2>1, <2>2 DEF AttachedInv, PageFiles, FilesOfPage
  <2>4. d \in Draft
    BY <2>2, Contents DEF Ids
  <2>5. Holds(d, fs)'
    BY <2>3, <2>4, HoldsOn
  <2>6. page'.id = d /\ AttachedTo(page.no)' = fs
    BY <1>1, <1>2, <2>2
  <2> QED BY <1>1, <2>3, <2>5, <2>6 DEF Mine, Holds
<1> QED BY <1>3, <1>4 DEF PageFiles

LEMMA OpenAttached ==
  ASSUME TypeInv, AttachedInv, NEW d \in Ids, Open(d)
  PROVE  AttachedInv'
<1>1. /\ UNCHANGED <<serverVars, clicks, kept, binned, excess>>
      /\ page'.open /\ page'.no = page.no + 1
  BY DEF Open, Blank
<1>2. PICK e : e = [Call("load", d, Empty, {}) EXCEPT !.page = page.no + 1]
  OBVIOUS
<1>3. calls' \subseteq calls \cup {e} /\ e.op = "load" /\ e.files = {}
  BY <1>2 DEF Open, Ask, Call
<1>4. RowsHeld
  BY <1>1, RowsStay DEF serverVars
<1>5. UploadsHeld' /\ FirstSubmits' /\ ClicksHeld' /\ MailsHeld'
  BY <1>1, <1>3, <1>4, OthersHeld DEF serverVars
<1>6. AttachedTo(page.no)' = {}
  <2>1. kept \subseteq (1..page.no) \X File /\ page.no + 1 \notin 1..page.no
    BY Numbers DEF TypeInv, FilesOK
  <2> QED BY <1>1, <2>1 DEF AttachedTo
<1>7. \A c \in calls' : c.op = "upload" => c.page # page'.no
  BY <1>1, <1>3, Numbers, KindOf
<1>8. Holds(page.id, AttachedTo(page.no))'
  BY <1>6 DEF Holds
<1>9. PageFiles'
  BY <1>6, <1>7, <1>8 DEF PageFiles, NothingYet, FilesOfPage
<1> QED BY <1>5, <1>9 DEF AttachedInv

(* The steps of the page that say nothing about files.                     *)
LEMMA PageAttached ==
  ASSUME TypeInv, AttachedInv,
         \/ (\E d \in Draft : Jump(d)) \/ Edit \/ (\E a \in Addr : EditCc(a)) \/ Persist
         \/ \E f \in File : \E d \in Draft : RemoveAttachment(d, f)
         \/ HandleDiscard \/ Leave
  PROVE  AttachedInv'
<1>1. /\ UNCHANGED <<serverVars, clicks, kept, binned>>
      /\ page'.open => page.open /\ page'.no = page.no /\ page'.id = page.id
      /\ excess' = excess \/ \E p : excess' = [excess EXCEPT ![p] = @ + 1]
      /\ \A e \in calls' :
           e \in calls \/ (e.op # "upload" /\ (e.op = "submit" => e.id # None \/ e.files = {}))
  <2>1. CASE \E d \in Draft : Jump(d)
    BY <2>1 DEF Jump, history, Ask, Call
  <2>2. CASE Edit \/ \E a \in Addr : EditCc(a)
    BY <2>2 DEF Edit, EditCc, history, TypeInv, PageOK
  <2>3. CASE Persist
    <3>1. page'.open = page.open /\ page'.id = page.id /\ page'.no = page.no
      BY <2>3 DEF Persist, TypeInv, PageOK
    <3>2. UNCHANGED <<calls, excess>> \/ Write("save", {})
      BY <2>3 DEF Persist
    <3> QED BY <2>3, <3>1, <3>2 DEF Persist, Write, Ask, Call
  <2>4. CASE \E f \in File : \E d \in Draft : RemoveAttachment(d, f)
    BY <2>4 DEF RemoveAttachment, history, Ask, Call
  <2>5. CASE HandleDiscard \/ Leave
    BY <2>5 DEF HandleDiscard, Leave, history, Ask, Call, Blank
  <2> QED BY <2>1, <2>2, <2>3, <2>4, <2>5
<1>2. RowsHeld
  BY <1>1, RowsStay DEF serverVars
<1>3. UploadsHeld' /\ FirstSubmits' /\ ClicksHeld' /\ MailsHeld'
  BY <1>1, <1>2, OthersHeld DEF serverVars
<1>4. PageFiles'
  BY <1>1, <1>2, PageHeld
<1> QED BY <1>3, <1>4 DEF AttachedInv

LEMMA HandleSendAttached ==
  ASSUME TypeInv, AttachedInv, HandleSend
  PROVE  AttachedInv'
<1>1. /\ UNCHANGED <<serverVars, kept, binned>> /\ page.open
      /\ page'.open = page.open /\ page'.no = page.no /\ page'.id = page.id
      /\ excess' = excess \/ excess' = [excess EXCEPT ![page.no] = @ + 1]
  BY DEF HandleSend, Write, TypeInv, PageOK
<1>2. PICK p, d, fs : p = page.no /\ d = page.id /\ fs = AttachedTo(page.no)
  OBVIOUS
<1>3. PICK e : e = Call("submit", d, Shown, fs)
  OBVIOUS
<1>4. calls' = calls \cup {e} /\ e.op = "submit" /\ e.id = d /\ e.files = fs
  BY <1>2, <1>3 DEF HandleSend, Write, Ask, Call
<1>5. RowsHeld
  BY <1>1, RowsStay DEF serverVars
<1>6. d = None => fs = {}
  BY <1>1, <1>2 DEF AttachedInv, PageFiles, NothingYet
<1>7. \A k \in clicks' : k \in clicks \/ (excess'[k.page] = 0 => Holds(k.id, k.files)')
  <2> SUFFICES ASSUME NEW k \in clicks', k \notin clicks, excess'[k.page] = 0
               PROVE  Holds(k.id, k.files)'
    OBVIOUS
  <2>1. k.id = d /\ k.page = p /\ k.files = fs /\ d # None
    BY <1>2 DEF HandleSend, Click
  <2>2. p \in 1..MaxPages
    BY <1>1, <1>2, PagesOfCalls
  <2>3. excess[p] = 0
    BY <1>1, <2>1, <2>2, ExcessGrows
  <2>4. Holds(d, fs)
    BY <1>1, <1>2, <2>1, <2>3 DEF AttachedInv, PageFiles, FilesOfPage
  <2>5. d \in Draft
    BY <1>2, <2>1, Contents DEF Ids
  <2> QED BY <1>5, <2>1, <2>4, <2>5, HoldsOn
<1>8. UploadsHeld' /\ FirstSubmits' /\ ClicksHeld' /\ MailsHeld'
  BY <1>1, <1>4, <1>5, <1>6, <1>7, OthersHeld DEF serverVars
<1>9. PageFiles'
  BY <1>1, <1>4, <1>5, PageHeld
<1> QED BY <1>8, <1>9 DEF AttachedInv

LEMMA HandleFilesAttached ==
  ASSUME TypeInv, AttachedInv, NEW f \in File, HandleFiles(f)
  PROVE  AttachedInv'
<1>1. /\ UNCHANGED <<serverVars, page, clicks, kept, binned>> /\ page.open
      /\ excess' = excess \/ excess' = [excess EXCEPT ![page.no] = @ + 1]
  BY DEF HandleFiles, Write
<1>2. \A e \in calls' :
        \/ e \in calls \/ e.op = "start"
        \/ e.op = "upload" /\ e.st = "asked" /\ e.id = page.id /\ page.id # None
  BY DEF HandleFiles, Write, Ask, Call
<1>3. RowsHeld
  BY <1>1, RowsStay DEF serverVars
<1>4. UploadsHeld' /\ FirstSubmits' /\ ClicksHeld' /\ MailsHeld'
  BY <1>1, <1>2, <1>3, OthersHeld DEF serverVars
<1>5. PageFiles'
  BY <1>1, <1>2, <1>3, PageHeld
<1> QED BY <1>4, <1>5 DEF AttachedInv

LEMMA BrokenAttached ==
  ASSUME TypeInv, AttachedInv, NEW c \in calls, Fail(c) \/ Lose(c)
  PROVE  AttachedInv'
<1>1. PICK e : e = [c EXCEPT !.st = "failed", !.what = Empty, !.files = {}]
  OBVIOUS
<1>2. e.op = c.op /\ e.id = c.id /\ e.page = c.page /\ e.st = "failed" /\ e.files = {}
  BY <1>1, KindOf DEF CallSet
<1>3. /\ UNCHANGED <<serverVars, page, clicks, kept, binned>>
      /\ calls' \subseteq calls \cup {e}
      /\ excess' = excess \/ excess' = [excess EXCEPT ![c.page] = @ + 1]
  BY <1>1 DEF Fail, Lose, Refuse, Replace, history
<1>4. RowsHeld
  BY <1>3, RowsStay DEF serverVars
<1>5. UploadsHeld' /\ FirstSubmits' /\ ClicksHeld' /\ MailsHeld'
  BY <1>2, <1>3, <1>4, OthersHeld DEF serverVars
<1>6. PageFiles'
  BY <1>2, <1>3, <1>4, PageHeld
<1> QED BY <1>5, <1>6 DEF AttachedInv

LEMMA OneRowHeld ==
  ASSUME TypeInv, NEW d \in Draft, NEW r \in RowSet, drafts' = [drafts EXCEPT ![d] = r],
         page'.no = page.no, edits' = edits, binned \subseteq binned',
         \/ r.state = drafts[d].state \/ r.state = "gone"
         \/ drafts[d].state # "gone" /\ r.state = "sent",
         drafts[d].atts \subseteq r.atts \cup binned' \/ r.state = "gone",
         r.atts \subseteq drafts[d].atts \/ drafts[d].state = "draft"
  PROVE  RowsHeld /\ drafts'[d] = r
<1>1. \A e \in Draft : drafts'[e] = IF e = d THEN r ELSE drafts[e]
  BY Amended
<1>2. ASSUME NEW e \in Draft PROVE RowHeld(e)
  <2>1. CASE e = d
    BY <1>1, <2>1 DEF RowHeld
  <2>2. CASE e # d
    BY <1>1, <2>2 DEF RowHeld
  <2> QED BY <2>1, <2>2
<1> QED BY <1>1, <1>2 DEF RowsHeld

(* The requests that change no file.                                       *)
LEMMA ServedHeld ==
  ASSUME TypeInv, AttachedInv, NEW c \in calls,
         \/ c.op = "load" /\ GetMessage(c)
         \/ c.op = "send" /\ SendDraft(c)
         \/ c.op \in Writing /\ IF c.id = None THEN CreateDraft(c) ELSE UpdateDraft(c),
         UNCHANGED <<hand, mails, page, edits, clicks, kept, excess>>
  PROVE  AttachedInv'
<1>1. PICK n : n = Len(drafts) + 1
  OBVIOUS
<1>2. /\ c.op # "upload"
      /\ \A e \in calls' : e \in calls \/ (e.op = c.op /\ (e.id = c.id /\ e.files \subseteq c.files))
  <2>1. PICK e1, e2, e3, e4, e5 :
          /\ e1 = [[c EXCEPT !.what = Content(drafts[c.id].body, drafts[c.id].cc)]
                     EXCEPT !.st = "ok"]
          /\ e2 = [c EXCEPT !.st = "failed", !.what = Empty, !.files = {}]
          /\ e3 = [c EXCEPT !.st = "ok"]
          /\ e4 = [[c EXCEPT !.of = n] EXCEPT !.st = "ok"]
          /\ e5 = [[c EXCEPT !.what = Empty, !.files = {}] EXCEPT !.st = "ok"]
    OBVIOUS
  <2>2. \A e \in {e1, e2, e3, e4, e5} : e.op = c.op /\ e.id = c.id /\ e.files \subseteq c.files
    <3>1. c \in CallSet
      BY KindOf
    <3>2. e1.op = c.op /\ e1.id = c.id /\ e1.files = c.files
      BY <2>1, <3>1 DEF CallSet
    <3>3. e2.op = c.op /\ e2.id = c.id /\ e2.files = {}
      BY <2>1, <3>1 DEF CallSet
    <3>4. e3.op = c.op /\ e3.id = c.id /\ e3.files = c.files
      BY <2>1, <3>1 DEF CallSet
    <3>5. e4.op = c.op /\ e4.id = c.id /\ e4.files = c.files
      BY <2>1, <3>1 DEF CallSet
    <3>6. e5.op = c.op /\ e5.id = c.id /\ e5.files = {}
      BY <2>1, <3>1 DEF CallSet
    <3> QED BY <3>2, <3>3, <3>4, <3>5, <3>6
  <2>3. calls' \subseteq calls \cup {e1, e2, e3, e4, e5}
    BY <1>1, <2>1 DEF GetMessage, SendDraft, CreateDraft, UpdateDraft, Reply, Refuse, Replace
  <2> QED BY <2>2, <2>3 DEF Writing
<1>3. RowsHeld /\ binned' = binned
  <2>1. CASE drafts' = drafts
    BY <2>1, RowsStay DEF GetMessage, SendDraft, CreateDraft, UpdateDraft
  <2>2. CASE c.op \in Writing /\ c.id = None
    <3>1. CreateDraft(c)
      BY <2>2 DEF Writing
    <3>2. \A d \in Draft : drafts'[d] = drafts[d]
      BY <3>1, Appended
    <3> QED BY <3>1, <3>2 DEF CreateDraft, RowsHeld, RowHeld
  <2>3. CASE c.op \in Writing /\ c.id # None /\ drafts' # drafts
    <3>1. UpdateDraft(c)
      BY <2>3 DEF Writing
    <3>2. Stored(c.id) /\ binned' = binned
      BY <2>3, <3>1 DEF UpdateDraft
    <3>3. PICK r \in RowSet :
            /\ drafts' = [drafts EXCEPT ![c.id] = r]
            /\ r.state = drafts[c.id].state /\ r.atts = drafts[c.id].atts
      BY <2>3, <3>1, <3>2, UpdateRow
    <3>4. page'.no = page.no /\ c.id \in Draft
      BY <2>3, KindOf
    <3> QED BY <3>2, <3>3, <3>4, OneRowHeld
  <2> QED BY <2>1, <2>2, <2>3 DEF GetMessage, SendDraft, Writing
<1>4. \A e \in calls' : e.op = "submit" /\ e.id = None => e \in calls \/ e.files = {}
  BY <1>2 DEF AttachedInv, FirstSubmits
<1>5. \A e \in calls' : e.op = "upload" => e \in calls
  BY <1>2
<1>6. UploadsHeld' /\ FirstSubmits' /\ ClicksHeld' /\ MailsHeld'
  BY <1>3, <1>4, <1>5, OthersHeld
<1>7. PageFiles'
  BY <1>3, <1>5, PageHeld
<1> QED BY <1>6, <1>7 DEF AttachedInv

LEMMA UploadHeld ==
  ASSUME TypeInv, AttachedInv, NEW c \in calls, c.op = "upload", UploadAttachment(c),
         UNCHANGED <<hand, mails, page, edits, clicks, kept, excess>>
  PROVE  AttachedInv'
<1>1. PICK d \in Draft : d = c.id
  BY KindOf DEF Writing
<1>2. PICK e, g : /\ e = [c EXCEPT !.st = "ok"]
                  /\ g = [c EXCEPT !.st = "failed", !.what = Empty, !.files = {}]
  OBVIOUS
<1>3. /\ e.op = "upload" /\ e.id = d /\ e.page = c.page /\ e.files = c.files
      /\ g.op = "upload" /\ g.id = d /\ g.page = c.page /\ g.st = "failed"
  BY <1>1, <1>2, KindOf DEF CallSet
<1>4. RowsHeld /\ \/ calls' = (calls \ {c}) \cup {g}
                  \/ calls' = (calls \ {c}) \cup {e} /\ Holds(d, c.files)'
  <2>1. CASE IsDraft(d)
    <3>1. PICK r : r = [drafts[d] EXCEPT !.atts = @ \cup c.files]
      OBVIOUS
    <3>2. drafts[d] \in RowSet /\ c.files \subseteq File
      BY Rows, KindOf
    <3>3. r \in RowSet /\ r.atts = drafts[d].atts \cup c.files /\ r.state = drafts[d].state
      BY <3>1, <3>2 DEF RowSet
    <3>4. /\ drafts' = [drafts EXCEPT ![d] = r] /\ binned' = binned
          /\ calls' = (calls \ {c}) \cup {e}
      BY <1>1, <1>2, <2>1, <3>1 DEF UploadAttachment, Reply, Replace
    <3>5. page'.no = page.no /\ drafts[d].state = "draft"
      BY <2>1 DEF IsDraft
    <3>6. RowsHeld /\ drafts'[d] = r
      BY <3>3, <3>4, <3>5, OneRowHeld
    <3> QED BY <3>3, <3>4, <3>6 DEF Holds
  <2>2. CASE ~IsDraft(d)
    BY <1>1, <1>2, <2>2, RowsStay DEF UploadAttachment, Refuse, Replace
  <2> QED BY <2>1, <2>2
<1>5. UploadsHeld' /\ FirstSubmits' /\ ClicksHeld' /\ MailsHeld'
  BY <1>3, <1>4, OthersHeld
<1>6. PageFiles'
  BY <1>1, <1>3, <1>4, PageHeld
<1> QED BY <1>5, <1>6 DEF AttachedInv

LEMMA DeleteHeld ==
  ASSUME TypeInv, AttachedInv, NEW c \in calls,
         \/ c.op = "remove" /\ DeleteAttachment(c)
         \/ c.op = "discard" /\ DeleteMessage(c),
         UNCHANGED <<hand, mails, page, edits, clicks, kept, excess>>
  PROVE  AttachedInv'
<1>1. PICK d \in Draft : d = c.id
  BY KindOf DEF Writing
<1>2. \A e \in calls' : e \in calls \/ e.op = "discard"
  <2>1. PICK e : e = [c EXCEPT !.st = "ok"]
    OBVIOUS
  <2>2. e.op = c.op
    BY <2>1, KindOf DEF CallSet
  <2> QED BY <2>1, <2>2 DEF DeleteAttachment, DeleteMessage, Reply, Replace
<1>3. drafts[d] \in RowSet /\ page'.no = page.no
  BY Rows
<1>4. RowsHeld
  <2>1. CASE drafts' = drafts /\ binned' = binned
    BY <2>1, RowsStay
  <2>2. CASE c.op = "remove" /\ drafts' = [drafts EXCEPT ![c.id].atts = @ \ c.files]
             /\ binned' = binned \cup c.files
    <3>1. PICK r : r = [drafts[d] EXCEPT !.atts = @ \ c.files]
      OBVIOUS
    <3>2. r \in RowSet /\ r.atts = drafts[d].atts \ c.files /\ r.state = drafts[d].state
      BY <1>3, <3>1 DEF RowSet
    <3>3. drafts' = [drafts EXCEPT ![d] = r]
      BY <1>1, <2>2, <3>1
    <3> QED BY <1>3, <2>2, <3>2, <3>3, OneRowHeld
  <2>3. CASE c.op = "discard"
    <3>1. PICK r : r = [drafts[d] EXCEPT !.state = "gone", !.atts = {}]
      OBVIOUS
    <3>2. r \in RowSet /\ r.atts = {} /\ r.state = "gone"
      BY <1>3, <3>1 DEF RowSet
    <3>3. drafts' = [drafts EXCEPT ![d] = r] /\ binned' = binned
      BY <1>1, <2>3, <3>1 DEF DeleteMessage
    <3> QED BY <1>3, <3>2, <3>3, OneRowHeld
  <2> QED BY <2>1, <2>2, <2>3 DEF DeleteAttachment
<1>5. UploadsHeld' /\ FirstSubmits' /\ ClicksHeld' /\ MailsHeld'
  BY <1>2, <1>4, OthersHeld
<1>6. PageFiles'
  BY <1>2, <1>4, PageHeld
<1> QED BY <1>5, <1>6 DEF AttachedInv

LEMMA ServeAttached ==
  ASSUME TypeInv, AttachedInv, NEW c \in calls, Serve(c)
  PROVE  AttachedInv'
<1>1. /\ Handle(c) /\ c.op \in Op
      /\ UNCHANGED <<hand, mails, page, edits, clicks, kept, excess>>
  BY KindOf DEF Serve
<1>2. CASE c.op = "upload"
  <2>1. UploadAttachment(c)
    BY <1>1, <1>2 DEF Handle, Writing
  <2> QED BY <1>1, <1>2, <2>1, UploadHeld
<1>3. CASE c.op \in {"remove", "discard"}
  <2>1. \/ c.op = "remove" /\ DeleteAttachment(c)
        \/ c.op = "discard" /\ DeleteMessage(c)
    BY <1>1, <1>3 DEF Handle, Writing
  <2> QED BY <1>1, <2>1, DeleteHeld
<1>4. CASE c.op \in Writing \cup {"load", "send"}
  <2>1. \/ c.op = "load" /\ GetMessage(c)
        \/ c.op = "send" /\ SendDraft(c)
        \/ c.op \in Writing /\ IF c.id = None THEN CreateDraft(c) ELSE UpdateDraft(c)
    BY <1>1, <1>4 DEF Handle, Writing
  <2> QED BY <1>1, <2>1, ServedHeld
<1> QED BY <1>1, <1>2, <1>3, <1>4 DEF Op, Writing

(* The page learns of its draft: unless its excess says so, it knew of     *)
(* none, and has no files yet.                                             *)
LEMMA AdoptAttached ==
  ASSUME TypeInv, LoneInv, AttachedInv, NEW c \in calls, Creation(c), c.st = "ok",
         NEW cs, Adopt(c, c.of, cs),
         \A e \in cs : \/ e.op = "send"
                       \/ e.op = "upload" /\ e.st = "asked" /\ e.id = c.of /\ e.page = c.page,
         UNCHANGED <<drafts, mails, kept, binned, excess>>,
         clicks' = clicks \/ \E k : clicks' = clicks \cup {k} /\ k.files = {}
  PROVE  AttachedInv'
<1>1. calls' = (calls \ {c}) \cup cs /\ RowsHeld
  BY RowsStay DEF Adopt, Then
<1>2. UploadsHeld' /\ FirstSubmits' /\ ClicksHeld' /\ MailsHeld'
  <2>1. \A k \in clicks' : k \in clicks \/ (excess'[k.page] = 0 => Holds(k.id, k.files)')
    BY DEF Holds
  <2> QED BY <1>1, <2>1, OthersHeld
<1>3. CASE ~Mine(c)
  <2>1. page' = page
    BY <1>3 DEF Adopt
  <2>2. PageFiles'
    BY <1>1, <1>3, <2>1, PageHeld DEF Mine
  <2> QED BY <1>2, <2>2 DEF AttachedInv
<1>4. CASE Mine(c)
  <2>1. page.open /\ page.no = c.page /\ c.of # None /\ page.no \in 1..MaxPages
    BY <1>4, PagesOfCalls, Brought, Numbers DEF Mine, Creation
  <2>2. page'.no = page.no /\ page'.id = c.of
    BY <1>4 DEF Adopt, TypeInv, PageOK
  <2>3. NothingYet'
    BY <2>1, <2>2 DEF NothingYet
  <2>4. FilesOfPage'
    <3> SUFFICES ASSUME excess[page.no] = 0
                 PROVE  /\ \A e \in calls' : e.op = "upload" /\ e.page = page.no => e.id = c.of
                        /\ Holds(page.id, AttachedTo(page.no))'
      BY <2>2 DEF FilesOfPage
    <3>1. page.id = None
      BY <2>1 DEF LoneInv, NoneWhileKnown, Alive
    <3>2. AttachedTo(page.no) = {} /\ \A e \in calls : e.op = "upload" => e.page # page.no
      BY <2>1, <3>1 DEF AttachedInv, PageFiles, NothingYet
    <3>3. AttachedTo(page.no)' = {}
      BY <2>2, <3>2 DEF AttachedTo
    <3> QED BY <1>1, <3>2, <3>3 DEF Holds
  <2> QED BY <1>2, <2>3, <2>4 DEF AttachedInv, PageFiles
<1> QED BY <1>3, <1>4

(* The page is told that its file was taken: it is on the page's draft.    *)
LEMMA UploadedAttached ==
  ASSUME TypeInv, AttachedInv, NEW c \in calls, Uploaded(c),
         UNCHANGED <<serverVars, binned, excess>>
  PROVE  AttachedInv'
<1>1. /\ calls' = calls \ {c} /\ UNCHANGED <<page, clicks, drafts, mails>> /\ c.op = "upload"
      /\ kept' = IF c.st = "ok" THEN kept \cup ({c.page} \X c.files) ELSE kept
  BY DEF Uploaded, Then, serverVars
<1>2. RowsHeld
  BY <1>1, RowsStay
<1>3. UploadsHeld' /\ FirstSubmits' /\ ClicksHeld' /\ MailsHeld'
  BY <1>1, <1>2, OthersHeld
<1>4. CASE ~(Mine(c) /\ c.st = "ok")
  <2> SUFFICES ASSUME page.open PROVE PageFiles'
    BY <1>1, <1>3 DEF AttachedInv, PageFiles, NothingYet, FilesOfPage
  <2>1. AttachedTo(page.no)' = AttachedTo(page.no)
    BY <1>1, <1>4 DEF AttachedTo, Mine
  <2> QED BY <1>1, <2>1 DEF AttachedInv, PageFiles, NothingYet, FilesOfPage, Holds
<1>5. CASE Mine(c) /\ c.st = "ok"
  <2>1. page.open /\ c.page = page.no /\ c.files \subseteq File /\ page.id # None
    BY <1>1, <1>5, KindOf DEF Mine, AttachedInv, PageFiles, NothingYet
  <2>2. NothingYet'
    BY <1>1, <2>1 DEF NothingYet
  <2>3. FilesOfPage'
    <3> SUFFICES ASSUME excess[page.no] = 0
                 PROVE  /\ \A e \in calls' : e.op = "upload" /\ e.page = page.no => e.id = page.id
                        /\ Holds(page.id, AttachedTo(page.no))'
      BY <1>1 DEF FilesOfPage
    <3>1. /\ \A e \in calls : e.op = "upload" /\ e.page = page.no => e.id = page.id
          /\ Holds(page.id, AttachedTo(page.no))
      BY <2>1 DEF AttachedInv, PageFiles, FilesOfPage
    <3>2. Holds(page.id, c.files)
      BY <1>1, <1>5, <2>1, <3>1 DEF AttachedInv, UploadsHeld
    <3>3. AttachedTo(page.no)' = AttachedTo(page.no) \cup c.files
      BY <1>1, <1>5, <2>1 DEF AttachedTo
    <3> QED BY <1>1, <3>1, <3>2, <3>3 DEF Holds
  <2> QED BY <1>3, <2>2, <2>3 DEF AttachedInv, PageFiles
<1> QED BY <1>4, <1>5

LEMMA AnswerAttached ==
  ASSUME TypeInv, LoneInv, AttachedInv, NEW c \in calls, Answer(c)
  PROVE  AttachedInv'
<1>1. UNCHANGED <<serverVars, drafts, mails, binned, excess>>
  BY DEF Answer, serverVars
<1>2. PICK e, u : /\ e = [Call("send", IF c.id = None THEN c.of ELSE c.id, Empty, {})
                            EXCEPT !.page = c.page]
                  /\ u = [Call("upload", c.of, Empty, c.files) EXCEPT !.page = c.page]
  OBVIOUS
<1>3. e.op = "send" /\ u.op = "upload" /\ u.st = "asked" /\ u.id = c.of /\ u.page = c.page
  BY <1>2 DEF Call
<1>4. ASSUME NEW cs, \A f \in cs : f = e, Then(c, cs), kept' = kept, clicks' = clicks,
             page'.open => page.open /\ page'.no = page.no /\ page'.id = page.id
      PROVE  AttachedInv'
  <2>1. RowsHeld /\ \A f \in calls' : f \in calls \/ f.op = "send"
    BY <1>1, <1>3, <1>4, RowsStay DEF Then
  <2>2. UploadsHeld' /\ FirstSubmits' /\ ClicksHeld' /\ MailsHeld'
    BY <1>1, <1>4, <2>1, OthersHeld
  <2>3. PageFiles'
    BY <1>1, <1>4, <2>1, PageHeld
  <2> QED BY <2>2, <2>3 DEF AttachedInv
<1>5. CASE Loaded(c)
  BY <1>4, <1>5 DEF Loaded, TypeInv, PageOK
<1>6. CASE Saved(c)
  <2>1. CASE c.id = None
    <3>1. Adopt(c, c.of, {}) /\ Creation(c) /\ c.st = "ok" /\ UNCHANGED <<kept, clicks>>
      BY <1>6, <2>1 DEF Saved, Creation, Writing
    <3> QED BY <1>1, <3>1, AdoptAttached
  <2>2. CASE c.id # None
    BY <1>4, <1>6, <2>2 DEF Saved
  <2> QED BY <2>1, <2>2
<1>7. CASE Submitted(c)
  <2>1. CASE c.id = None
    <3>1. PICK k : k = Click(c.of, c.page, c.what, c.files)
      OBVIOUS
    <3>2. /\ Adopt(c, c.of, {e}) /\ Creation(c) /\ c.st = "ok" /\ kept' = kept
          /\ clicks' = clicks \cup {k}
      BY <1>2, <1>7, <2>1, <3>1 DEF Submitted, Creation, Writing
    <3>3. k.files = {}
      BY <1>7, <2>1, <3>1 DEF Submitted, Click, AttachedInv, FirstSubmits
    <3>4. \E v : clicks' = clicks \cup {v} /\ v.files = {}
      BY <3>2, <3>3
    <3>5. \A f \in {e} : f.op = "send"
      BY <1>3
    <3> QED BY <1>1, <3>2, <3>4, <3>5, AdoptAttached
  <2>2. CASE c.id # None
    <3>1. Then(c, {e}) /\ UNCHANGED <<page, kept, clicks>>
      BY <1>2, <1>7, <2>2 DEF Submitted
    <3> QED BY <1>4, <3>1
  <2> QED BY <2>1, <2>2
<1>8. CASE Started(c)
  <2>1. /\ Adopt(c, c.of, {u}) /\ Creation(c) /\ c.st = "ok" /\ UNCHANGED <<kept, clicks>>
    BY <1>2, <1>8 DEF Started, Creation, Writing, TypeInv, CallsOK, CallOK
  <2> QED BY <1>1, <1>3, <2>1, AdoptAttached
<1>9. CASE Uploaded(c)
  BY <1>1, <1>9, UploadedAttached
<1>10. CASE Sent(c) \/ NotSent(c) \/ Discarded(c) \/ GivenUp(c)
  <2>1. Then(c, {}) /\ (page'.open => page.open /\ page'.no = page.no /\ page'.id = page.id)
    BY <1>10, OtherAnswers DEF Blank, TypeInv, PageOK
  <2>2. UNCHANGED <<kept, clicks>>
    BY <1>10 DEF Sent, NotSent, Discarded, GivenUp
  <2> QED BY <1>4, <2>1, <2>2
<1> QED BY <1>5, <1>6, <1>7, <1>8, <1>9, <1>10 DEF Answer

(* The mail has the files its draft has, or is sent without.               *)
LEMMA MailAttached ==
  ASSUME TypeInv, AttachedInv, Mail
  PROVE  AttachedInv'
<1>1. hand # Nobody /\ UNCHANGED <<page, calls, edits, clicks, kept, binned, excess>>
  BY DEF Mail, history
<1>2. PICK d \in Draft : d = hand.id
  BY <1>1 DEF TypeInv, HandOK, Ids
<1>3. PICK bare \in BOOLEAN :
        mails' = mails \cup {[id |-> hand.id, body |-> hand.body, bare |-> bare,
                              files |-> IF bare THEN {} ELSE drafts[hand.id].atts]}
  BY DEF Mail
<1>4. PICK m : m = [id |-> hand.id, body |-> hand.body, bare |-> bare,
                    files |-> IF bare THEN {} ELSE drafts[hand.id].atts]
  OBVIOUS
<1>5. /\ mails' = mails \cup {m} /\ m.id = d
      /\ m.bare \/ m.files = drafts[d].atts
  BY <1>2, <1>3, <1>4
<1>6. drafts[d] \in RowSet /\ page'.no = page.no
  BY <1>1, Rows
<1>7. RowsHeld /\ drafts'[d].state # "draft" /\ drafts'[d].atts = drafts[d].atts
  <2>1. CASE Stored(d)
    <3>1. PICK r : r = [drafts[d] EXCEPT !.state = "sent"]
      OBVIOUS
    <3>2. r \in RowSet /\ r.atts = drafts[d].atts /\ r.state = "sent"
      BY <1>6, <3>1 DEF RowSet
    <3>3. drafts' = [drafts EXCEPT ![d] = r] /\ drafts[d].state # "gone"
      BY <1>2, <2>1, <3>1 DEF Mail, Stored
    <3>4. RowsHeld /\ drafts'[d] = r
      BY <1>1, <1>6, <3>2, <3>3, OneRowHeld
    <3> QED BY <3>2, <3>4
  <2>2. CASE ~Stored(d)
    BY <1>1, <1>2, <2>2, RowsStay DEF Mail, Stored
  <2> QED BY <2>1, <2>2
<1>8. MailsHeld'
  <2> SUFFICES ASSUME NEW n \in mails'
               PROVE  /\ drafts'[n.id].state # "draft"
                      /\ \/ n.bare \/ drafts'[n.id].atts \subseteq n.files
                         \/ drafts'[n.id].state = "gone"
    BY DEF MailsHeld
  <2>1. CASE n = m
    BY <1>5, <1>7, <2>1
  <2>2. CASE n \in mails
    <3>1. n.id \in Draft
      BY <2>2 DEF TypeInv, MailsOK, MailSet
    <3>2. /\ drafts[n.id].state # "draft"
          /\ n.bare \/ drafts[n.id].atts \subseteq n.files \/ drafts[n.id].state = "gone"
      BY <2>2 DEF AttachedInv, MailsHeld
    <3> QED BY <1>7, <3>1, <3>2 DEF RowsHeld, RowHeld
  <2> QED BY <1>5, <2>1, <2>2
<1>9. UploadsHeld' /\ FirstSubmits' /\ ClicksHeld'
  BY <1>1, <1>7, <1>8, OthersHeld
<1>10. PageFiles'
  BY <1>1, <1>7, PageHeld
<1> QED BY <1>8, <1>9, <1>10 DEF AttachedInv

LEMMA AttachedStep == TypeInv /\ LoneInv /\ AttachedInv /\ [Next]_vars => AttachedInv'
<1> SUFFICES ASSUME TypeInv, LoneInv, AttachedInv, [Next]_vars PROVE AttachedInv'
  OBVIOUS
<1>1. CASE \E d \in Ids : Open(d)
  BY <1>1, OpenAttached
<1>2. CASE \/ (\E d \in Draft : Jump(d)) \/ Edit \/ (\E a \in Addr : EditCc(a)) \/ Persist
           \/ \E f \in File : \E d \in Draft : RemoveAttachment(d, f)
           \/ HandleDiscard \/ Leave
  BY <1>2, PageAttached
<1>3. CASE HandleSend \/ \E f \in File : HandleFiles(f)
  BY <1>3, HandleSendAttached, HandleFilesAttached
<1>4. CASE \E c \in calls : Serve(c) \/ Fail(c) \/ Lose(c) \/ Answer(c)
  BY <1>4, ServeAttached, BrokenAttached, AnswerAttached
<1>5. CASE Mail
  BY <1>5, MailAttached
<1>6. CASE (\E d \in Draft : Take(d)) \/ UNCHANGED vars
  <2>1. UNCHANGED <<drafts, mails, page, calls, clicks, kept, binned, excess>>
    BY <1>6 DEF Take, vars, serverVars, history
  <2>2. RowsHeld
    BY <2>1, RowsStay
  <2>3. UploadsHeld' /\ FirstSubmits' /\ ClicksHeld' /\ MailsHeld'
    BY <2>1, <2>2, OthersHeld
  <2>4. PageFiles'
    BY <2>1, <2>2, PageHeld
  <2> QED BY <2>3, <2>4 DEF AttachedInv
<1> QED BY <1>1, <1>2, <1>3, <1>4, <1>5, <1>6 DEF Next, Ids

LEMMA SendingInit == Init => TextInv /\ LoneInv /\ AttachedInv
<1> SUFFICES ASSUME Init PROVE TextInv /\ LoneInv /\ AttachedInv
  OBVIOUS
<1>1. /\ calls = {} /\ clicks = {} /\ mails = {} /\ hand = Nobody /\ page.open = FALSE
      /\ jobs = [d \in 1..MaxDrafts |-> 0]
  BY DEF Init, Blank
<1>2. Draft \subseteq 1..MaxDrafts
  BY InitTypes, Numbers
<1>3. \A d \in Draft : ~Going(d) /\ ~Pledged(d)
  BY <1>1, <1>2 DEF Going, Pledged
<1>4. TextInv
  BY <1>1, <1>3 DEF TextInv, SubmitsClicked, NoStraySave, RowsClicked, MadeClicked, ReadClicked,
                    OutClicked
<1>5. LoneInv /\ AttachedInv
  BY <1>1 DEF LoneInv, NoneWhileKnown, OneAtATime, AttachedInv, PageFiles, NothingYet,
              FilesOfPage, UploadsHeld, FirstSubmits, ClicksHeld, MailsHeld
<1> QED BY <1>4, <1>5

(* What is mailed is what the page showed when the user pressed Send, and  *)
(* with the files it had reported as attached: whatever overlaps, fails or *)
(* is lost, and except as MailedAsClicked says.                            *)
THEOREM SentAsClicked == Spec => []MailedAsClicked
<1>1. Init => TypeInv /\ TextInv /\ LoneInv /\ AttachedInv
  BY InitTypes, SendingInit
<1>2. /\ TypeInv /\ TextInv /\ LoneInv /\ AttachedInv
      /\ [Next]_vars
      => (TypeInv /\ TextInv /\ LoneInv /\ AttachedInv)'
  BY TypeStep, TextStep, LoneStep, AttachedStep
<1>3. TypeInv /\ TextInv /\ AttachedInv => MailedAsClicked
  <2> SUFFICES ASSUME TypeInv, TextInv, AttachedInv, NEW m \in mails
               PROVE  /\ m.id \in raced \/ \E k \in clicks : k.id = m.id /\ k.body = m.body
                      /\ \A k \in clicks : k.id = m.id =>
                           \/ k.files \subseteq m.files \cup binned
                           \/ excess[k.page] > 0 \/ m.bare \/ drafts[m.id].state = "gone"
    BY DEF MailedAsClicked
  <2>1. m.id \in raced \/ \E k \in clicks : k.id = m.id /\ k.body = m.body
    BY DEF TextInv, OutClicked, ClickedAs
  <2>2. ASSUME NEW k \in clicks, k.id = m.id, ~(excess[k.page] > 0)
        PROVE  \/ k.files \subseteq m.files \cup binned
               \/ m.bare \/ drafts[m.id].state = "gone"
    <3>1. excess[k.page] = 0
      <4>1. k.page \in 1..page.no
        BY DEF TypeInv, ClicksOK, ClickSet
      <4>2. k.page \in 1..MaxPages
        BY <4>1, Numbers, ComposeAssumption
      <4>3. excess[k.page] \in Nat
        BY <4>2 DEF TypeInv, HistoryOK
      <4> QED BY <2>2, <4>3
    <3>2. Holds(k.id, k.files)
      BY <3>1 DEF AttachedInv, ClicksHeld
    <3> QED BY <2>2, <3>2 DEF AttachedInv, MailsHeld, Holds
  <2> QED BY <2>1, <2>2
<1> QED BY <1>1, <1>2, <1>3, PTL DEF Spec
=============================================================================
