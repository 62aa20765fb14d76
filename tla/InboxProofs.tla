---------------------------- MODULE InboxProofs ----------------------------
(***************************************************************************)
(* Proofs about Inbox, for any labels, page size and bounds: its type      *)
(* invariant, ListTells, ActsOnShown and FlagsSettle.                      *)
(***************************************************************************)
EXTENDS Inbox, TLAPS, FiniteSetTheorems, SequenceTheorems

Ids == Msg \cup {None}
MailSet == [label : Label, star : BOOLEAN, read : BOOLEAN, gone : BOOLEAN]
AnswerSet == [rows : SUBSET RowSet, total : 0..MaxMsgs]
PageSet ==
  [no : 1..MaxPages, at : {"list", "view"}, place : Place, offset : 0..MaxMsgs,
   rows : SUBSET RowSet, total : 0..MaxMsgs, ticks : SUBSET TickSet, id : Ids,
   msg : RowSet \cup {NoMsg}, loading : BOOLEAN, mixed : BOOLEAN]
CallSet ==
  [op : Op, page : 1..MaxPages, id : Ids, place : Place, offset : 0..MaxMsgs,
   ticks : SUBSET TickSet, on : BOOLEAN, seen : Ids, mixed : BOOLEAN, tag : {1, 2},
   st : {"asked", "ok", "failed"}, ans : AnswerSet]

(* A request about a message names one there is, and so does the page of a *)
(* message; the star of a message is clicked while one is shown.           *)
CallOK(c) ==
  /\ c \in CallSet /\ c.page <= page.no
  /\ c.op \notin {"list", "batch"} => c.id \in Msg
  /\ c.op = "starView" => c.seen \in Msg
  /\ c.op = "list" => Cardinality(c.ans.rows) <= Limit

(* TypeOK, part by part.                                                   *)
MailOK == mail \in Seq(MailSet) /\ Len(mail) <= MaxMsgs
StreamOK == stream \in BOOLEAN /\ event \in BOOLEAN /\ (event => stream) /\ news \in BOOLEAN
PageOK ==
  page \in PageSet /\ Cardinality(page.rows) <= Limit /\ (page.at = "view" => page.id \in Msg)
CallsOK == IsFiniteSet(calls) /\ \A c \in calls : CallOK(c)
CountsOK == turns \in 0..MaxTurns /\ wish \in [1..MaxMsgs -> {"none", "on", "off"}]
TypeInv == MailOK /\ StreamOK /\ PageOK /\ CallsOK /\ CountsOK

-----------------------------------------------------------------------------
(* What a list holds                                                       *)

LEMMA Numbers ==
  ASSUME TypeInv
  PROVE  /\ Len(mail) \in Nat /\ None \notin Msg /\ Msg \subseteq 1..MaxMsgs
         /\ IsFiniteSet(Msg) /\ Cardinality(Msg) <= MaxMsgs
         /\ page.no \in 1..MaxPages /\ 1 \in 1..MaxPages /\ 0 \in 0..MaxMsgs
         /\ \A m \in Msg : mail[m] \in MailSet
<1>1. mail \in Seq(MailSet) /\ Len(mail) <= MaxMsgs
  BY DEF TypeInv, MailOK
<1>2. Len(mail) \in Nat /\ \A m \in Msg : mail[m] \in MailSet
  BY <1>1, LenProperties DEF Msg
<1>3. None \notin Msg /\ Msg \subseteq 1..MaxMsgs
  BY <1>1, <1>2, InboxAssumption DEF None, Msg
<1>4. IsFiniteSet(Msg) /\ Cardinality(Msg) <= MaxMsgs
  BY <1>1, <1>2, FS_Interval DEF Msg
<1>5. page.no \in 1..MaxPages /\ 1 \in 1..MaxPages /\ 0 \in 0..MaxMsgs
  BY InboxAssumption DEF TypeInv, PageOK, PageSet
<1> QED BY <1>2, <1>3, <1>4, <1>5

(* Of two messages of a list, the older one has more newer ones.           *)
LEMMA NewerDiffers ==
  ASSUME TypeInv, NEW p, NEW m \in Listed(p), NEW n \in Listed(p), m # n
  PROVE  Newer(p, m) # Newer(p, n) /\ Newer(p, m) \in Nat
<1>1. IsFiniteSet(Listed(p)) /\ \A x \in Listed(p) : x \in Nat
  <2>1. Listed(p) \subseteq Msg
    BY DEF Listed
  <2>2. IsFiniteSet(Listed(p))
    BY <2>1, Numbers, FS_Subset
  <2> QED BY <2>1, <2>2, Numbers
<1>2. ASSUME NEW x \in Listed(p), NEW y \in Listed(p), x < y
      PROVE  Newer(p, y) < Newer(p, x) /\ Newer(p, x) \in Nat /\ Newer(p, y) \in Nat
  <2>1. PICK X, Y : X = {z \in Listed(p) : z > x} /\ Y = {z \in Listed(p) : z > y}
    OBVIOUS
  <2>2. IsFiniteSet(X) /\ Y \subseteq X /\ X # Y
    <3>1. IsFiniteSet(X)
      BY <1>1, <2>1, FS_Subset
    <3>2. Y \subseteq X
      BY <1>1, <1>2, <2>1
    <3>3. y \in X /\ y \notin Y
      BY <1>1, <1>2, <2>1
    <3> QED BY <3>1, <3>2, <3>3
  <2>3. Cardinality(Y) <= Cardinality(X) /\ Cardinality(X) # Cardinality(Y)
    BY <2>2, FS_Subset
  <2>4. Cardinality(X) \in Nat /\ Cardinality(Y) \in Nat
    BY <2>2, FS_Subset, FS_CardinalityType
  <2> QED BY <2>1, <2>3, <2>4 DEF Newer
<1>3. m < n \/ n < m
  BY <1>1
<1> QED BY <1>2, <1>3

(* A page of the list has no more than Limit rows.                         *)
LEMMA RowsOK ==
  ASSUME TypeInv, NEW p \in Place, NEW o \in Nat
  PROVE  /\ Rows(p, o) \subseteq RowSet /\ Cardinality(Rows(p, o)) <= Limit
         /\ Cardinality(Listed(p)) \in 0..MaxMsgs
<1>1. PICK N : N = {n \in Listed(p) : Newer(p, n) \in o..(o + Limit - 1)}
  OBVIOUS
<1>2. /\ Listed(p) \subseteq Msg /\ N \subseteq Listed(p) /\ IsFiniteSet(Listed(p))
      /\ IsFiniteSet(N)
  <2>1. Listed(p) \subseteq Msg /\ N \subseteq Listed(p)
    BY <1>1 DEF Listed
  <2> QED BY <2>1, Numbers, FS_Subset
<1>3. Rows(p, o) = {Row(m) : m \in N}
  BY <1>1 DEF Rows
<1>4. Rows(p, o) \subseteq RowSet
  BY <1>2, <1>3, Numbers DEF Row, RowSet, MailSet
<1>5. Cardinality(N) <= Limit
  <2>1. PICK T : T = o..(o + Limit - 1)
    OBVIOUS
  <2>2. IsFiniteSet(T) /\ Cardinality(T) = Limit
    BY <2>1, InboxAssumption, FS_Interval
  <2>3. PICK f : f = [n \in N |-> Newer(p, n)]
    OBVIOUS
  <2>4. f \in Injection(N, T)
    <3>1. f \in [N -> T]
      BY <1>1, <2>1, <2>3
    <3>2. \A x, y \in N : x # y => f[x] # f[y]
      BY <1>2, <2>3, NewerDiffers
    <3> QED BY <3>1, <3>2 DEF Injection, IsInjective
  <2> QED BY <2>2, <2>4, FS_Injection
<1>6. Cardinality(Rows(p, o)) <= Cardinality(N)
  <2>1. PICK g : g = [n \in N |-> Row(n)]
    OBVIOUS
  <2>2. g \in Surjection(N, Rows(p, o))
    BY <1>3, <2>1 DEF Surjection
  <2> QED BY <1>2, <2>2, FS_Surjection
<1>7. Cardinality(Rows(p, o)) \in Nat /\ Cardinality(N) \in Nat
  <2>1. PICK g : g = [n \in N |-> Row(n)]
    OBVIOUS
  <2>2. g \in Surjection(N, Rows(p, o))
    BY <1>3, <2>1 DEF Surjection
  <2>3. IsFiniteSet(Rows(p, o))
    BY <1>2, <2>2, FS_Surjection
  <2> QED BY <1>2, <2>3, FS_CardinalityType
<1>8. Cardinality(Listed(p)) \in 0..MaxMsgs
  <2>1. Cardinality(Listed(p)) <= Cardinality(Msg)
    BY <1>2, Numbers, FS_Subset
  <2>2. Cardinality(Listed(p)) \in Nat /\ Cardinality(Msg) \in Nat
    BY <1>2, Numbers, FS_CardinalityType
  <2> QED BY <2>1, <2>2, Numbers, InboxAssumption
<1> QED BY <1>4, <1>5, <1>6, <1>7, <1>8, InboxAssumption

-----------------------------------------------------------------------------
(* What a step keeps                                                       *)

(* The sets grow with the mailbox.                                         *)
LEMMA SetsGrow ==
  ASSUME TypeInv, MailOK', Len(mail) <= Len(mail')
  PROVE  /\ Msg \subseteq Msg' /\ Ids \subseteq Ids' /\ RowSet \subseteq RowSet'
         /\ TickSet \subseteq TickSet' /\ AnswerSet \subseteq AnswerSet'
         /\ PageSet \subseteq PageSet' /\ CallSet \subseteq CallSet'
<1>1. Msg \subseteq Msg'
  <2>1. Len(mail) \in Nat /\ Len(mail') \in Nat
    BY LenProperties DEF TypeInv, MailOK
  <2> QED BY <2>1 DEF Msg
<1>2. Ids \subseteq Ids' /\ RowSet \subseteq RowSet' /\ TickSet \subseteq TickSet'
  BY <1>1 DEF Ids, RowSet, TickSet, Place
<1>3. AnswerSet \subseteq AnswerSet'
  <2>1. SUBSET RowSet \subseteq SUBSET (RowSet')
    BY <1>2
  <2> QED BY <2>1 DEF AnswerSet
<1>4. PageSet \subseteq PageSet'
  <2> SUFFICES ASSUME NEW q \in PageSet
               PROVE  q \in PageSet'
    OBVIOUS
  <2>1. /\ q.rows \in SUBSET (RowSet') /\ q.ticks \in SUBSET (TickSet') /\ q.id \in Ids'
        /\ q.msg \in RowSet' \cup {NoMsg}
    BY <1>2 DEF PageSet
  <2> QED BY <2>1 DEF PageSet, Place, NoMsg
<1>5. CallSet \subseteq CallSet'
  <2> SUFFICES ASSUME NEW c \in CallSet
               PROVE  c \in CallSet'
    OBVIOUS
  <2>1. c.ticks \in SUBSET (TickSet') /\ c.id \in Ids' /\ c.seen \in Ids' /\ c.ans \in AnswerSet'
    BY <1>2, <1>3 DEF CallSet
  <2> QED BY <2>1 DEF CallSet, Place, Op
<1> QED BY <1>1, <1>2, <1>3, <1>4, <1>5

(* When the mailbox keeps its length they stay.                            *)
LEMMA SetsStay ==
  ASSUME Len(mail') = Len(mail)
  PROVE  Msg' = Msg /\ Ids' = Ids /\ RowSet' = RowSet /\ TickSet' = TickSet
         /\ AnswerSet' = AnswerSet /\ PageSet' = PageSet /\ CallSet' = CallSet
<1>1. Msg' = Msg
  BY DEF Msg
<1>2. Ids' = Ids /\ RowSet' = RowSet /\ TickSet' = TickSet
  BY <1>1 DEF Ids, RowSet, TickSet, Place
<1>3. AnswerSet' = AnswerSet
  BY <1>2 DEF AnswerSet
<1> QED BY <1>1, <1>2, <1>3 DEF PageSet, CallSet, Place, Op

(* The requests after a step: those of before, and those of E.             *)
LEMMA CallsStay ==
  ASSUME TypeInv, MailOK', Len(mail) <= Len(mail'), page'.no \in Nat, page.no <= page'.no,
         NEW E, IsFiniteSet(E), calls' \subseteq calls \cup E, \A e \in E : CallOK(e)'
  PROVE  CallsOK'
<1>1. IsFiniteSet(calls')
  BY FS_Union, FS_Subset DEF TypeInv, CallsOK
<1>2. ASSUME NEW c \in calls, c \in calls'
      PROVE  CallOK(c)'
  <2>1. CallOK(c) /\ page.no \in Nat /\ c.page \in Nat
    BY <1>2 DEF TypeInv, CallsOK, CallOK, CallSet, PageOK, PageSet
  <2>2. c \in CallSet' /\ Msg \subseteq Msg'
    BY <2>1, SetsGrow DEF CallOK
  <2>3. c.page <= page'.no
    BY <2>1 DEF CallOK
  <2> QED BY <2>1, <2>2, <2>3 DEF CallOK
<1> QED BY <1>1, <1>2 DEF CallsOK

(* One more request, and perhaps another one less.                         *)
LEMMA OneMore ==
  ASSUME TypeInv, MailOK', Len(mail) <= Len(mail'), page'.no \in Nat, page.no <= page'.no,
         NEW e, calls' \subseteq calls \cup {e}, CallOK(e)'
  PROVE  CallsOK'
<1>1. PICK E : E = {e}
  OBVIOUS
<1>2. IsFiniteSet(E)
  BY <1>1, FS_Singleton
<1> QED BY <1>1, <1>2, CallsStay

LEMMA NoMore ==
  ASSUME TypeInv, MailOK', Len(mail) <= Len(mail'), page'.no \in Nat, page.no <= page'.no,
         calls' \subseteq calls
  PROVE  CallsOK'
<1>1. PICK E : E = {}
  OBVIOUS
<1>2. IsFiniteSet(E)
  BY <1>1, FS_EmptySet
<1> QED BY <1>1, <1>2, CallsStay

-----------------------------------------------------------------------------
(* New requests and pages                                                  *)

LEMMA CallTyped ==
  ASSUME TypeInv, NEW op \in Op, NEW id \in Ids
  PROVE  /\ Call(op, id) \in CallSet
         /\ Call(op, id) =
              [op |-> op, page |-> page.no, id |-> id, place |-> page.place,
               offset |-> page.offset, ticks |-> {}, on |-> FALSE, seen |-> page.msg.id,
               mixed |-> FALSE, tag |-> 1, st |-> "asked", ans |-> NoAnswer]
<1>1. page.msg.id \in Ids
  BY DEF TypeInv, PageOK, PageSet, RowSet, NoMsg, Ids
<1>2. NoAnswer \in AnswerSet
  BY Numbers DEF NoAnswer, AnswerSet
<1>3. page.no \in 1..MaxPages /\ page.place \in Place /\ page.offset \in 0..MaxMsgs
  BY DEF TypeInv, PageOK, PageSet
<1> QED BY <1>1, <1>2, <1>3 DEF Call, CallSet

LEMMA ListCallTyped ==
  ASSUME TypeInv, NEW no \in 1..MaxPages, NEW p \in Place, NEW o \in 0..MaxMsgs
  PROVE  /\ ListCall(no, p, o) \in CallSet
         /\ ListCall(no, p, o) =
              [op |-> "list", page |-> no, id |-> None, place |-> p, offset |-> o, ticks |-> {},
               on |-> FALSE, seen |-> None, mixed |-> FALSE, tag |-> 1, st |-> "asked",
               ans |-> NoAnswer]
<1>1. ListCall(no, p, o) =
        [op |-> "list", page |-> no, id |-> None, place |-> p, offset |-> o, ticks |-> {},
         on |-> FALSE, seen |-> None, mixed |-> FALSE, tag |-> 1, st |-> "asked",
         ans |-> NoAnswer]
  <2>1. PICK k : k = Call("list", None)
    OBVIOUS
  <2>2. k = [op |-> "list", page |-> page.no, id |-> None, place |-> page.place,
             offset |-> page.offset, ticks |-> {}, on |-> FALSE, seen |-> page.msg.id,
             mixed |-> FALSE, tag |-> 1, st |-> "asked", ans |-> NoAnswer]
    BY <2>1 DEF Call
  <2>3. ListCall(no, p, o) = [k EXCEPT !.page = no, !.place = p, !.offset = o, !.seen = None]
    BY <2>1 DEF ListCall
  <2> QED BY <2>2, <2>3
<1>2. NoAnswer \in AnswerSet
  BY Numbers DEF NoAnswer, AnswerSet
<1> QED BY <1>1, <1>2 DEF CallSet, Op, Ids

LEMMA GetCallTyped ==
  ASSUME TypeInv, NEW no \in 1..MaxPages, NEW m \in Msg
  PROVE  /\ GetCall(no, m) \in CallSet
         /\ GetCall(no, m) =
              [op |-> "get", page |-> no, id |-> m, place |-> "inbox", offset |-> 0, ticks |-> {},
               on |-> FALSE, seen |-> None, mixed |-> FALSE, tag |-> 1, st |-> "asked",
               ans |-> NoAnswer]
<1>1. GetCall(no, m) =
        [op |-> "get", page |-> no, id |-> m, place |-> "inbox", offset |-> 0, ticks |-> {},
         on |-> FALSE, seen |-> None, mixed |-> FALSE, tag |-> 1, st |-> "asked",
         ans |-> NoAnswer]
  <2>1. PICK k : k = Call("get", m)
    OBVIOUS
  <2>2. k = [op |-> "get", page |-> page.no, id |-> m, place |-> page.place,
             offset |-> page.offset, ticks |-> {}, on |-> FALSE, seen |-> page.msg.id,
             mixed |-> FALSE, tag |-> 1, st |-> "asked", ans |-> NoAnswer]
    BY <2>1 DEF Call
  <2>3. GetCall(no, m) = [k EXCEPT !.page = no, !.place = "inbox", !.offset = 0, !.seen = None]
    BY <2>1 DEF GetCall
  <2> QED BY <2>2, <2>3
<1>2. NoAnswer \in AnswerSet
  BY Numbers DEF NoAnswer, AnswerSet
<1>3. "inbox" \in Place /\ 0 \in 0..MaxMsgs
  BY InboxAssumption DEF Place
<1> QED BY <1>1, <1>2, <1>3 DEF CallSet, Op, Ids

LEMMA NoRows == Cardinality(NoAnswer.rows) <= Limit
BY FS_EmptySet, InboxAssumption DEF NoAnswer

LEMMA BlankTyped ==
  ASSUME TypeInv, NEW no \in 1..MaxPages
  PROVE  /\ Blank(no) \in PageSet /\ Cardinality(Blank(no).rows) <= Limit
         /\ Blank(no) =
              [no |-> no, at |-> "list", place |-> "inbox", offset |-> 0, rows |-> {},
               total |-> 0, ticks |-> {}, id |-> None, msg |-> NoMsg, loading |-> TRUE,
               mixed |-> FALSE]
<1>1. "inbox" \in Place /\ 0 \in 0..MaxMsgs
  BY InboxAssumption DEF Place
<1>2. Cardinality({}) <= Limit
  BY FS_EmptySet, InboxAssumption
<1> QED BY <1>1, <1>2 DEF Blank, PageSet, Ids

LEMMA FetchedTyped ==
  ASSUME NEW q, NEW cs, NEW p, NEW o
  PROVE  \E b \in BOOLEAN : Fetched(q, cs, p, o) = [q EXCEPT !.mixed = b]
BY DEF Fetched

-----------------------------------------------------------------------------
(* Types, step by step                                                     *)

(* What most steps leave: the mailbox, the stream and the wishes.          *)
LEMMA RestStays ==
  ASSUME TypeInv, mail' = mail
  PROVE  /\ MailOK' /\ Len(mail) <= Len(mail') /\ Len(mail') = Len(mail)
         /\ (stream' = stream /\ event' = event /\ news' \in BOOLEAN => StreamOK')
         /\ (turns' = turns \/ Turn) /\ wish' = wish => CountsOK'
<1>1. MailOK' /\ Len(mail) <= Len(mail') /\ Len(mail') = Len(mail)
  BY Numbers DEF TypeInv, MailOK, MailSet
<1>2. stream' = stream /\ event' = event /\ news' \in BOOLEAN => StreamOK'
  BY DEF TypeInv, StreamOK
<1>3. (turns' = turns \/ Turn) /\ wish' = wish => CountsOK'
  BY InboxAssumption DEF TypeInv, CountsOK, Turn
<1> QED BY <1>1, <1>2, <1>3

(* A list is fetched.                                                      *)
LEMMA FetchStep ==
  ASSUME TypeInv, mail' = mail, NEW q \in PageSet, Cardinality(q.rows) <= Limit,
         q.at = "view" => q.id \in Msg, page.no <= q.no,
         NEW p \in Place, NEW o \in 0..MaxMsgs, NEW b \in BOOLEAN,
         page' = [q EXCEPT !.mixed = b], calls' \subseteq calls \cup {ListCall(q.no, p, o)}
  PROVE  PageOK' /\ CallsOK'
<1>1. MailOK' /\ Len(mail) <= Len(mail') /\ Len(mail') = Len(mail)
  BY RestStays
<1>2. Msg' = Msg /\ PageSet' = PageSet /\ CallSet' = CallSet
  BY <1>1, SetsStay
<1>3. page' \in PageSet /\ page'.no = q.no /\ page'.rows = q.rows /\ page'.at = q.at
      /\ page'.id = q.id /\ q.no \in 1..MaxPages
  BY DEF PageSet
<1>4. PageOK'
  BY <1>2, <1>3 DEF PageOK
<1>5. PICK e : e = ListCall(q.no, p, o)
  OBVIOUS
<1>6. CallOK(e)'
  <2>1. e \in CallSet /\ e.op = "list" /\ e.page = q.no /\ e.ans = NoAnswer
    BY <1>3, <1>5, ListCallTyped
  <2> QED BY <1>2, <1>3, <2>1, NoRows DEF CallOK
<1>7. page'.no \in Nat
  BY <1>3
<1> QED BY <1>1, <1>3, <1>4, <1>5, <1>6, <1>7, OneMore

LEMMA PageTyped ==
  ASSUME TypeInv
  PROVE  /\ page \in PageSet /\ Cardinality(page.rows) <= Limit /\ page.no \in 1..MaxPages
         /\ page.place \in Place /\ page.offset \in 0..MaxMsgs /\ page.total \in 0..MaxMsgs
         /\ page.rows \subseteq RowSet /\ (page.at = "view" => page.id \in Msg)
BY DEF TypeInv, PageOK, PageSet

LEMMA ShowTypes ==
  ASSUME TypeInv, mail' = mail, NEW q \in PageSet, Cardinality(q.rows) <= Limit,
         q.at = "view" => q.id \in Msg, page.no <= q.no,
         NEW p \in Place, NEW o \in 0..MaxMsgs, Show(p, o, q)
  PROVE  PageOK' /\ CallsOK'
<1>1. PICK r : r = [q EXCEPT !.place = p, !.offset = o, !.ticks = {}]
  OBVIOUS
<1>2. /\ r \in PageSet /\ r.rows = q.rows /\ r.at = q.at /\ r.id = q.id /\ r.no = q.no
  BY <1>1 DEF PageSet
<1>3. PICK b \in BOOLEAN : page' = [r EXCEPT !.mixed = b]
  <2>1. page' = Fetched(r, calls, p, o)
    BY <1>1 DEF Show
  <2> QED BY <2>1, FetchedTyped
<1>4. calls' \subseteq calls \cup {ListCall(r.no, p, o)}
  BY <1>2 DEF Show, Ask
<1> QED BY <1>2, <1>3, <1>4, FetchStep

LEMMA GoToTypes ==
  ASSUME TypeInv, NEW p \in Place, GoTo(p)
  PROVE  TypeInv'
<1>1. mail' = mail /\ stream' = stream /\ event' = event /\ news' = news /\ wish' = wish /\ Turn
  BY DEF GoTo
<1>2. MailOK' /\ StreamOK' /\ CountsOK'
  BY <1>1, RestStays DEF TypeInv, StreamOK
<1>3. CASE page.at = "list"
  <2>1. PICK q, o : q = page /\ o = page.offset
    OBVIOUS
  <2>2. q \in PageSet /\ Cardinality(q.rows) <= Limit /\ q.at = "list" /\ o \in 0..MaxMsgs
        /\ page.no <= q.no
    BY <1>3, <2>1, PageTyped
  <2>3. Show(p, o, q)
    BY <1>3, <2>1 DEF GoTo
  <2>4. PageOK' /\ CallsOK'
    BY <1>1, <2>2, <2>3, ShowTypes
  <2> QED BY <1>2, <2>4 DEF TypeInv
<1>4. CASE page.at # "list"
  <2>1. PICK n, q : n = page.no + 1 /\ q = Blank(n)
    OBVIOUS
  <2>2. n \in 1..MaxPages /\ page.no <= n
    BY <1>4, <2>1, PageTyped, InboxAssumption DEF GoTo
  <2>3. q \in PageSet /\ Cardinality(q.rows) <= Limit /\ q.at = "list" /\ q.no = n
    BY <2>1, <2>2, BlankTyped
  <2>4. Show(p, 0, q)
    BY <1>4, <2>1 DEF GoTo
  <2>5. PageOK' /\ CallsOK'
    BY <1>1, <2>2, <2>3, <2>4, ShowTypes, Numbers
  <2> QED BY <1>2, <2>5 DEF TypeInv
<1> QED BY <1>3, <1>4

LEMMA PagerTypes ==
  ASSUME TypeInv, Previous \/ Following
  PROVE  TypeInv'
<1>1. mail' = mail /\ stream' = stream /\ event' = event /\ news' = news /\ wish' = wish /\ Turn
  BY DEF Previous, Following
<1>2. MailOK' /\ StreamOK' /\ CountsOK'
  BY <1>1, RestStays DEF TypeInv, StreamOK
<1>3. PICK q, p, o : q = page /\ p = page.place /\ o \in 0..MaxMsgs /\ Show(p, o, q)
                     /\ page.at = "list"
  <2>1. CASE Previous
    <3>1. PICK k : k = IF page.offset > Limit THEN page.offset - Limit ELSE 0
      OBVIOUS
    <3>2. k \in 0..MaxMsgs
      BY <3>1, PageTyped, InboxAssumption
    <3>3. Show(page.place, k, page) /\ page.at = "list"
      BY <2>1, <3>1 DEF Previous
    <3> QED BY <3>2, <3>3
  <2>2. CASE Following
    <3>1. PICK k : k = page.offset + Limit
      OBVIOUS
    <3>2. k \in 0..MaxMsgs
      BY <2>2, <3>1, PageTyped, InboxAssumption DEF Following
    <3>3. Show(page.place, k, page) /\ page.at = "list"
      BY <2>2, <3>1 DEF Following
    <3> QED BY <3>2, <3>3
  <2> QED BY <2>1, <2>2
<1>4. q \in PageSet /\ Cardinality(q.rows) <= Limit /\ q.at = "list" /\ p \in Place
      /\ page.no <= q.no
  BY <1>3, PageTyped
<1>5. PageOK' /\ CallsOK'
  BY <1>1, <1>3, <1>4, ShowTypes
<1> QED BY <1>2, <1>5 DEF TypeInv

LEMMA FetchTypes ==
  ASSUME TypeInv, mail' = mail, FetchMessages
  PROVE  PageOK' /\ CallsOK'
<1>1. PICK q, p, o : q = page /\ p = page.place /\ o = page.offset
  OBVIOUS
<1>2. q \in PageSet /\ Cardinality(q.rows) <= Limit /\ (q.at = "view" => q.id \in Msg)
      /\ p \in Place /\ o \in 0..MaxMsgs /\ page.no <= q.no
  BY <1>1, PageTyped
<1>3. PICK b \in BOOLEAN : page' = [q EXCEPT !.mixed = b]
  <2>1. page' = Fetched(q, calls, p, o)
    BY <1>1 DEF FetchMessages
  <2> QED BY <2>1, FetchedTyped
<1>4. calls' \subseteq calls \cup {ListCall(q.no, p, o)}
  BY <1>1 DEF FetchMessages, Ask
<1> QED BY <1>2, <1>3, <1>4, FetchStep

LEMMA RefreshTypes ==
  ASSUME TypeInv, Refresh \/ MessageNew
  PROVE  TypeInv'
<1>1. mail' = mail /\ stream' = stream /\ news' = news /\ wish' = wish
      /\ (turns' = turns \/ Turn) /\ (event' = event \/ event' = FALSE)
  BY DEF Refresh, MessageNew
<1>2. MailOK' /\ CountsOK' /\ Len(mail') = Len(mail)
  BY <1>1, RestStays
<1>3. StreamOK'
  <2>1. CASE event' = event
    BY <1>1, <2>1 DEF TypeInv, StreamOK
  <2>2. CASE event' = FALSE
    BY <1>1, <2>2 DEF TypeInv, StreamOK
  <2> QED BY <1>1, <2>1, <2>2
<1>4. CASE FetchMessages
  <2>1. PageOK' /\ CallsOK'
    BY <1>1, <1>4, FetchTypes
  <2> QED BY <1>2, <1>3, <2>1 DEF TypeInv
<1>5. CASE UNCHANGED <<page, calls>>
  <2>1. Msg' = Msg /\ PageSet' = PageSet /\ CallSet' = CallSet
    BY <1>2, SetsStay
  <2>2. PageOK' /\ CallsOK'
    BY <1>5, <2>1 DEF TypeInv, PageOK, CallsOK, CallOK
  <2> QED BY <1>2, <1>3, <2>2 DEF TypeInv
<1> QED BY <1>4, <1>5 DEF Refresh, MessageNew

(* A step that only changes what the page shows, or what waits.            *)
LEMMA PageStays ==
  ASSUME TypeInv, mail' = mail, page' = page, calls' \subseteq calls
  PROVE  PageOK' /\ CallsOK'
<1>1. MailOK' /\ Len(mail) <= Len(mail') /\ Len(mail') = Len(mail)
  BY RestStays
<1>2. Msg' = Msg /\ PageSet' = PageSet
  BY <1>1, SetsStay
<1>3. PageOK'
  BY <1>2 DEF TypeInv, PageOK
<1> QED BY <1>1, <1>3, NoMore, PageTyped

LEMMA ToggleTypes ==
  ASSUME TypeInv, ToggleSelectAll \/ \E m \in Msg : ToggleSelect(m)
  PROVE  TypeInv'
<1>1. mail' = mail /\ stream' = stream /\ event' = event /\ news' = news /\ wish' = wish
      /\ turns' = turns /\ calls' = calls
  BY DEF ToggleSelect, ToggleSelectAll
<1>2. MailOK' /\ StreamOK' /\ CountsOK' /\ Len(mail) <= Len(mail') /\ Len(mail') = Len(mail)
  BY <1>1, RestStays DEF TypeInv, StreamOK
<1>3. PICK T : T \in SUBSET TickSet /\ page' = [page EXCEPT !.ticks = T]
  <2>0. page.ticks \subseteq TickSet
    BY DEF TypeInv, PageOK, PageSet
  <2>1. CASE ToggleSelectAll
    <3>1. PICK T : T = IF Cardinality(page.ticks) = Cardinality(page.rows) THEN {}
                       ELSE {Tick(r.id) : r \in page.rows}
      OBVIOUS
    <3>2. \A r \in page.rows : Tick(r.id) \in TickSet
      BY PageTyped DEF RowSet, Tick, TickSet
    <3>3. T \in SUBSET TickSet
      BY <3>1, <3>2
    <3>4. page' = [page EXCEPT !.ticks = T]
      BY <2>1, <3>1 DEF ToggleSelectAll
    <3> QED BY <3>3, <3>4
  <2>2. ASSUME NEW m \in Msg, ToggleSelect(m)
        PROVE  \E T : T \in SUBSET TickSet /\ page' = [page EXCEPT !.ticks = T]
    <3>1. PICK T : T = IF m \in Ticked THEN {t \in page.ticks : t.id # m}
                       ELSE page.ticks \cup {Tick(m)}
      OBVIOUS
    <3>2. Tick(m) \in TickSet
      BY PageTyped DEF Tick, TickSet
    <3>3. T \in SUBSET TickSet
      BY <2>0, <3>1, <3>2
    <3>4. page' = [page EXCEPT !.ticks = T]
      BY <2>2, <3>1 DEF ToggleSelect
    <3> QED BY <3>3, <3>4
  <2> QED BY <2>1, <2>2
<1>4. page' \in PageSet /\ page'.no = page.no /\ page'.rows = page.rows /\ page'.at = page.at
      /\ page'.id = page.id
  BY <1>3, PageTyped DEF PageSet
<1>5. PageOK'
  <2>1. Msg' = Msg /\ PageSet' = PageSet
    BY <1>2, SetsStay
  <2> QED BY <1>4, <2>1, PageTyped DEF PageOK
<1>6. CallsOK'
  BY <1>1, <1>2, <1>4, NoMore, PageTyped
<1> QED BY <1>2, <1>5, <1>6 DEF TypeInv

(* A click that only makes a request.                                      *)
LEMMA AskTypes ==
  ASSUME TypeInv, mail' = mail, page' = page, stream' = stream, event' = event, news' = news,
         CountsOK', NEW e \in CallSet, e.page <= page.no,
         e.op \notin {"list", "batch"} => e.id \in Msg, e.op = "starView" => e.seen \in Msg,
         e.ans = NoAnswer, calls' = calls \cup {e}
  PROVE  TypeInv'
<1>1. MailOK' /\ StreamOK' /\ Len(mail) <= Len(mail') /\ Len(mail') = Len(mail)
  BY RestStays DEF TypeInv, StreamOK
<1>2. Msg' = Msg /\ PageSet' = PageSet /\ CallSet' = CallSet
  BY <1>1, SetsStay
<1>3. PageOK'
  BY <1>2 DEF TypeInv, PageOK
<1>4. CallOK(e)'
  BY <1>2, NoRows DEF CallOK
<1>5. CallsOK'
  BY <1>1, <1>4, OneMore, PageTyped
<1> QED BY <1>1, <1>3, <1>5 DEF TypeInv

LEMMA HandleBatchTypes ==
  ASSUME TypeInv, HandleBatch
  PROVE  TypeInv'
<1>1. PICK k : k = Call("batch", None)
  OBVIOUS
<1>2. k \in CallSet /\ k.op = "batch" /\ k.page = page.no /\ k.ans = NoAnswer
  BY <1>1, CallTyped DEF Op, Ids
<1>3. PICK e : e = [k EXCEPT !.ticks = page.ticks]
  OBVIOUS
<1>4. page.ticks \subseteq TickSet
  BY DEF TypeInv, PageOK, PageSet
<1>5. e \in CallSet /\ e.op = "batch" /\ e.page = page.no /\ e.ans = NoAnswer
  BY <1>2, <1>3, <1>4 DEF CallSet
<1>6. calls' = calls \cup {e}
  BY <1>1, <1>3 DEF HandleBatch, Ask
<1>7. CountsOK'
  BY RestStays DEF HandleBatch
<1>8. e.page <= page.no
  BY <1>5, PageTyped
<1> QED BY <1>5, <1>6, <1>7, <1>8, AskTypes DEF HandleBatch

LEMMA HandleDeleteTypes ==
  ASSUME TypeInv, HandleDelete
  PROVE  TypeInv'
<1>0. page.id \in Msg /\ page.id \in Ids
  BY PageTyped DEF HandleDelete, Shown, Ids
<1>1. PICK k : k = Call("delete", page.id)
  OBVIOUS
<1>2. k \in CallSet /\ k.op = "delete" /\ k.page = page.no /\ k.id = page.id /\ k.ans = NoAnswer
  BY <1>0, <1>1, CallTyped DEF Op
<1>3. PICK e : e = [k EXCEPT !.mixed = page.mixed]
  OBVIOUS
<1>4. page.mixed \in BOOLEAN
  BY DEF TypeInv, PageOK, PageSet
<1>5. e \in CallSet /\ e.op = "delete" /\ e.page = page.no /\ e.id = page.id /\ e.ans = NoAnswer
  BY <1>2, <1>3, <1>4 DEF CallSet
<1>6. calls' = calls \cup {e}
  BY <1>1, <1>3 DEF HandleDelete, Ask
<1>7. CountsOK'
  BY RestStays DEF HandleDelete
<1>8. e.page <= page.no
  BY <1>5, PageTyped
<1> QED BY <1>0, <1>5, <1>6, <1>7, <1>8, AskTypes DEF HandleDelete

(* The request that a click on a star makes.                               *)
LEMMA StarCall ==
  ASSUME TypeInv, NEW op \in Starring, NEW m \in Msg, NEW on \in BOOLEAN, Star(op, m, on)
  PROVE  \E e \in CallSet :
           /\ calls' = calls \cup {e} /\ e.op = op /\ e.id = m /\ e.on = on /\ e.page = page.no
           /\ e.place = page.place /\ e.offset = page.offset /\ e.seen = page.msg.id
           /\ e.st = "asked" /\ e.ans = NoAnswer /\ e.mixed = (op = "starView" /\ page.mixed)
           /\ e.tag = 1 + Cardinality(StarsOf(m))
<1>1. PICK k : k = Call(op, m)
  OBVIOUS
<1>2. /\ k \in CallSet
      /\ k = [op |-> op, page |-> page.no, id |-> m, place |-> page.place,
              offset |-> page.offset, ticks |-> {}, on |-> FALSE, seen |-> page.msg.id,
              mixed |-> FALSE, tag |-> 1, st |-> "asked", ans |-> NoAnswer]
  BY <1>1, CallTyped DEF Op, Starring, Ids
<1>3. PICK t, x : t = 1 + Cardinality(StarsOf(m)) /\ x = (op = "starView" /\ page.mixed)
  OBVIOUS
<1>4. t \in {1, 2}
  <2>1. IsFiniteSet(StarsOf(m))
    BY FS_Subset DEF TypeInv, CallsOK, StarsOf
  <2>2. Cardinality(StarsOf(m)) \in Nat /\ Cardinality(StarsOf(m)) < 2
    BY <2>1, FS_CardinalityType DEF Star
  <2> QED BY <1>3, <2>2
<1>5. x \in BOOLEAN
  BY <1>3
<1>6. PICK e : e = [k EXCEPT !.on = on, !.tag = t, !.mixed = x]
  OBVIOUS
<1>7. calls' = calls \cup {e}
  BY <1>1, <1>3, <1>6 DEF Star, Ask
<1>8. e \in CallSet
  BY <1>2, <1>4, <1>5, <1>6 DEF CallSet
<1>9. /\ e.op = op /\ e.id = m /\ e.on = on /\ e.page = page.no
      /\ e.place = page.place /\ e.offset = page.offset /\ e.seen = page.msg.id
      /\ e.st = "asked" /\ e.ans = NoAnswer /\ e.mixed = x /\ e.tag = t
  BY <1>2, <1>6
<1> QED BY <1>3, <1>7, <1>8, <1>9

LEMMA StarTypes ==
  ASSUME TypeInv, NEW op \in Starring, NEW m \in Msg, NEW on \in BOOLEAN, Star(op, m, on),
         op = "starView" => page.msg.id \in Msg
  PROVE  TypeInv'
<1>1. PICK e \in CallSet : calls' = calls \cup {e} /\ e.op = op /\ e.id = m /\ e.page = page.no
                           /\ e.seen = page.msg.id /\ e.ans = NoAnswer
  BY StarCall
<1>2. CountsOK'
  <2>1. turns' \in 0..MaxTurns
    BY InboxAssumption DEF TypeInv, CountsOK, Star, Turn
  <2>2. PICK w \in {"none", "on", "off"} : wish' = [wish EXCEPT ![m] = w]
    BY DEF Star
  <2>3. wish' \in [1..MaxMsgs -> {"none", "on", "off"}]
    BY <2>2 DEF TypeInv, CountsOK
  <2> QED BY <2>1, <2>3 DEF CountsOK
<1>3. e.page <= page.no
  BY <1>1, PageTyped
<1> QED BY <1>1, <1>2, <1>3, AskTypes DEF Star

(* Both clicks on a star.                                                  *)
LEMMA StarClicks ==
  ASSUME TypeInv, ToggleStarOfView \/ \E r \in page.rows : HandleToggleStar(r)
  PROVE  \E op \in Starring, m \in Msg, on \in BOOLEAN :
           /\ Star(op, m, on)
           /\ op = "star" => page.at = "list"
           /\ op = "starView" =>
                Shown /\ m = page.id /\ page.msg.id \in Msg /\ on = (~page.msg.star)
<1>1. ASSUME NEW r \in page.rows, HandleToggleStar(r)
      PROVE  r.id \in Msg /\ Star("star", r.id, ~r.star) /\ page.at = "list"
  BY <1>1, PageTyped DEF HandleToggleStar, RowSet
<1>2. CASE ToggleStarOfView
  <2>1. page.msg.id \in Msg
    BY <1>2 DEF TypeInv, PageOK, PageSet, ToggleStarOfView, Shown, NoMsg, RowSet
  <2>2. page.id \in Msg /\ Star("starView", page.id, ~page.msg.star) /\ Shown
    BY <1>2, PageTyped DEF ToggleStarOfView, Shown
  <2>3. "starView" \in Starring /\ (~page.msg.star) \in BOOLEAN
    BY DEF Starring
  <2> QED BY <2>1, <2>2, <2>3
<1>3. ASSUME NEW r \in page.rows, HandleToggleStar(r)
      PROVE  \E op \in Starring, m \in Msg, on \in BOOLEAN :
               /\ Star(op, m, on)
               /\ op = "star" => page.at = "list"
               /\ op = "starView" =>
                    Shown /\ m = page.id /\ page.msg.id \in Msg /\ on = (~page.msg.star)
  <2>1. "star" \in Starring /\ (~r.star) \in BOOLEAN /\ "star" # "starView"
    BY DEF Starring
  <2> QED BY <1>1, <1>3, <2>1
<1> QED BY <1>2, <1>3

(* The page of a message is opened, or its URL becomes another one's.      *)
LEMMA ViewStep ==
  ASSUME TypeInv, mail' = mail, page' \in PageSet, page.no <= page'.no,
         Cardinality(page'.rows) <= Limit, NEW m \in Msg, page'.id = m,
         calls' \subseteq calls \cup {GetCall(page'.no, m)}
  PROVE  PageOK' /\ CallsOK'
<1>1. MailOK' /\ Len(mail) <= Len(mail') /\ Len(mail') = Len(mail)
  BY RestStays
<1>2. Msg' = Msg /\ PageSet' = PageSet /\ CallSet' = CallSet
  BY <1>1, SetsStay
<1>3. PageOK'
  BY <1>2 DEF PageOK
<1>4. PICK n : n = page'.no
  OBVIOUS
<1>5. n \in 1..MaxPages /\ page.no <= n
  BY <1>4 DEF PageSet
<1>6. PICK e : e = GetCall(n, m)
  OBVIOUS
<1>7. e \in CallSet /\ e.op = "get" /\ e.page = n /\ e.id = m /\ e.ans = NoAnswer
  BY <1>5, <1>6, GetCallTyped
<1>8. CallOK(e)'
  <2>1. e.page <= page'.no
    BY <1>4, <1>5, <1>7
  <2> QED BY <1>2, <1>7, <2>1, NoRows DEF CallOK
<1>9. page'.no \in Nat /\ calls' \subseteq calls \cup {e}
  BY <1>4, <1>5, <1>6
<1> QED BY <1>1, <1>3, <1>8, <1>9, OneMore

LEMMA OpenTypes ==
  ASSUME TypeInv, NEW m \in Msg, OpenMessage(m)
  PROVE  TypeInv'
<1>1. mail' = mail /\ stream' = stream /\ event' = event /\ news' = news /\ wish' = wish /\ Turn
  BY DEF OpenMessage
<1>2. MailOK' /\ StreamOK' /\ CountsOK'
  BY <1>1, RestStays DEF TypeInv, StreamOK
<1>3. PICK n, q : n = page.no + 1 /\ q = Blank(n)
  OBVIOUS
<1>4. n \in 1..MaxPages /\ page.no <= n
  BY <1>3, PageTyped, InboxAssumption DEF OpenMessage
<1>5. q \in PageSet /\ Cardinality(q.rows) <= Limit /\ q.no = n
  BY <1>3, <1>4, BlankTyped
<1>6. page' = [q EXCEPT !.at = "view", !.id = m]
  BY <1>3 DEF OpenMessage
<1>7. page' \in PageSet /\ page'.no = n /\ page'.rows = q.rows /\ page'.id = m
  BY <1>5, <1>6 DEF PageSet, Ids
<1>8. calls' \subseteq calls \cup {GetCall(page'.no, m)}
  <2>1. PICK e : e = GetCall(n, m)
    OBVIOUS
  <2>2. calls' = calls \cup {e}
    BY <1>3, <2>1 DEF OpenMessage, Ask
  <2> QED BY <1>7, <2>1, <2>2
<1>9. PageOK' /\ CallsOK'
  BY <1>1, <1>4, <1>5, <1>7, <1>8, ViewStep
<1> QED BY <1>2, <1>9 DEF TypeInv

LEMMA JumpTypes ==
  ASSUME TypeInv, NEW m \in Msg, JumpTo(m)
  PROVE  TypeInv'
<1>1. mail' = mail /\ stream' = stream /\ event' = event /\ news' = news /\ wish' = wish /\ Turn
  BY DEF JumpTo
<1>2. MailOK' /\ StreamOK' /\ CountsOK'
  BY <1>1, RestStays DEF TypeInv, StreamOK
<1>3. PICK b : b = (page.mixed \/ Of(page.no, {"get", "starView"}) # {})
  OBVIOUS
<1>4. page' = [page EXCEPT !.id = m, !.loading = TRUE, !.mixed = b]
  BY <1>3 DEF JumpTo
<1>5. b \in BOOLEAN
  BY <1>3
<1>6. page' \in PageSet /\ page'.no = page.no /\ page'.rows = page.rows /\ page'.id = m
  BY <1>4, <1>5, PageTyped DEF PageSet, Ids
<1>7. calls' \subseteq calls \cup {GetCall(page'.no, m)}
  <2>1. PICK n : n = page.no
    OBVIOUS
  <2>2. PICK e : e = GetCall(n, m)
    OBVIOUS
  <2>3. calls' = calls \cup {e}
    BY <2>1, <2>2 DEF JumpTo, Ask
  <2>4. page'.no = n
    BY <1>6, <2>1
  <2> QED BY <2>2, <2>3, <2>4
<1>8. PageOK' /\ CallsOK'
  <2>1. page.no <= page'.no /\ Cardinality(page'.rows) <= Limit
    BY <1>6, PageTyped
  <2> QED BY <1>1, <1>6, <1>7, <2>1, ViewStep
<1> QED BY <1>2, <1>8 DEF TypeInv

(* The mailbox after a change of some of its rows.                         *)
LEMMA RowsChange ==
  ASSUME TypeInv, DOMAIN mail' = DOMAIN mail, mail' = [m \in Msg |-> mail'[m]],
         \A m \in Msg : mail'[m] \in MailSet
  PROVE  MailOK' /\ Len(mail') = Len(mail)
<1>1. Len(mail) \in Nat /\ Len(mail) <= MaxMsgs
  BY Numbers DEF TypeInv, MailOK
<1>2. mail' \in [1..Len(mail) -> MailSet]
  BY DEF Msg
<1>3. mail' \in Seq(MailSet) /\ Len(mail') = Len(mail)
  BY <1>1, <1>2
<1> QED BY <1>1, <1>3 DEF MailOK, MailSet

LEMMA RowChanges ==
  ASSUME TypeInv, NEW m \in Msg, NEW r \in MailSet, mail' = [mail EXCEPT ![m] = r]
  PROVE  MailOK' /\ Len(mail') = Len(mail) /\ \A n \in Msg : mail'[n] = IF n = m THEN r ELSE mail[n]
<1>1. DOMAIN mail = Msg /\ mail \in [Msg -> MailSet]
  BY LenProperties, Numbers DEF TypeInv, MailOK, Msg
<1>2. mail' \in [Msg -> MailSet] /\ \A n \in Msg : mail'[n] = IF n = m THEN r ELSE mail[n]
  BY <1>1
<1>3. MailOK' /\ Len(mail') = Len(mail)
  BY <1>1, <1>2, RowsChange
<1> QED BY <1>2, <1>3

LEMMA CallIs ==
  ASSUME TypeInv, NEW c \in calls
  PROVE  /\ CallOK(c) /\ c \in CallSet /\ c.page \in 1..MaxPages /\ c.page <= page.no
         /\ c.place \in Place /\ c.offset \in 0..MaxMsgs /\ c.st \in {"asked", "ok", "failed"}
         /\ c.op \in Op /\ (c.op \notin {"list", "batch"} => c.id \in Msg) /\ c.id \in Ids
         /\ c.on \in BOOLEAN /\ c.mixed \in BOOLEAN /\ c.ans.rows \subseteq RowSet
         /\ c.ans.total \in 0..MaxMsgs /\ c.ans \in AnswerSet
         /\ (c.op = "starView" => c.seen \in Msg)
BY DEF TypeInv, CallsOK, CallOK, CallSet, AnswerSet

(* What the server may do to the mailbox for request c, and what it        *)
(* answers: s tells how it went, a is the answer.                          *)
Changes(c, s) ==
  /\ MailOK' /\ Len(mail') = Len(mail)
  /\ \A n \in Msg :
       /\ mail[n].gone => mail'[n].gone
       /\ mail[n].read => mail'[n].read
       /\ ~(c.op \in Starring /\ n = c.id /\ s = "ok") => mail'[n].star = mail[n].star
  /\ c.op \in Starring /\ s = "ok" => mail'[c.id].star = c.on
  /\ c.op = "read" /\ s = "ok" => mail'[c.id].read
  /\ s = "failed" \/ c.op \in {"list", "get"} => mail' = mail
  /\ s = "failed" /\ c.op \in Starring => mail[c.id].gone
Announces(c, s) ==
  /\ c.op = "list" => news' = (news /\ c.page # page.no)
  /\ s = "failed" \/ c.op = "get" => news' = news
  /\ s = "ok" /\ c.op \notin {"list", "get"} => news' = (news \/ Unseen(c))
Answers(c, s, a) ==
  /\ s \in {"ok", "failed"} /\ a \in AnswerSet
  /\ c.op = "list" => /\ s = "ok" /\ a.rows = Rows(c.place, c.offset)
                      /\ a.total = Cardinality(Listed(c.place))
  /\ c.op = "get" /\ s = "ok" => a.rows \subseteq {Row(c.id)}
  /\ s = "failed" \/ c.op \notin {"list", "get"} => a = c.ans
Served(c, s, a) ==
  /\ Changes(c, s) /\ Announces(c, s) /\ Answers(c, s, a)
  /\ calls' = (calls \ {c}) \cup {[c EXCEPT !.st = s, !.ans = a]}

LEMMA ListServed ==
  ASSUME TypeInv, NEW c \in calls, c.op = "list", ListMessages(c)
  PROVE  \E s, a : Served(c, s, a)
<1>1. PICK a : a = [rows |-> Rows(c.place, c.offset), total |-> Cardinality(Listed(c.place))]
  OBVIOUS
<1>2. a \in AnswerSet
  BY <1>1, CallIs, RowsOK DEF AnswerSet
<1>3. calls' = (calls \ {c}) \cup {[c EXCEPT !.st = "ok", !.ans = a]}
  <2>1. calls' = (calls \ {c}) \cup {[[c EXCEPT !.ans = a] EXCEPT !.st = "ok"]}
    BY <1>1 DEF ListMessages, Reply, Then
  <2>2. [[c EXCEPT !.ans = a] EXCEPT !.st = "ok"] = [c EXCEPT !.st = "ok", !.ans = a]
    BY CallIs DEF CallSet
  <2> QED BY <2>1, <2>2
<1>4. Changes(c, "ok")
  BY RestStays DEF ListMessages, Changes, Starring
<1>5. Announces(c, "ok") /\ Answers(c, "ok", a)
  BY <1>1, <1>2 DEF ListMessages, Announces, Answers
<1> QED BY <1>3, <1>4, <1>5 DEF Served

(* A request that is refused.                                              *)
LEMMA RefusedIs ==
  ASSUME TypeInv, NEW c \in calls, c.op # "list", mail' = mail, news' = news, Refuse(c),
         c.op \in Starring => mail[c.id].gone
  PROVE  \E s, a : Served(c, s, a)
<1>1. calls' = (calls \ {c}) \cup {[c EXCEPT !.st = "failed", !.ans = c.ans]}
  <2>1. calls' = (calls \ {c}) \cup {[c EXCEPT !.st = "failed"]}
    BY DEF Refuse, Then
  <2>2. [c EXCEPT !.st = "failed"] = [c EXCEPT !.st = "failed", !.ans = c.ans]
    BY CallIs DEF CallSet
  <2> QED BY <2>1, <2>2
<1>2. Changes(c, "failed")
  BY RestStays DEF Changes
<1>3. Announces(c, "failed") /\ Answers(c, "failed", c.ans)
  BY CallIs DEF Announces, Answers
<1> QED BY <1>1, <1>2, <1>3 DEF Served

(* A change that is made.                                                  *)
LEMMA RepliedIs ==
  ASSUME TypeInv, NEW c \in calls, c.op \notin {"list", "get"}, Changes(c, "ok"),
         Reply(c, c), news' = (news \/ Unseen(c))
  PROVE  \E s, a : Served(c, s, a)
<1>1. calls' = (calls \ {c}) \cup {[c EXCEPT !.st = "ok", !.ans = c.ans]}
  <2>1. calls' = (calls \ {c}) \cup {[c EXCEPT !.st = "ok"]}
    BY DEF Reply, Then
  <2>2. [c EXCEPT !.st = "ok"] = [c EXCEPT !.st = "ok", !.ans = c.ans]
    BY CallIs DEF CallSet
  <2> QED BY <2>1, <2>2
<1>2. Announces(c, "ok") /\ Answers(c, "ok", c.ans)
  BY CallIs DEF Announces, Answers
<1> QED BY <1>1, <1>2 DEF Served

LEMMA GetServed ==
  ASSUME TypeInv, NEW c \in calls, c.op = "get", GetMessage(c)
  PROVE  \E s, a : Served(c, s, a)
<1>1. CASE Here(c.id)
  <2>1. PICK a : a = [rows |-> {Row(c.id)}, total |-> 1]
    OBVIOUS
  <2>2. a \in AnswerSet
    <3>1. c.id \in Msg /\ 1 \in 0..MaxMsgs
      BY CallIs, Numbers, InboxAssumption
    <3>2. Row(c.id) \in RowSet
      BY <3>1, Numbers DEF Row, RowSet, MailSet
    <3> QED BY <2>1, <3>1, <3>2 DEF AnswerSet
  <2>3. calls' = (calls \ {c}) \cup {[c EXCEPT !.st = "ok", !.ans = a]}
    <3>1. calls' = (calls \ {c}) \cup {[[c EXCEPT !.ans = a] EXCEPT !.st = "ok"]}
      BY <1>1, <2>1 DEF GetMessage, Reply, Then
    <3>2. [[c EXCEPT !.ans = a] EXCEPT !.st = "ok"] = [c EXCEPT !.st = "ok", !.ans = a]
      BY CallIs DEF CallSet
    <3> QED BY <3>1, <3>2
  <2>4. Changes(c, "ok")
    BY RestStays DEF GetMessage, Changes, Starring
  <2>5. Announces(c, "ok") /\ Answers(c, "ok", a)
    BY <2>1, <2>2 DEF GetMessage, Announces, Answers
  <2> QED BY <2>3, <2>4, <2>5 DEF Served
<1>2. CASE ~Here(c.id)
  BY <1>2, RefusedIs DEF GetMessage, Starring
<1> QED BY <1>1, <1>2

LEMMA PatchServed ==
  ASSUME TypeInv, NEW c \in calls, c.op \in Starring \cup {"read"}, PatchMessage(c)
  PROVE  \E s, a : Served(c, s, a)
<1>0. c.op \notin {"list", "get"} /\ c.id \in Msg /\ c.on \in BOOLEAN
  BY CallIs DEF Starring
<1>1. CASE Here(c.id)
  <2>1. PICK r \in MailSet : /\ mail' = [mail EXCEPT ![c.id] = r]
                             /\ r.gone = mail[c.id].gone /\ (mail[c.id].read => r.read)
                             /\ c.op \in Starring => r.star = c.on
                             /\ c.op = "read" => r.read /\ r.star = mail[c.id].star
    <3>1. CASE c.op = "read"
      <4>1. PICK r : r = [mail[c.id] EXCEPT !.read = TRUE]
        OBVIOUS
      <4>2. mail' = [mail EXCEPT ![c.id] = r]
        BY <1>1, <3>1, <4>1 DEF PatchMessage
      <4>3. r \in MailSet /\ r.gone = mail[c.id].gone /\ r.read /\ r.star = mail[c.id].star
        BY <1>0, <4>1, Numbers DEF MailSet
      <4> QED BY <3>1, <4>2, <4>3 DEF Starring
    <3>2. CASE c.op # "read"
      <4>1. PICK r : r = [mail[c.id] EXCEPT !.star = c.on]
        OBVIOUS
      <4>2. mail' = [mail EXCEPT ![c.id] = r]
        BY <1>1, <3>2, <4>1 DEF PatchMessage
      <4>3. r \in MailSet /\ r.gone = mail[c.id].gone /\ r.star = c.on
            /\ r.read = mail[c.id].read
        BY <1>0, <4>1, Numbers DEF MailSet
      <4> QED BY <3>2, <4>2, <4>3
    <3> QED BY <3>1, <3>2
  <2>2. MailOK' /\ Len(mail') = Len(mail)
        /\ \A n \in Msg : mail'[n] = IF n = c.id THEN r ELSE mail[n]
    BY <1>0, <2>1, RowChanges
  <2>3. Changes(c, "ok")
    BY <1>0, <2>1, <2>2 DEF Changes
  <2> QED BY <1>0, <1>1, <2>3, RepliedIs DEF PatchMessage
<1>2. CASE ~Here(c.id)
  BY <1>0, <1>2, RefusedIs DEF PatchMessage, Here
<1> QED BY <1>1, <1>2

LEMMA DeleteServed ==
  ASSUME TypeInv, NEW c \in calls, c.op = "delete", DeleteMessage(c)
  PROVE  \E s, a : Served(c, s, a)
<1>1. c.id \in Msg
  BY CallIs
<1>2. PICK r : r = [mail[c.id] EXCEPT !.gone = TRUE]
  OBVIOUS
<1>3. r \in MailSet /\ r.gone /\ r.star = mail[c.id].star /\ r.read = mail[c.id].read
  BY <1>1, <1>2, Numbers DEF MailSet
<1>4. mail' = [mail EXCEPT ![c.id] = r]
  BY <1>2 DEF DeleteMessage
<1>5. MailOK' /\ Len(mail') = Len(mail)
      /\ \A n \in Msg : mail'[n] = IF n = c.id THEN r ELSE mail[n]
  BY <1>1, <1>3, <1>4, RowChanges
<1>6. Changes(c, "ok")
  BY <1>3, <1>5 DEF Changes, Starring
<1> QED BY <1>6, RepliedIs DEF DeleteMessage

LEMMA BatchServed ==
  ASSUME TypeInv, NEW c \in calls, c.op = "batch", BatchMessages(c)
  PROVE  \E s, a : Served(c, s, a)
<1>1. PICK D : mail' = [m \in Msg |-> [mail[m] EXCEPT !.gone = @ \/ \E t \in D : t.id = m]]
  BY DEF BatchMessages
<1>2. ASSUME NEW m \in Msg
      PROVE  /\ mail'[m] \in MailSet /\ mail'[m].star = mail[m].star
             /\ mail'[m].read = mail[m].read /\ (mail[m].gone => mail'[m].gone)
  <2>1. PICK b : b = (mail[m].gone \/ \E t \in D : t.id = m)
    OBVIOUS
  <2>2. b \in BOOLEAN /\ (mail[m].gone => b)
    BY <2>1
  <2>3. mail'[m] = [mail[m] EXCEPT !.gone = b]
    BY <1>1, <2>1
  <2> QED BY <2>2, <2>3, Numbers DEF MailSet
<1>3. DOMAIN mail' = DOMAIN mail /\ mail' = [m \in Msg |-> mail'[m]]
  <2>1. DOMAIN mail = Msg
    BY LenProperties DEF TypeInv, MailOK, Msg
  <2> QED BY <1>1, <2>1
<1>4. MailOK' /\ Len(mail') = Len(mail)
  BY <1>2, <1>3, RowsChange
<1>5. Changes(c, "ok")
  BY <1>2, <1>4 DEF Changes, Starring
<1> QED BY <1>5, RepliedIs DEF BatchMessages

LEMMA ServeIs ==
  ASSUME TypeInv, NEW c \in calls, Serve(c)
  PROVE  \E s, a : Served(c, s, a)
<1>1. CASE c.op = "list"
  BY <1>1, ListServed DEF Serve, Starring
<1>2. CASE c.op = "batch"
  BY <1>2, BatchServed DEF Serve, Starring
<1>3. CASE c.op = "get"
  BY <1>3, GetServed DEF Serve, Starring
<1>4. CASE c.op \in Starring \cup {"read"}
  <2>1. PatchMessage(c)
    BY <1>4 DEF Serve, Starring
  <2> QED BY <1>4, <2>1, PatchServed
<1>5. CASE c.op = "delete"
  BY <1>5, DeleteServed DEF Serve, Starring
<1>6. c.op \in Op
  BY CallIs
<1> QED BY <1>1, <1>2, <1>3, <1>4, <1>5, <1>6 DEF Op, Starring

(* A request that changes its state.                                       *)
LEMMA CallChanges ==
  ASSUME TypeInv, MailOK', Len(mail') = Len(mail), page' = page, NEW c \in calls,
         NEW s \in {"ok", "failed"}, NEW a \in AnswerSet,
         c.op = "list" => Cardinality(a.rows) <= Limit,
         calls' = (calls \ {c}) \cup {[c EXCEPT !.st = s, !.ans = a]}
  PROVE  PageOK' /\ CallsOK'
<1>1. Msg' = Msg /\ PageSet' = PageSet /\ CallSet' = CallSet
  BY SetsStay
<1>2. PageOK'
  BY <1>1 DEF TypeInv, PageOK
<1>3. PICK d : d = [c EXCEPT !.st = s, !.ans = a]
  OBVIOUS
<1>4. d \in CallSet /\ d.op = c.op /\ d.id = c.id /\ d.page = c.page /\ d.seen = c.seen /\ d.ans = a
  BY <1>3, CallIs DEF CallSet
<1>5. CallOK(d)'
  BY <1>1, <1>4, CallIs DEF CallOK
<1>6. Len(mail) <= Len(mail') /\ page'.no \in Nat /\ page.no <= page'.no
  BY Numbers, PageTyped
<1> QED BY <1>2, <1>3, <1>5, <1>6, OneMore

LEMMA ServeTypes ==
  ASSUME TypeInv, NEW c \in calls, Serve(c)
  PROVE  TypeInv'
<1>1. PICK s, a : Served(c, s, a)
  BY ServeIs
<1>2. /\ MailOK' /\ Len(mail') = Len(mail) /\ s \in {"ok", "failed"} /\ a \in AnswerSet
      /\ calls' = (calls \ {c}) \cup {[c EXCEPT !.st = s, !.ans = a]}
  BY <1>1 DEF Served, Changes, Answers
<1>3. c.op = "list" => Cardinality(a.rows) <= Limit
  <2>1. ASSUME c.op = "list"
        PROVE  Cardinality(a.rows) <= Limit
    <3>1. a.rows = Rows(c.place, c.offset)
      BY <1>1, <2>1 DEF Served, Answers
    <3>2. c.place \in Place /\ c.offset \in Nat
      BY CallIs
    <3>3. Cardinality(Rows(c.place, c.offset)) <= Limit
      BY <3>2, RowsOK
    <3> QED BY <3>1, <3>3
  <2> QED BY <2>1
<1>4. page' = page /\ stream' = stream /\ event' = event /\ turns' = turns /\ wish' = wish
  BY DEF Serve
<1>5. PageOK' /\ CallsOK'
  BY <1>2, <1>3, <1>4, CallChanges
<1>6. news' \in BOOLEAN
  <2>1. c.op = "list" \/ s = "failed" \/ c.op = "get" \/ (s = "ok" /\ c.op \notin {"list", "get"})
    BY <1>2
  <2>2. news' = (news /\ c.page # page.no) \/ news' = news \/ news' = (news \/ Unseen(c))
    BY <1>1, <2>1 DEF Served, Announces
  <2> QED BY <2>2 DEF TypeInv, StreamOK
<1>7. StreamOK' /\ CountsOK'
  BY <1>4, <1>6 DEF TypeInv, StreamOK, CountsOK
<1> QED BY <1>2, <1>5, <1>7 DEF TypeInv

LEMMA FailTypes ==
  ASSUME TypeInv, NEW c \in calls, Fail(c)
  PROVE  TypeInv'
<1>1. mail' = mail /\ page' = page /\ stream' = stream /\ event' = event /\ Turn
  BY DEF Fail
<1>2. MailOK' /\ Len(mail') = Len(mail)
  BY <1>1, RestStays
<1>3. calls' = (calls \ {c}) \cup {[c EXCEPT !.st = "failed", !.ans = c.ans]}
  <2>1. calls' = (calls \ {c}) \cup {[c EXCEPT !.st = "failed"]}
    BY DEF Fail, Refuse, Then
  <2>2. [c EXCEPT !.st = "failed"] = [c EXCEPT !.st = "failed", !.ans = c.ans]
    BY CallIs DEF CallSet
  <2> QED BY <2>1, <2>2
<1>4. PageOK' /\ CallsOK'
  BY <1>1, <1>2, <1>3, CallIs, CallChanges DEF CallOK
<1>5. StreamOK'
  BY <1>1 DEF Fail, TypeInv, StreamOK
<1>6. CountsOK'
  <2>1. turns' \in 0..MaxTurns
    BY <1>1, InboxAssumption DEF TypeInv, CountsOK, Turn
  <2>2. wish' \in [1..MaxMsgs -> {"none", "on", "off"}]
    BY DEF Fail, Unwished, TypeInv, CountsOK
  <2> QED BY <2>1, <2>2 DEF CountsOK
<1> QED BY <1>2, <1>4, <1>5, <1>6 DEF TypeInv

LEMMA DeliverTypes ==
  ASSUME TypeInv, Deliver
  PROVE  TypeInv'
<1>1. PICK r : r = [label |-> "inbox", star |-> FALSE, read |-> FALSE, gone |-> FALSE]
  OBVIOUS
<1>2. r \in MailSet /\ mail' = Append(mail, r)
  BY <1>1, InboxAssumption DEF Deliver, MailSet
<1>3. MailOK' /\ Len(mail) <= Len(mail')
  <2>1. mail \in Seq(MailSet) /\ Len(mail) \in Nat
    BY Numbers DEF TypeInv, MailOK
  <2>2. mail' \in Seq(MailSet) /\ Len(mail') = Len(mail) + 1
    BY <1>2, <2>1, AppendProperties
  <2>3. Len(mail') <= MaxMsgs
    BY <2>1, <2>2, InboxAssumption DEF Deliver
  <2> QED BY <2>1, <2>2, <2>3 DEF MailOK, MailSet
<1>4. page' = page /\ calls' = calls /\ stream' = stream /\ wish' = wish /\ Turn
  BY DEF Deliver
<1>5. PageOK'
  <2>1. page \in PageSet' /\ Msg \subseteq Msg'
    BY <1>3, PageTyped, SetsGrow
  <2> QED BY <1>4, <2>1, PageTyped DEF PageOK
<1>6. CallsOK'
  BY <1>3, <1>4, NoMore, PageTyped
<1>7. StreamOK'
  <2>1. CASE stream /\ event' = TRUE /\ news' = news
    BY <1>4, <2>1 DEF TypeInv, StreamOK
  <2>2. CASE event' = event /\ news' = TRUE
    BY <1>4, <2>2 DEF TypeInv, StreamOK
  <2> QED BY <2>1, <2>2 DEF Deliver
<1>8. CountsOK'
  BY <1>4, InboxAssumption DEF TypeInv, CountsOK, Turn
<1> QED BY <1>3, <1>5, <1>6, <1>7, <1>8 DEF TypeInv

(* What Elsewhere does to the mailbox.                                     *)
LEMMA ElsewhereIs ==
  ASSUME TypeInv, NEW m \in Msg, Elsewhere(m)
  PROVE  \E r \in MailSet :
           /\ mail' = [mail EXCEPT ![m] = r] /\ r.read = mail[m].read
           /\ MailOK' /\ Len(mail') = Len(mail)
           /\ \A n \in Msg : mail'[n] = IF n = m THEN r ELSE mail[n]
<1>1. PICK r \in MailSet : mail' = [mail EXCEPT ![m] = r] /\ r.read = mail[m].read
  <2>1. CASE mail' = [mail EXCEPT ![m].gone = TRUE]
    <3>1. PICK r : r = [mail[m] EXCEPT !.gone = TRUE]
      OBVIOUS
    <3>2. r \in MailSet /\ r.read = mail[m].read
      BY <3>1, Numbers DEF MailSet
    <3> QED BY <2>1, <3>1, <3>2
  <2>2. CASE mail' = [mail EXCEPT ![m].star = ~@]
    <3>1. PICK b : b = ~mail[m].star
      OBVIOUS
    <3>2. PICK r : r = [mail[m] EXCEPT !.star = b]
      OBVIOUS
    <3>3. b \in BOOLEAN
      BY <3>1
    <3>4. r \in MailSet /\ r.read = mail[m].read
      BY <3>2, <3>3, Numbers DEF MailSet
    <3> QED BY <2>2, <3>1, <3>2, <3>4
  <2> QED BY <2>1, <2>2 DEF Elsewhere
<1> QED BY <1>1, RowChanges

LEMMA ElsewhereTypes ==
  ASSUME TypeInv, NEW m \in Msg, Elsewhere(m)
  PROVE  TypeInv'
<1>1. MailOK' /\ Len(mail') = Len(mail)
  BY ElsewhereIs
<1>2. page' = page /\ calls' = calls /\ stream' = stream /\ event' = event /\ news' = TRUE /\ Turn
  BY DEF Elsewhere
<1>3. PageOK'
  BY <1>1, <1>2, SetsStay DEF TypeInv, PageOK
<1>4. CallsOK'
  BY <1>1, <1>2, NoMore, PageTyped, Numbers
<1>5. StreamOK'
  BY <1>2 DEF TypeInv, StreamOK
<1>6. CountsOK'
  <2>1. turns' \in 0..MaxTurns
    BY <1>2, InboxAssumption DEF TypeInv, CountsOK, Turn
  <2>2. wish' \in [1..MaxMsgs -> {"none", "on", "off"}]
    BY DEF Elsewhere, TypeInv, CountsOK
  <2> QED BY <2>1, <2>2 DEF CountsOK
<1> QED BY <1>1, <1>3, <1>4, <1>5, <1>6 DEF TypeInv

LEMMA ConnectTypes ==
  ASSUME TypeInv, Connect \/ Disconnect
  PROVE  TypeInv'
<1>1. mail' = mail /\ page' = page /\ calls' = calls /\ wish' = wish /\ (turns' = turns \/ Turn)
  BY DEF Connect, Disconnect
<1>2. MailOK' /\ CountsOK' /\ PageOK' /\ CallsOK'
  BY <1>1, RestStays, PageStays
<1>3. StreamOK'
  <2>1. CASE Connect
    BY <2>1 DEF Connect, TypeInv, StreamOK
  <2>2. CASE Disconnect
    BY <2>2 DEF Disconnect, TypeInv, StreamOK
  <2> QED BY <2>1, <2>2
<1> QED BY <1>2, <1>3 DEF TypeInv

(* An answer is handled: it is gone, and there may be one more request.    *)
LEMMA AnswerStep ==
  ASSUME TypeInv, NEW c \in calls, Answer(c), PageOK', CallsOK'
  PROVE  TypeInv'
<1>1. mail' = mail /\ stream' = stream /\ event' = event /\ turns' = turns /\ wish' = wish
      /\ news' = news
  BY DEF Answer
<1>2. MailOK' /\ StreamOK' /\ CountsOK'
  BY <1>1, RestStays DEF TypeInv, StreamOK
<1> QED BY <1>2 DEF TypeInv

(* The page after an answer, when it only shows something else.            *)
LEMMA Shows ==
  ASSUME TypeInv, mail' = mail, calls' \subseteq calls, page' \in PageSet, page'.no = page.no,
         page'.at = page.at, page'.id = page.id, Cardinality(page'.rows) <= Limit
  PROVE  PageOK' /\ CallsOK'
<1>1. MailOK' /\ Len(mail) <= Len(mail') /\ Len(mail') = Len(mail)
  BY RestStays
<1>2. Msg' = Msg /\ PageSet' = PageSet
  BY <1>1, SetsStay
<1>3. PageOK'
  BY <1>2, PageTyped DEF PageOK
<1> QED BY <1>1, <1>3, NoMore, PageTyped

LEMMA SetMessagesTypes ==
  ASSUME TypeInv, NEW c \in calls, mail' = mail, SetMessages(c)
  PROVE  PageOK' /\ CallsOK'
<1>1. calls' \subseteq calls /\ c.op = "list"
  BY DEF SetMessages, Then
<1>2. CASE page' = page
  BY <1>1, <1>2, PageStays
<1>3. CASE page' = [page EXCEPT !.rows = c.ans.rows, !.total = c.ans.total]
  <2>1. Cardinality(c.ans.rows) <= Limit
    BY <1>1, CallIs DEF CallOK
  <2>2. c.ans.rows \subseteq RowSet /\ c.ans.total \in 0..MaxMsgs
    BY CallIs
  <2>3. page' \in PageSet /\ page'.no = page.no /\ page'.at = page.at /\ page'.id = page.id
        /\ page'.rows = c.ans.rows
    BY <1>3, <2>2, PageTyped DEF PageSet
  <2> QED BY <1>1, <2>1, <2>3, Shows
<1>4. CASE page' = [page EXCEPT !.mixed = TRUE]
  <2>1. page' \in PageSet /\ page'.no = page.no /\ page'.at = page.at /\ page'.id = page.id
        /\ page'.rows = page.rows
    BY <1>4, PageTyped DEF PageSet
  <2> QED BY <1>1, <2>1, Shows, PageTyped
<1> QED BY <1>2, <1>3, <1>4 DEF SetMessages

LEMMA ChangedTypes ==
  ASSUME TypeInv, NEW c \in calls, mail' = mail, Changed(c)
  PROVE  PageOK' /\ CallsOK'
<1>1. CASE ~Mine(c) \/ c.st = "failed"
  <2>1. calls' \subseteq calls /\ page' = page
    BY <1>1 DEF Changed, Drop, Then
  <2> QED BY <2>1, PageStays
<1>2. CASE Mine(c) /\ c.st # "failed"
  <2>1. PICK q : q = IF c.op = "star" THEN page ELSE [page EXCEPT !.ticks = {}]
    OBVIOUS
  <2>2. /\ q \in PageSet /\ q.no = page.no /\ q.at = page.at /\ q.id = page.id
        /\ q.rows = page.rows
    BY <2>1, PageTyped DEF PageSet
  <2>3. PICK b \in BOOLEAN : page' = [q EXCEPT !.mixed = b]
    <3>1. page' = Fetched(q, calls, c.place, c.offset)
      BY <1>2, <2>1 DEF Changed
    <3> QED BY <3>1, FetchedTyped
  <2>4. calls' \subseteq calls \cup {ListCall(q.no, c.place, c.offset)}
    BY <1>2, <2>2 DEF Changed, Then, Mine
  <2>5. c.place \in Place /\ c.offset \in 0..MaxMsgs
    BY CallIs
  <2>6. Cardinality(q.rows) <= Limit /\ (q.at = "view" => q.id \in Msg) /\ page.no <= q.no
    BY <2>2, PageTyped
  <2> QED BY <2>2, <2>3, <2>4, <2>5, <2>6, FetchStep
<1> QED BY <1>1, <1>2

(* The request that an answer of "get" makes, if it makes one.             *)
LEMMA ReadCall ==
  ASSUME TypeInv, NEW c \in calls, SetMessage(c)
  PROVE  \E e \in CallSet :
           /\ calls' \subseteq (calls \ {c}) \cup {e} /\ calls \ {c} \subseteq calls'
           /\ e.op = "read" /\ e.st = "asked" /\ e.id = c.id /\ e.page = c.page
           /\ e.ans = NoAnswer
           /\ (c.st = "ok" /\ \E r \in c.ans.rows : ~r.read) => e \in calls'
<1>1. PICK e : e = [c EXCEPT !.op = "read", !.st = "asked", !.ans = NoAnswer]
  OBVIOUS
<1>2. NoAnswer \in AnswerSet
  BY Numbers DEF NoAnswer, AnswerSet
<1>3. e \in CallSet /\ e.op = "read" /\ e.st = "asked" /\ e.id = c.id /\ e.page = c.page
      /\ e.ans = NoAnswer
  BY <1>1, <1>2, CallIs DEF CallSet, Op
<1>4. calls' = (calls \ {c}) \cup {e : r \in {s \in {r \in c.ans.rows : c.st = "ok"} : ~s.read}}
  BY <1>1 DEF SetMessage, Then
<1>5. calls' \subseteq (calls \ {c}) \cup {e} /\ calls \ {c} \subseteq calls'
  BY <1>4
<1>6. (c.st = "ok" /\ \E r \in c.ans.rows : ~r.read) => e \in calls'
  BY <1>4
<1> QED BY <1>3, <1>5, <1>6

LEMMA SetMessageTypes ==
  ASSUME TypeInv, NEW c \in calls, mail' = mail, SetMessage(c)
  PROVE  PageOK' /\ CallsOK'
<1>1. MailOK' /\ Len(mail) <= Len(mail') /\ Len(mail') = Len(mail)
  BY RestStays
<1>2. Msg' = Msg /\ PageSet' = PageSet /\ CallSet' = CallSet
  BY <1>1, SetsStay
<1>3. \/ page' = page
      \/ \E r \in RowSet : page' = [page EXCEPT !.msg = r, !.loading = FALSE]
      \/ page' = [page EXCEPT !.loading = FALSE, !.mixed = TRUE]
  BY CallIs DEF SetMessage
<1>4. /\ page' \in PageSet /\ page'.no = page.no /\ page'.at = page.at /\ page'.id = page.id
      /\ page'.rows = page.rows
  <2>1. CASE page' = page
    BY <2>1, PageTyped
  <2>2. ASSUME NEW r \in RowSet, page' = [page EXCEPT !.msg = r, !.loading = FALSE]
        PROVE  /\ page' \in PageSet /\ page'.no = page.no /\ page'.at = page.at
               /\ page'.id = page.id /\ page'.rows = page.rows
    BY <2>2, PageTyped DEF PageSet
  <2>3. CASE page' = [page EXCEPT !.loading = FALSE, !.mixed = TRUE]
    BY <2>3, PageTyped DEF PageSet
  <2> QED BY <1>3, <2>1, <2>2, <2>3
<1>5. PageOK'
  BY <1>2, <1>4, PageTyped DEF PageOK
<1>6. PICK e \in CallSet : calls' \subseteq (calls \ {c}) \cup {e} /\ e.op = "read" /\ e.id = c.id
                           /\ e.page = c.page /\ e.ans = NoAnswer
  BY ReadCall
<1>7. c.op = "get"
  BY DEF SetMessage
<1>8. c.id \in Msg /\ c.page <= page'.no
  BY <1>4, <1>7, CallIs
<1>9. CallOK(e)'
  BY <1>2, <1>6, <1>8, NoRows DEF CallOK
<1>10. page.no <= page'.no /\ page'.no \in Nat /\ calls' \subseteq calls \cup {e}
  BY <1>4, <1>6, PageTyped
<1> QED BY <1>1, <1>5, <1>9, <1>10, OneMore

LEMMA SetStarTypes ==
  ASSUME TypeInv, NEW c \in calls, mail' = mail, SetStar(c)
  PROVE  PageOK' /\ CallsOK'
<1>1. calls' \subseteq calls /\ c.op = "starView"
  BY DEF SetStar, Then
<1>2. CASE page' = page
  BY <1>1, <1>2, PageStays
<1>3. CASE page' # page
  <2>1. PICK x, b : /\ x = [page.msg EXCEPT !.id = c.seen, !.star = c.on]
                    /\ b = (page.mixed \/ c.id # page.id)
    OBVIOUS
  <2>2. page' = [page EXCEPT !.msg = x, !.mixed = b]
    BY <1>3, <2>1 DEF SetStar
  <2>3. x \in RowSet
    <3>1. page.msg \in [id : Ids, star : BOOLEAN, read : BOOLEAN]
      <4>1. page.msg \in RowSet \cup {NoMsg}
        BY DEF TypeInv, PageOK, PageSet
      <4>2. RowSet \subseteq [id : Ids, star : BOOLEAN, read : BOOLEAN]
        BY DEF RowSet, Ids
      <4>3. NoMsg \in [id : Ids, star : BOOLEAN, read : BOOLEAN]
        BY DEF NoMsg, Ids
      <4> QED BY <4>1, <4>2, <4>3
    <3>2. c.seen \in Msg /\ c.on \in BOOLEAN
      BY <1>1, CallIs
    <3> QED BY <2>1, <3>1, <3>2 DEF RowSet
  <2>4. b \in BOOLEAN
    BY <2>1
  <2>5. page' \in PageSet /\ page'.no = page.no /\ page'.at = page.at /\ page'.id = page.id
        /\ page'.rows = page.rows
    BY <2>2, <2>3, <2>4, PageTyped DEF PageSet
  <2> QED BY <1>1, <2>5, Shows, PageTyped
<1> QED BY <1>2, <1>3

LEMMA MarkedTypes ==
  ASSUME TypeInv, NEW c \in calls, mail' = mail, Marked(c)
  PROVE  PageOK' /\ CallsOK'
<1>1. calls' \subseteq calls
  BY DEF Marked, Then
<1>2. CASE page' = page
  BY <1>1, <1>2, PageStays
<1>3. CASE page' = [page EXCEPT !.mixed = TRUE]
  <2>1. page' \in PageSet /\ page'.no = page.no /\ page'.at = page.at /\ page'.id = page.id
        /\ page'.rows = page.rows
    BY <1>3, PageTyped DEF PageSet
  <2> QED BY <1>1, <2>1, Shows, PageTyped
<1> QED BY <1>2, <1>3 DEF Marked

LEMMA GoBackTypes ==
  ASSUME TypeInv, NEW c \in calls, mail' = mail, GoBack(c)
  PROVE  PageOK' /\ CallsOK'
<1>1. CASE c.st = "failed"
  <2>1. calls' \subseteq calls /\ page' = page
    BY <1>1 DEF GoBack, Drop, Then
  <2> QED BY <2>1, PageStays
<1>2. CASE c.st # "failed"
  <2>1. PICK n, q : n = page.no + 1 /\ q = Blank(n)
    OBVIOUS
  <2>2. n \in 1..MaxPages /\ page.no <= n
    BY <1>2, <2>1, PageTyped, InboxAssumption DEF GoBack
  <2>3. q \in PageSet /\ Cardinality(q.rows) <= Limit /\ q.no = n /\ q.at = "list"
        /\ q.mixed = FALSE
    BY <2>1, <2>2, BlankTyped
  <2>4. ASSUME NEW p \in Place, Then(c, {ListCall(page.no + 1, p, 0)}),
               page' = [Blank(page.no + 1) EXCEPT !.place = p]
        PROVE  PageOK' /\ CallsOK'
    <3>1. PICK r : r = [q EXCEPT !.place = p]
      OBVIOUS
    <3>2. r \in PageSet /\ r.rows = q.rows /\ r.no = n /\ r.at = "list" /\ r.mixed = FALSE
      BY <2>3, <3>1 DEF PageSet
    <3>3. page' = [r EXCEPT !.mixed = FALSE]
      <4>1. page' = r
        BY <2>1, <2>4, <3>1
      <4> QED BY <3>2, <4>1 DEF PageSet
    <3>4. calls' \subseteq calls \cup {ListCall(r.no, p, 0)}
      BY <2>1, <2>4, <3>2 DEF Then
    <3>5. page.no <= r.no /\ 0 \in 0..MaxMsgs /\ FALSE \in BOOLEAN /\ Cardinality(r.rows) <= Limit
      BY <2>2, <2>3, <3>2, Numbers
    <3> QED BY <3>2, <3>3, <3>4, <3>5, FetchStep
  <2>5. ASSUME Then(c, {GetCall(page.no + 1, c.id)}),
               page' = [Blank(page.no + 1) EXCEPT !.at = "view", !.id = c.id]
        PROVE  PageOK' /\ CallsOK'
    <3>1. c.op = "delete"
      BY DEF GoBack
    <3>2. c.id \in Msg
      BY <3>1, CallIs
    <3>3. page' = [q EXCEPT !.at = "view", !.id = c.id]
      BY <2>1, <2>5
    <3>4. page' \in PageSet /\ page'.no = n /\ page'.rows = q.rows /\ page'.id = c.id
      BY <2>3, <3>2, <3>3 DEF PageSet, Ids
    <3>5. calls' \subseteq calls \cup {GetCall(page'.no, c.id)}
      <4>1. PICK e : e = GetCall(n, c.id)
        OBVIOUS
      <4>2. calls' \subseteq calls \cup {e}
        BY <2>1, <2>5, <4>1 DEF Then
      <4> QED BY <3>4, <4>1, <4>2
    <3> QED BY <2>2, <2>3, <3>2, <3>4, <3>5, ViewStep
  <2> QED BY <1>2, <2>4, <2>5 DEF GoBack
<1> QED BY <1>1, <1>2

LEMMA AnswerTypes ==
  ASSUME TypeInv, NEW c \in calls, Answer(c)
  PROVE  TypeInv'
<1>1. mail' = mail
  BY DEF Answer
<1>2. PageOK' /\ CallsOK'
  BY <1>1, SetMessagesTypes, ChangedTypes, SetMessageTypes, SetStarTypes, MarkedTypes,
     GoBackTypes DEF Answer
<1> QED BY <1>2, AnswerStep

LEMMA InitTypes ==
  ASSUME Init
  PROVE  TypeInv
<1>1. MailOK
  <2>1. PICK label \in [1..Stored -> Label] :
          mail = [m \in 1..Stored |-> [label |-> label[m], star |-> FALSE, read |-> FALSE,
                                       gone |-> FALSE]]
    BY DEF Init
  <2>2. mail \in [1..Stored -> MailSet]
    BY <2>1 DEF MailSet
  <2>3. Stored \in Nat /\ Stored <= MaxMsgs
    BY InboxAssumption
  <2>4. mail \in Seq(MailSet) /\ Len(mail) = Stored
    BY <2>2, <2>3
  <2> QED BY <2>3, <2>4 DEF MailOK
<1>2. StreamOK
  BY DEF Init, StreamOK
<1>3. CountsOK
  BY InboxAssumption DEF Init, CountsOK
<1>4. 1 \in 1..MaxPages /\ 0 \in 0..MaxMsgs /\ "inbox" \in Place
  BY InboxAssumption DEF Place
<1>5. Cardinality({}) = 0 /\ Cardinality({}) <= Limit
  BY FS_EmptySet, InboxAssumption
<1>6. page = [no |-> 1, at |-> "list", place |-> "inbox", offset |-> 0, rows |-> {},
              total |-> 0, ticks |-> {}, id |-> None, msg |-> NoMsg, loading |-> TRUE,
              mixed |-> FALSE]
  BY DEF Init, Blank
<1>7. PageOK
  BY <1>4, <1>5, <1>6 DEF PageOK, PageSet, Ids
<1>8. PICK e : e = [op |-> "list", page |-> 1, id |-> None, place |-> "inbox", offset |-> 0,
                    ticks |-> {}, on |-> FALSE, seen |-> None, mixed |-> FALSE, tag |-> 1,
                    st |-> "asked", ans |-> NoAnswer]
  OBVIOUS
<1>9. calls = {e}
  BY <1>8 DEF Init
<1>10. CallOK(e)
  <2>1. NoAnswer \in AnswerSet
    BY <1>4 DEF NoAnswer, AnswerSet
  <2>2. e \in CallSet
    BY <1>4, <1>8, <2>1 DEF CallSet, Op, Ids
  <2>3. e.page <= page.no /\ e.op = "list" /\ e.ans = NoAnswer
    BY <1>6, <1>8
  <2> QED BY <2>2, <2>3, NoRows DEF CallOK
<1>11. CallsOK
  BY <1>9, <1>10, FS_Singleton DEF CallsOK
<1> QED BY <1>1, <1>2, <1>3, <1>7, <1>11 DEF TypeInv

LEMMA StutterTypes ==
  ASSUME TypeInv, UNCHANGED vars
  PROVE  TypeInv'
<1>1. mail' = mail /\ stream' = stream /\ event' = event /\ news' = news /\ wish' = wish
      /\ page' = page /\ calls' = calls /\ turns' = turns
  BY DEF vars
<1>2. MailOK' /\ StreamOK' /\ CountsOK' /\ PageOK' /\ CallsOK'
  BY <1>1, RestStays, PageStays DEF TypeInv, StreamOK
<1> QED BY <1>2 DEF TypeInv

LEMMA NextTypes ==
  ASSUME TypeInv, Next
  PROVE  TypeInv'
<1>1. CASE \E p \in Place : GoTo(p)
  BY <1>1, GoToTypes
<1>2. CASE Previous \/ Following \/ Refresh \/ MessageNew
  BY <1>2, PagerTypes, RefreshTypes
<1>3. CASE \E m \in Msg : ToggleSelect(m) \/ OpenMessage(m) \/ JumpTo(m) \/ Elsewhere(m)
  BY <1>3, ToggleTypes, OpenTypes, JumpTypes, ElsewhereTypes
<1>4. CASE ToggleSelectAll \/ HandleBatch \/ HandleDelete
  BY <1>4, ToggleTypes, HandleBatchTypes, HandleDeleteTypes
<1>5. CASE ToggleStarOfView \/ \E r \in page.rows : HandleToggleStar(r)
  BY <1>5, StarClicks, StarTypes
<1>6. CASE \E c \in calls : Serve(c) \/ Fail(c) \/ Answer(c)
  BY <1>6, ServeTypes, FailTypes, AnswerTypes
<1>7. CASE Deliver \/ Disconnect \/ Connect
  BY <1>7, DeliverTypes, ConnectTypes
<1> QED BY <1>1, <1>2, <1>3, <1>4, <1>5, <1>6, <1>7 DEF Next

LEMMA TypesTold == TypeInv => TypeOK
<1> SUFFICES ASSUME TypeInv
             PROVE  TypeOK
  OBVIOUS
<1>1. ASSUME NEW c \in calls
      PROVE  c \in [op : Op, page : 1..page.no, id : Msg \cup {None}, place : Place,
                    offset : 0..MaxMsgs, ticks : SUBSET TickSet, on : BOOLEAN,
                    seen : Msg \cup {None}, mixed : BOOLEAN, tag : {1, 2},
                    st : {"asked", "ok", "failed"},
                    ans : [rows : SUBSET RowSet, total : 0..MaxMsgs]]
  <2>1. c \in CallSet /\ c.page \in 1..page.no
    BY CallIs, PageTyped
  <2> QED BY <2>1 DEF CallSet, AnswerSet, Ids
<1>2. page \in [no : 1..MaxPages, at : {"list", "view"}, place : Place, offset : 0..MaxMsgs,
                rows : SUBSET RowSet, total : 0..MaxMsgs, ticks : SUBSET TickSet,
                id : Msg \cup {None}, msg : RowSet \cup {NoMsg}, loading : BOOLEAN,
                mixed : BOOLEAN]
  BY PageTyped DEF PageSet, Ids
<1>3. Cardinality(page.rows) <= Limit
  BY PageTyped
<1> QED BY <1>1, <1>2, <1>3 DEF TypeInv, MailOK, StreamOK, CountsOK, MailSet, TypeOK

LEMMA TypesAlways == Spec => []TypeInv
<1>1. TypeInv /\ [Next]_vars => TypeInv'
  BY NextTypes, StutterTypes
<1> QED BY InitTypes, <1>1, PTL DEF Spec

(* The page and the requests in progress refer to messages and pages there *)
(* are, a list has no more rows than a page holds, and no event is on its  *)
(* way to a page whose stream is closed (Inbox.jsx, MessageView.jsx,       *)
(* sse.js).                                                                *)
THEOREM InboxTypeCorrect == Spec => []TypeOK
<1>1. TypeInv => TypeOK
  BY TypesTold
<1> QED BY TypesAlways, <1>1, PTL

-----------------------------------------------------------------------------
(* The shapes of a step                                                    *)

(* The list that is open is fetched, at its place or at another one.       *)
Fetching ==
  \E p \in Place, o \in 0..MaxMsgs, T \in SUBSET page.ticks, b \in BOOLEAN :
    /\ page.at = "list" /\ mail' = mail /\ wish' = wish /\ news' = news
    /\ page' = [page EXCEPT !.place = p, !.offset = o, !.ticks = T, !.mixed = b]
    /\ T # {} => p = page.place /\ o = page.offset
    /\ Of(page.no, {"list"}) # {} => b
    /\ calls' = calls \cup {ListCall(page.no, p, o)}

(* Another page is opened: a list, or the page of a message.               *)
Opening ==
  \E n \in 1..MaxPages, D \in SUBSET calls :
    /\ n = page.no + 1 /\ page'.no = n /\ mail' = mail /\ wish' = wish
    /\ page'.ticks = {} /\ page'.loading
    /\ \A d \in calls \ D : d.op = "delete"
    /\ \/ \E p \in Place, o \in 0..MaxMsgs :
            /\ page'.at = "list" /\ page'.place = p /\ page'.offset = o
            /\ calls' = D \cup {ListCall(n, p, o)}
       \/ \E m \in Msg :
            /\ page'.at = "view" /\ page'.id = m
            /\ calls' = D \cup {GetCall(n, m)}

LEMMA ShowIs ==
  ASSUME TypeInv, mail' = mail, wish' = wish, news' = news, page.at = "list",
         NEW p \in Place, NEW o \in 0..MaxMsgs, Show(p, o, page)
  PROVE  Fetching
<1>1. PICK b : b = (Of(page.no, {"list"}) # {})
  OBVIOUS
<1>2. page' = [page EXCEPT !.place = p, !.offset = o, !.ticks = {}, !.mixed = b]
  <2>1. PICK r : r = [page EXCEPT !.place = p, !.offset = o, !.ticks = {}]
    OBVIOUS
  <2>2. r.place = p /\ r.offset = o /\ r.no = page.no
    BY <2>1, PageTyped DEF PageSet
  <2>3. b = (\/ \E c \in calls : c.page = r.no /\ c.op = "list"
             \/ <<p, o>> # <<r.place, r.offset>>)
    BY <1>1, <2>2 DEF Of
  <2>4. page' = [r EXCEPT !.mixed = b]
    BY <2>1, <2>3 DEF Show, Fetched
  <2> QED BY <2>1, <2>4
<1>3. calls' = calls \cup {ListCall(page.no, p, o)}
  BY DEF Show, Ask
<1>4. b \in BOOLEAN /\ {} \in SUBSET page.ticks
  BY <1>1
<1> QED BY <1>1, <1>2, <1>3, <1>4 DEF Fetching

LEMMA FetchIs ==
  ASSUME TypeInv, mail' = mail, wish' = wish, news' = news, page.at = "list", FetchMessages
  PROVE  Fetching
<1>1. PICK b : b = (Of(page.no, {"list"}) # {})
  OBVIOUS
<1>2. page' = [page EXCEPT !.mixed = b]
  <2>1. b = (\/ \E c \in calls : c.page = page.no /\ c.op = "list"
             \/ <<page.place, page.offset>> # <<page.place, page.offset>>)
    BY <1>1 DEF Of
  <2> QED BY <2>1 DEF FetchMessages, Fetched
<1>3. PICK p, o, T : p = page.place /\ o = page.offset /\ T = page.ticks
  OBVIOUS
<1>4. p \in Place /\ o \in 0..MaxMsgs /\ T \in SUBSET page.ticks /\ b \in BOOLEAN
  BY <1>1, <1>3, PageTyped
<1>5. page' = [page EXCEPT !.place = p, !.offset = o, !.ticks = T, !.mixed = b]
  BY <1>2, <1>3, PageTyped DEF PageSet
<1>6. calls' = calls \cup {ListCall(page.no, p, o)}
  BY <1>3 DEF FetchMessages, Ask
<1> QED BY <1>1, <1>3, <1>4, <1>5, <1>6 DEF Fetching

LEMMA OpeningList ==
  ASSUME TypeInv, mail' = mail, wish' = wish, NEW n \in 1..MaxPages, n = page.no + 1,
         NEW D \in SUBSET calls, \A d \in calls \ D : d.op = "delete",
         NEW p \in Place, NEW o \in 0..MaxMsgs, NEW b \in BOOLEAN,
         page' = [Blank(n) EXCEPT !.place = p, !.offset = o, !.ticks = {}, !.mixed = b],
         calls' = D \cup {ListCall(n, p, o)}
  PROVE  Opening
<1>1. /\ page'.no = n /\ page'.ticks = {} /\ page'.loading /\ page'.at = "list"
      /\ page'.place = p /\ page'.offset = o
  BY DEF Blank
<1> QED BY <1>1 DEF Opening

LEMMA OpeningView ==
  ASSUME TypeInv, mail' = mail, wish' = wish, NEW n \in 1..MaxPages, n = page.no + 1,
         NEW D \in SUBSET calls, \A d \in calls \ D : d.op = "delete", NEW m \in Msg,
         page' = [Blank(n) EXCEPT !.at = "view", !.id = m],
         calls' = D \cup {GetCall(n, m)}
  PROVE  Opening
<1>1. /\ page'.no = n /\ page'.ticks = {} /\ page'.loading /\ page'.at = "view" /\ page'.id = m
  BY DEF Blank
<1> QED BY <1>1 DEF Opening

LEMMA GoToIs ==
  ASSUME TypeInv, NEW p \in Place, GoTo(p)
  PROVE  Fetching \/ Opening
<1>1. mail' = mail /\ wish' = wish /\ news' = news
  BY DEF GoTo
<1>2. CASE page.at = "list"
  BY <1>1, <1>2, ShowIs, PageTyped DEF GoTo
<1>3. CASE page.at # "list"
  <2>1. PICK n : n = page.no + 1
    OBVIOUS
  <2>2. n \in 1..MaxPages
    BY <1>3, <2>1, PageTyped, InboxAssumption DEF GoTo
  <2>3. PICK q : q = Blank(n)
    OBVIOUS
  <2>4. q.no = n
    BY <2>2, <2>3, BlankTyped
  <2>5. Show(p, 0, q)
    BY <1>3, <2>1, <2>3 DEF GoTo
  <2>6. PICK r : r = [q EXCEPT !.place = p, !.offset = 0, !.ticks = {}]
    OBVIOUS
  <2>7. PICK b \in BOOLEAN : page' = [r EXCEPT !.mixed = b]
    <3>1. page' = Fetched(r, calls, p, 0)
      BY <2>5, <2>6 DEF Show
    <3> QED BY <3>1, FetchedTyped
  <2>8. page' = [q EXCEPT !.place = p, !.offset = 0, !.ticks = {}, !.mixed = b]
    BY <2>6, <2>7
  <2>9. calls' = calls \cup {ListCall(n, p, 0)}
    BY <2>4, <2>5 DEF Show, Ask
  <2> QED BY <1>1, <2>1, <2>2, <2>3, <2>8, <2>9, OpeningList, Numbers
<1> QED BY <1>2, <1>3

LEMMA PagerIs ==
  ASSUME TypeInv, Previous \/ Following
  PROVE  Fetching
<1>1. mail' = mail /\ wish' = wish /\ news' = news /\ page.at = "list"
  BY DEF Previous, Following
<1>2. CASE Previous
  <2>1. PICK k : k = IF page.offset > Limit THEN page.offset - Limit ELSE 0
    OBVIOUS
  <2>2. k \in 0..MaxMsgs /\ page.place \in Place
    BY <2>1, PageTyped, InboxAssumption
  <2>3. Show(page.place, k, page)
    BY <1>2, <2>1 DEF Previous
  <2> QED BY <1>1, <2>2, <2>3, ShowIs
<1>3. CASE Following
  <2>1. PICK k : k = page.offset + Limit
    OBVIOUS
  <2>2. k \in 0..MaxMsgs /\ page.place \in Place
    BY <1>3, <2>1, PageTyped, InboxAssumption DEF Following
  <2>3. Show(page.place, k, page)
    BY <1>3, <2>1 DEF Following
  <2> QED BY <1>1, <2>2, <2>3, ShowIs
<1> QED BY <1>2, <1>3

LEMMA OpenIs ==
  ASSUME TypeInv, NEW m \in Msg, OpenMessage(m)
  PROVE  Opening
<1>1. PICK n : n = page.no + 1
  OBVIOUS
<1>2. n \in 1..MaxPages
  BY <1>1, PageTyped, InboxAssumption DEF OpenMessage
<1>3. page' = [Blank(n) EXCEPT !.at = "view", !.id = m] /\ calls' = calls \cup {GetCall(n, m)}
  BY <1>1 DEF OpenMessage, Ask
<1> QED BY <1>1, <1>2, <1>3, OpeningView DEF OpenMessage

LEMMA GoBackIs ==
  ASSUME TypeInv, NEW c \in calls, mail' = mail, wish' = wish, GoBack(c), c.st # "failed"
  PROVE  Opening
<1>1. PICK n, D : n = page.no + 1 /\ D = calls \ {c}
  OBVIOUS
<1>2. n \in 1..MaxPages /\ D \in SUBSET calls /\ \A d \in calls \ D : d.op = "delete"
  BY <1>1, PageTyped, InboxAssumption DEF GoBack
<1>3. ASSUME NEW p \in Place, Then(c, {ListCall(page.no + 1, p, 0)}),
             page' = [Blank(page.no + 1) EXCEPT !.place = p]
      PROVE  Opening
  <2>1. calls' = D \cup {ListCall(n, p, 0)}
    BY <1>1, <1>3 DEF Then
  <2>2. page' = [Blank(n) EXCEPT !.place = p, !.offset = 0, !.ticks = {}, !.mixed = FALSE]
    <3>1. PICK q : q = Blank(n)
      OBVIOUS
    <3>2. page' = [q EXCEPT !.place = p]
      BY <1>1, <1>3, <3>1
    <3>3. q.offset = 0 /\ q.ticks = {} /\ q.mixed = FALSE /\ q \in PageSet
      BY <1>2, <3>1, BlankTyped
    <3>4. page' = [q EXCEPT !.place = p, !.offset = 0, !.ticks = {}, !.mixed = FALSE]
      BY <3>2, <3>3 DEF PageSet
    <3> QED BY <3>1, <3>4
  <2> QED BY <1>1, <1>2, <2>1, <2>2, OpeningList, Numbers
<1>4. ASSUME Then(c, {GetCall(page.no + 1, c.id)}),
             page' = [Blank(page.no + 1) EXCEPT !.at = "view", !.id = c.id]
      PROVE  Opening
  <2>1. PICK m : m = c.id
    OBVIOUS
  <2>2. m \in Msg
    <3>1. c.op = "delete"
      BY DEF GoBack
    <3> QED BY <2>1, <3>1, CallIs
  <2>3. calls' = D \cup {GetCall(n, m)} /\ page' = [Blank(n) EXCEPT !.at = "view", !.id = m]
    BY <1>1, <1>4, <2>1 DEF Then
  <2> QED BY <1>1, <1>2, <2>2, <2>3, OpeningView
<1> QED BY <1>3, <1>4 DEF GoBack

(* Something of the list is ticked, or no longer.                          *)
Ticking ==
  \E T :
    /\ \A t \in T : t \in page.ticks \/ (t.place = page.place /\ t.offset = page.offset)
    /\ page' = [page EXCEPT !.ticks = T] /\ calls' = calls
    /\ mail' = mail /\ wish' = wish /\ news' = news /\ event' = event

(* A click that makes a request of the page; a star has a wish with it.    *)
Asking ==
  /\ page' = page /\ mail' = mail /\ news' = news /\ event' = event
  /\ \E e \in CallSet :
       /\ calls' = calls \cup {e}
       /\ e.op \in {"batch", "star", "delete", "starView"} /\ e.page = page.no
       /\ e.st = "asked" /\ e.place = page.place /\ e.offset = page.offset
       /\ e.op \in {"batch", "star"} => page.at = "list"
       /\ e.op = "batch" => e.ticks = page.ticks
       /\ e.op \in {"delete", "starView"} =>
            Shown /\ e.id = page.id /\ e.seen = page.msg.id /\ e.mixed = page.mixed
       /\ IF e.op \in Starring
            THEN e.id \in Msg /\ Star(e.op, e.id, e.on)
            ELSE wish' = wish

(* The page of a message goes to another message.                          *)
Jumping ==
  \E m \in Msg, b \in BOOLEAN :
    /\ page.at = "view" /\ mail' = mail /\ wish' = wish
    /\ page' = [page EXCEPT !.id = m, !.loading = TRUE, !.mixed = b]
    /\ page.mixed \/ Of(page.no, {"get", "starView"}) # {} => b
    /\ calls' = calls \cup {GetCall(page.no, m)}

(* After a batch or a star the list is fetched where the click was.        *)
Refetching(c) ==
  \E T \in SUBSET page.ticks, b \in BOOLEAN :
    /\ c.op \in {"batch", "star"} /\ c.page = page.no /\ c.st = "ok"
    /\ page' = [page EXCEPT !.ticks = T, !.mixed = b]
    /\ Of(page.no, {"list"}) # {} \/ c.place # page.place \/ c.offset # page.offset => b
    /\ calls' = (calls \ {c}) \cup {ListCall(page.no, c.place, c.offset)}
    /\ mail' = mail /\ wish' = wish

(* An answer that nothing is done about.                                   *)
Dropping(c) ==
  /\ c.op \in {"batch", "star", "delete"} /\ c.st \in {"ok", "failed"}
  /\ c.op \in {"batch", "star"} => c.page # page.no \/ c.st = "failed"
  /\ page' = page /\ calls' = calls \ {c}
  /\ mail' = mail /\ wish' = wish /\ news' = news /\ event' = event

Resting ==
  /\ page' = page /\ calls' = calls
  /\ \/ Deliver \/ (\E m \in Msg : Elsewhere(m)) \/ Disconnect \/ Connect \/ UNCHANGED vars
     \/ MessageNew /\ page.at = "view"

Showing(c) ==
  /\ c.st \in {"ok", "failed"}
  /\ SetMessages(c) \/ SetMessage(c) \/ SetStar(c) \/ Marked(c)
  /\ mail' = mail /\ wish' = wish /\ news' = news /\ event' = event

LEMMA TickingIs ==
  ASSUME TypeInv, ToggleSelectAll \/ \E m \in Msg : ToggleSelect(m)
  PROVE  Ticking
<1>1. calls' = calls /\ mail' = mail /\ wish' = wish /\ news' = news /\ event' = event
  BY DEF ToggleSelect, ToggleSelectAll
<1>2. CASE ToggleSelectAll
  <2>1. PICK T : T = IF Cardinality(page.ticks) = Cardinality(page.rows) THEN {}
                     ELSE {Tick(r.id) : r \in page.rows}
    OBVIOUS
  <2>2. page' = [page EXCEPT !.ticks = T]
    BY <1>2, <2>1 DEF ToggleSelectAll
  <2>3. \A t \in T : t.place = page.place /\ t.offset = page.offset
    BY <2>1 DEF Tick
  <2> QED BY <1>1, <2>2, <2>3 DEF Ticking
<1>3. ASSUME NEW m \in Msg, ToggleSelect(m)
      PROVE  Ticking
  <2>1. PICK T : T = IF m \in Ticked THEN {t \in page.ticks : t.id # m}
                     ELSE page.ticks \cup {Tick(m)}
    OBVIOUS
  <2>2. page' = [page EXCEPT !.ticks = T]
    BY <1>3, <2>1 DEF ToggleSelect
  <2>3. \A t \in T : t \in page.ticks \/ (t.place = page.place /\ t.offset = page.offset)
    BY <2>1 DEF Tick
  <2> QED BY <1>1, <2>2, <2>3 DEF Ticking
<1> QED BY <1>2, <1>3

LEMMA BatchIs ==
  ASSUME TypeInv, HandleBatch
  PROVE  Asking
<1>1. PICK k : k = Call("batch", None)
  OBVIOUS
<1>2. k \in CallSet /\ k.op = "batch" /\ k.page = page.no /\ k.st = "asked"
      /\ k.place = page.place /\ k.offset = page.offset
  BY <1>1, CallTyped DEF Op, Ids
<1>3. PICK e : e = [k EXCEPT !.ticks = page.ticks]
  OBVIOUS
<1>4. page.ticks \subseteq TickSet
  BY DEF TypeInv, PageOK, PageSet
<1>5. e \in CallSet /\ e.op = "batch" /\ e.page = page.no /\ e.st = "asked"
      /\ e.place = page.place /\ e.offset = page.offset /\ e.ticks = page.ticks
  BY <1>2, <1>3, <1>4 DEF CallSet
<1>6. calls' = calls \cup {e}
  BY <1>1, <1>3 DEF HandleBatch, Ask
<1>7. page' = page /\ mail' = mail /\ news' = news /\ event' = event /\ wish' = wish
      /\ page.at = "list"
  BY DEF HandleBatch
<1> QED BY <1>5, <1>6, <1>7 DEF Asking, Starring

LEMMA DeleteIs ==
  ASSUME TypeInv, HandleDelete
  PROVE  Asking
<1>0. page.id \in Msg /\ page.id \in Ids
  BY PageTyped DEF HandleDelete, Shown, Ids
<1>1. PICK k : k = Call("delete", page.id)
  OBVIOUS
<1>2. k \in CallSet /\ k.op = "delete" /\ k.page = page.no /\ k.id = page.id
      /\ k.st = "asked" /\ k.place = page.place /\ k.offset = page.offset
      /\ k.seen = page.msg.id
  BY <1>0, <1>1, CallTyped DEF Op
<1>3. PICK e : e = [k EXCEPT !.mixed = page.mixed]
  OBVIOUS
<1>4. page.mixed \in BOOLEAN
  BY DEF TypeInv, PageOK, PageSet
<1>5. e \in CallSet /\ e.op = "delete" /\ e.page = page.no /\ e.id = page.id
      /\ e.st = "asked" /\ e.place = page.place /\ e.offset = page.offset
      /\ e.seen = page.msg.id /\ e.mixed = page.mixed
  BY <1>2, <1>3, <1>4 DEF CallSet
<1>6. calls' = calls \cup {e}
  BY <1>1, <1>3 DEF HandleDelete, Ask
<1>7. page' = page /\ mail' = mail /\ news' = news /\ event' = event /\ wish' = wish /\ Shown
  BY DEF HandleDelete
<1> QED BY <1>5, <1>6, <1>7 DEF Asking, Starring

LEMMA StarIs ==
  ASSUME TypeInv, ToggleStarOfView \/ \E r \in page.rows : HandleToggleStar(r)
  PROVE  Asking
<1>1. PICK op \in Starring, m \in Msg, on \in BOOLEAN :
        /\ Star(op, m, on)
        /\ op = "star" => page.at = "list"
        /\ op = "starView" =>
             Shown /\ m = page.id /\ page.msg.id \in Msg /\ on = (~page.msg.star)
  BY StarClicks
<1>2. PICK e \in CallSet :
        /\ calls' = calls \cup {e} /\ e.op = op /\ e.id = m /\ e.on = on /\ e.page = page.no
        /\ e.place = page.place /\ e.offset = page.offset /\ e.seen = page.msg.id
        /\ e.st = "asked" /\ e.mixed = (op = "starView" /\ page.mixed)
  BY <1>1, StarCall
<1>3. page' = page /\ mail' = mail /\ news' = news /\ event' = event
  BY <1>1 DEF Star
<1>4. page.mixed \in BOOLEAN
  BY DEF TypeInv, PageOK, PageSet
<1>5. e.op = "starView" => e.mixed = page.mixed
  BY <1>2, <1>4
<1>6. e.id \in Msg /\ Star(e.op, e.id, e.on)
  BY <1>1, <1>2
<1>7. CASE op = "star"
  BY <1>1, <1>2, <1>3, <1>6, <1>7 DEF Asking, Starring
<1>8. CASE op = "starView"
  BY <1>1, <1>2, <1>3, <1>5, <1>6, <1>8 DEF Asking, Starring
<1> QED BY <1>7, <1>8 DEF Starring

LEMMA JumpIs ==
  ASSUME TypeInv, NEW m \in Msg, JumpTo(m)
  PROVE  Jumping
<1>1. PICK b : b = (page.mixed \/ Of(page.no, {"get", "starView"}) # {})
  OBVIOUS
<1>2. page' = [page EXCEPT !.id = m, !.loading = TRUE, !.mixed = b]
  BY <1>1 DEF JumpTo
<1>3. b \in BOOLEAN
  BY <1>1
<1>4. calls' = calls \cup {GetCall(page.no, m)} /\ page.at = "view" /\ mail' = mail
      /\ wish' = wish
  BY DEF JumpTo, Ask
<1> QED BY <1>1, <1>2, <1>3, <1>4 DEF Jumping

LEMMA ChangedIs ==
  ASSUME TypeInv, NEW c \in calls, c.st \in {"ok", "failed"}, Changed(c),
         mail' = mail, wish' = wish, news' = news, event' = event
  PROVE  Refetching(c) \/ Dropping(c)
<1>1. CASE ~Mine(c) \/ c.st = "failed"
  <2>1. calls' = calls \ {c} /\ page' = page
    BY <1>1 DEF Changed, Drop, Then
  <2> QED BY <1>1, <2>1 DEF Dropping, Changed, Mine
<1>2. CASE Mine(c) /\ c.st # "failed"
  <2>1. PICK T : T = IF c.op = "star" THEN page.ticks ELSE {}
    OBVIOUS
  <2>2. PICK q : q = [page EXCEPT !.ticks = T]
    OBVIOUS
  <2>3. q = IF c.op = "star" THEN page ELSE [page EXCEPT !.ticks = {}]
    BY <2>1, <2>2, PageTyped DEF PageSet
  <2>4. q.no = page.no /\ q.place = page.place /\ q.offset = page.offset
    BY <2>2, PageTyped DEF PageSet
  <2>5. PICK b : b = (\/ \E d \in calls : d.page = q.no /\ d.op = "list"
                      \/ <<c.place, c.offset>> # <<q.place, q.offset>>)
    OBVIOUS
  <2>6. b \in BOOLEAN
    BY <2>5
  <2>7. page' = [q EXCEPT !.mixed = b]
    BY <1>2, <2>3, <2>5 DEF Changed, Fetched
  <2>8. page' = [page EXCEPT !.ticks = T, !.mixed = b]
    BY <2>2, <2>7
  <2>9. Of(page.no, {"list"}) # {} \/ c.place # page.place \/ c.offset # page.offset => b
    BY <2>4, <2>5 DEF Of
  <2>10. calls' = (calls \ {c}) \cup {ListCall(page.no, c.place, c.offset)}
    BY <1>2 DEF Changed, Then, Mine
  <2>11. T \in SUBSET page.ticks
    BY <2>1
  <2> QED BY <1>2, <2>6, <2>8, <2>9, <2>10, <2>11 DEF Refetching, Changed, Mine
<1> QED BY <1>1, <1>2

LEMMA AnswerIs ==
  ASSUME TypeInv, NEW c \in calls, Answer(c)
  PROVE  Refetching(c) \/ Dropping(c) \/ Showing(c) \/ Opening
<1>1. mail' = mail /\ wish' = wish /\ news' = news /\ event' = event
      /\ c.st \in {"ok", "failed"}
  BY DEF Answer
<1>2. CASE SetMessages(c) \/ SetMessage(c) \/ SetStar(c) \/ Marked(c)
  BY <1>1, <1>2 DEF Showing
<1>3. CASE Changed(c)
  BY <1>1, <1>3, ChangedIs
<1>4. CASE GoBack(c)
  <2>1. CASE c.st = "failed"
    BY <1>1, <1>4, <2>1 DEF GoBack, Drop, Then, Dropping
  <2>2. CASE c.st # "failed"
    BY <1>1, <1>4, <2>2, GoBackIs
  <2> QED BY <2>1, <2>2
<1> QED BY <1>2, <1>3, <1>4 DEF Answer

LEMMA RestingIs ==
  ASSUME TypeInv,
         Deliver \/ (\E m \in Msg : Elsewhere(m)) \/ Disconnect \/ Connect \/ UNCHANGED vars
  PROVE  Resting
BY DEF Deliver, Elsewhere, Disconnect, Connect, vars, Resting

LEMMA RefreshIs ==
  ASSUME TypeInv, Refresh \/ MessageNew
  PROVE  Fetching \/ Resting
<1>1. mail' = mail /\ wish' = wish /\ news' = news
  BY DEF Refresh, MessageNew
<1>2. CASE page.at = "list"
  <2>1. FetchMessages
    BY <1>2 DEF Refresh, MessageNew
  <2> QED BY <1>1, <1>2, <2>1, FetchIs
<1>3. CASE page.at # "list"
  <2>1. page.at = "view"
    BY <1>3, PageTyped DEF PageSet
  <2> QED BY <2>1 DEF Refresh, MessageNew, Resting
<1> QED BY <1>2, <1>3

(* A step of the page and its requests is one of these.                    *)
LEMMA Shapes ==
  ASSUME TypeInv, [Next]_vars
  PROVE  \/ Fetching \/ Opening \/ Ticking \/ Asking \/ Jumping \/ Resting
         \/ \E c \in calls : Serve(c) \/ Fail(c) \/ Refetching(c) \/ Dropping(c) \/ Showing(c)
<1>1. CASE \E p \in Place : GoTo(p)
  BY <1>1, GoToIs
<1>2. CASE Previous \/ Following
  BY <1>2, PagerIs
<1>3. CASE Refresh \/ MessageNew
  BY <1>3, RefreshIs
<1>4. CASE \E m \in Msg : OpenMessage(m)
  BY <1>4, OpenIs
<1>5. CASE \E m \in Msg : JumpTo(m)
  BY <1>5, JumpIs
<1>6. CASE ToggleSelectAll \/ \E m \in Msg : ToggleSelect(m)
  BY <1>6, TickingIs
<1>7. CASE HandleBatch
  BY <1>7, BatchIs
<1>8. CASE HandleDelete
  BY <1>8, DeleteIs
<1>9. CASE ToggleStarOfView \/ \E r \in page.rows : HandleToggleStar(r)
  BY <1>9, StarIs
<1>10. CASE \E c \in calls : Serve(c) \/ Fail(c) \/ Answer(c)
  BY <1>10, AnswerIs
<1>11. CASE Deliver \/ (\E m \in Msg : Elsewhere(m)) \/ Disconnect \/ Connect \/ UNCHANGED vars
  BY <1>11, RestingIs
<1> QED BY <1>1, <1>2, <1>3, <1>4, <1>5, <1>6, <1>7, <1>8, <1>9, <1>10, <1>11 DEF Next

(* The state of a request after it failed.                                 *)
LEMMA FailIs ==
  ASSUME TypeInv, NEW c \in calls, Fail(c)
  PROVE  /\ calls' = (calls \ {c}) \cup {[c EXCEPT !.st = "failed", !.ans = c.ans]}
         /\ page' = page /\ mail' = mail /\ event' = event
         /\ (c.st = "asked" => news' = news) /\ (c.st = "ok" => news')
<1>1. calls' = (calls \ {c}) \cup {[c EXCEPT !.st = "failed"]}
  BY DEF Fail, Refuse, Then
<1>2. [c EXCEPT !.st = "failed"] = [c EXCEPT !.st = "failed", !.ans = c.ans]
  BY CallIs DEF CallSet
<1>3. news \in BOOLEAN
  BY DEF TypeInv, StreamOK
<1> QED BY <1>1, <1>2, <1>3 DEF Fail

-----------------------------------------------------------------------------
(* A page makes the requests of its kind                                   *)

HomeOK(c) ==
  c.page = page.no => page.at = IF c.op \in {"list", "batch", "star"} THEN "list" ELSE "view"
HomeInv == \A c \in calls : HomeOK(c)

LEMMA HomesStay ==
  ASSUME TypeInv, HomeInv, NEW e, calls' \subseteq calls \cup {e}, HomeOK(e)',
         (page'.no = page.no /\ page'.at = page.at) \/ page'.no = page.no + 1
  PROVE  HomeInv'
<1> SUFFICES ASSUME NEW d \in calls, d \in calls'
             PROVE  HomeOK(d)'
  BY DEF HomeInv
<1>1. d.page <= page.no /\ d.page \in Nat /\ page.no \in Nat
  BY CallIs, PageTyped
<1>2. HomeOK(d)
  BY DEF HomeInv
<1>3. CASE page'.no = page.no /\ page'.at = page.at
  BY <1>2, <1>3 DEF HomeOK
<1>4. CASE page'.no = page.no + 1
  BY <1>1, <1>4 DEF HomeOK
<1> QED BY <1>3, <1>4

(* With fewer requests, or one in another state.                           *)
LEMMA HomesFewer ==
  ASSUME TypeInv, HomeInv, calls' \subseteq calls, page'.no = page.no, page'.at = page.at
  PROVE  HomeInv'
BY DEF HomeInv, HomeOK

LEMMA SameCall ==
  ASSUME TypeInv, NEW c \in calls, NEW s, NEW a, NEW d, d = [c EXCEPT !.st = s, !.ans = a]
  PROVE  /\ d.op = c.op /\ d.page = c.page /\ d.id = c.id /\ d.place = c.place
         /\ d.offset = c.offset /\ d.ticks = c.ticks /\ d.on = c.on /\ d.seen = c.seen
         /\ d.mixed = c.mixed /\ d.st = s /\ d.ans = a
BY CallIs DEF CallSet

LEMMA HomesChanged ==
  ASSUME TypeInv, HomeInv, page' = page, NEW c \in calls, NEW s, NEW a,
         calls' = (calls \ {c}) \cup {[c EXCEPT !.st = s, !.ans = a]}
  PROVE  HomeInv'
<1>1. PICK d : d = [c EXCEPT !.st = s, !.ans = a]
  OBVIOUS
<1>2. d.op = c.op /\ d.page = c.page
  BY <1>1, SameCall
<1>3. HomeOK(d)'
  BY <1>2 DEF HomeInv, HomeOK
<1> QED BY <1>1, <1>3, HomesStay

(* The calls that a fetch of the list and the page of a message make.      *)
LEMMA ListCallIs ==
  ASSUME TypeInv, NEW n \in 1..MaxPages, NEW p \in Place, NEW o \in 0..MaxMsgs
  PROVE  \E e : /\ e = ListCall(n, p, o)
                /\ e.op = "list" /\ e.page = n /\ e.place = p /\ e.offset = o /\ e.st = "asked"
BY ListCallTyped

LEMMA GetCallIs ==
  ASSUME TypeInv, NEW n \in 1..MaxPages, NEW m \in Msg
  PROVE  \E e : /\ e = GetCall(n, m)
                /\ e.op = "get" /\ e.page = n /\ e.id = m /\ e.st = "asked"
BY GetCallTyped

LEMMA InitHomes == Init => HomeInv
<1> SUFFICES ASSUME Init
             PROVE  HomeInv
  OBVIOUS
<1>1. page.at = "list"
  BY DEF Init, Blank
<1>2. \A c \in calls : c.op = "list"
  BY DEF Init
<1> QED BY <1>1, <1>2 DEF HomeInv, HomeOK

LEMMA FetchingHomes ==
  ASSUME TypeInv, HomeInv, Fetching
  PROVE  HomeInv'
<1>1. PICK p \in Place, o \in 0..MaxMsgs, T \in SUBSET page.ticks, b \in BOOLEAN :
        /\ page.at = "list"
        /\ page' = [page EXCEPT !.place = p, !.offset = o, !.ticks = T, !.mixed = b]
        /\ calls' = calls \cup {ListCall(page.no, p, o)}
  BY DEF Fetching
<1>2. page'.no = page.no /\ page'.at = page.at
  BY <1>1, PageTyped DEF PageSet
<1>3. PICK n : n = page.no
  OBVIOUS
<1>4. n \in 1..MaxPages
  BY <1>3, PageTyped
<1>5. PICK e : e = ListCall(n, p, o) /\ e.op = "list"
  BY <1>4, ListCallIs
<1>6. HomeOK(e)'
  BY <1>1, <1>2, <1>5 DEF HomeOK
<1> QED BY <1>1, <1>2, <1>3, <1>5, <1>6, HomesStay

LEMMA OpeningHomes ==
  ASSUME TypeInv, HomeInv, Opening
  PROVE  HomeInv'
<1>1. PICK n \in 1..MaxPages, D \in SUBSET calls :
        /\ n = page.no + 1 /\ page'.no = n
        /\ \/ \E p \in Place, o \in 0..MaxMsgs :
                page'.at = "list" /\ calls' = D \cup {ListCall(n, p, o)}
           \/ \E m \in Msg : page'.at = "view" /\ calls' = D \cup {GetCall(n, m)}
  BY DEF Opening
<1>2. ASSUME NEW p \in Place, NEW o \in 0..MaxMsgs, page'.at = "list",
             calls' = D \cup {ListCall(n, p, o)}
      PROVE  HomeInv'
  <2>1. PICK e : e = ListCall(n, p, o) /\ e.op = "list"
    BY ListCallIs
  <2>2. HomeOK(e)'
    BY <1>2, <2>1 DEF HomeOK
  <2>3. calls' \subseteq calls \cup {e}
    BY <1>2, <2>1
  <2> QED BY <1>1, <2>2, <2>3, HomesStay
<1>3. ASSUME NEW m \in Msg, page'.at = "view", calls' = D \cup {GetCall(n, m)}
      PROVE  HomeInv'
  <2>1. PICK e : e = GetCall(n, m) /\ e.op = "get"
    BY GetCallIs
  <2>2. HomeOK(e)'
    BY <1>3, <2>1 DEF HomeOK
  <2>3. calls' \subseteq calls \cup {e}
    BY <1>3, <2>1
  <2> QED BY <1>1, <2>2, <2>3, HomesStay
<1> QED BY <1>1, <1>2, <1>3

LEMMA ClicksHomes ==
  ASSUME TypeInv, HomeInv, Ticking \/ Asking \/ Jumping
  PROVE  HomeInv'
<1>1. CASE Ticking
  <2>1. page'.no = page.no /\ page'.at = page.at /\ calls' = calls
    BY <1>1, PageTyped DEF Ticking, PageSet
  <2> QED BY <2>1, HomesFewer
<1>2. CASE Asking
  <2>1. PICK e \in CallSet :
          /\ calls' = calls \cup {e}
          /\ e.op \in {"batch", "star", "delete", "starView"}
          /\ e.op \in {"batch", "star"} => page.at = "list"
          /\ e.op \in {"delete", "starView"} => Shown
    BY <1>2 DEF Asking
  <2>2. page' = page
    BY <1>2 DEF Asking
  <2>3. HomeOK(e)'
    BY <2>1, <2>2 DEF HomeOK, Shown
  <2> QED BY <2>1, <2>2, <2>3, HomesStay
<1>3. CASE Jumping
  <2>1. PICK m \in Msg, b \in BOOLEAN :
          /\ page.at = "view"
          /\ page' = [page EXCEPT !.id = m, !.loading = TRUE, !.mixed = b]
          /\ calls' = calls \cup {GetCall(page.no, m)}
    BY <1>3 DEF Jumping
  <2>2. page'.no = page.no /\ page'.at = page.at
    BY <2>1, PageTyped DEF PageSet
  <2>3. PICK n : n = page.no
    OBVIOUS
  <2>4. n \in 1..MaxPages
    BY <2>3, PageTyped
  <2>5. PICK e : e = GetCall(n, m) /\ e.op = "get"
    BY <2>4, GetCallIs
  <2>6. HomeOK(e)'
    BY <2>1, <2>2, <2>5 DEF HomeOK
  <2> QED BY <2>1, <2>2, <2>3, <2>5, <2>6, HomesStay
<1> QED BY <1>1, <1>2, <1>3

LEMMA ServerHomes ==
  ASSUME TypeInv, HomeInv, NEW c \in calls, Serve(c) \/ Fail(c)
  PROVE  HomeInv'
<1>1. CASE Serve(c)
  <2>1. PICK s, a : Served(c, s, a)
    BY <1>1, ServeIs
  <2>2. calls' = (calls \ {c}) \cup {[c EXCEPT !.st = s, !.ans = a]}
    BY <2>1 DEF Served
  <2>3. page' = page
    BY <1>1 DEF Serve
  <2> QED BY <2>2, <2>3, HomesChanged
<1>2. CASE Fail(c)
  BY <1>2, FailIs, HomesChanged
<1> QED BY <1>1, <1>2

LEMMA AnswerHomes ==
  ASSUME TypeInv, HomeInv, NEW c \in calls, Refetching(c) \/ Dropping(c) \/ Showing(c)
  PROVE  HomeInv'
<1>1. CASE Refetching(c)
  <2>1. PICK T \in SUBSET page.ticks, b \in BOOLEAN :
          /\ c.op \in {"batch", "star"} /\ c.page = page.no
          /\ page' = [page EXCEPT !.ticks = T, !.mixed = b]
          /\ calls' = (calls \ {c}) \cup {ListCall(page.no, c.place, c.offset)}
    BY <1>1 DEF Refetching
  <2>2. page'.no = page.no /\ page'.at = page.at
    BY <2>1, PageTyped DEF PageSet
  <2>3. PICK n : n = page.no
    OBVIOUS
  <2>4. n \in 1..MaxPages /\ c.place \in Place /\ c.offset \in 0..MaxMsgs
    BY <2>3, PageTyped, CallIs
  <2>5. PICK e : e = ListCall(n, c.place, c.offset) /\ e.op = "list"
    BY <2>4, ListCallIs
  <2>6. page.at = "list"
    BY <2>1 DEF HomeInv, HomeOK
  <2>7. HomeOK(e)'
    BY <2>2, <2>5, <2>6 DEF HomeOK
  <2>8. calls' \subseteq calls \cup {e}
    BY <2>1, <2>3, <2>5
  <2> QED BY <2>2, <2>7, <2>8, HomesStay
<1>2. CASE Dropping(c)
  <2>1. calls' \subseteq calls /\ page' = page
    BY <1>2 DEF Dropping
  <2> QED BY <2>1, HomesFewer
<1>3. CASE SetMessage(c)
  <2>1. PICK e \in CallSet : calls' \subseteq (calls \ {c}) \cup {e} /\ e.op = "read"
                             /\ e.page = c.page
    BY <1>3, ReadCall
  <2>2. page'.no = page.no /\ page'.at = page.at
    BY <1>3, PageTyped DEF SetMessage, PageSet
  <2>3. HomeOK(c) /\ c.op = "get"
    BY <1>3 DEF HomeInv, SetMessage
  <2>4. HomeOK(e)'
    BY <2>1, <2>2, <2>3 DEF HomeOK
  <2> QED BY <2>1, <2>2, <2>4, HomesStay
<1>4. CASE SetMessages(c) \/ SetStar(c) \/ Marked(c)
  <2>1. calls' \subseteq calls
    BY <1>4 DEF SetMessages, SetStar, Marked, Then
  <2>2. page'.no = page.no /\ page'.at = page.at
    BY <1>4, PageTyped DEF SetMessages, SetStar, Marked, PageSet
  <2> QED BY <2>1, <2>2, HomesFewer
<1> QED BY <1>1, <1>2, <1>3, <1>4 DEF Showing

LEMMA NextHomes ==
  ASSUME TypeInv, HomeInv, [Next]_vars
  PROVE  HomeInv'
<1>1. CASE Fetching
  BY <1>1, FetchingHomes
<1>2. CASE Opening
  BY <1>2, OpeningHomes
<1>3. CASE Ticking \/ Asking \/ Jumping
  BY <1>3, ClicksHomes
<1>4. CASE Resting
  <2>1. calls' = calls /\ page' = page
    BY <1>4 DEF Resting
  <2> QED BY <2>1, HomesFewer
<1>5. CASE \E c \in calls :
             Serve(c) \/ Fail(c) \/ Refetching(c) \/ Dropping(c) \/ Showing(c)
  BY <1>5, ServerHomes, AnswerHomes
<1> QED BY <1>1, <1>2, <1>3, <1>4, <1>5, Shapes

LEMMA HomesAlways == Spec => [](TypeInv /\ HomeInv)
<1>1. TypeInv /\ HomeInv /\ [Next]_vars => (TypeInv /\ HomeInv)'
  BY NextTypes, StutterTypes, NextHomes
<1> QED BY InitTypes, InitHomes, <1>1, PTL DEF Spec

-----------------------------------------------------------------------------
(* ActsOnShown                                                             *)

(* What a request is about is what was shown when it was made; what the    *)
(* server reads is about its message.                                      *)
CallActs(c) ==
  /\ c.op = "batch" => \A t \in c.ticks : t.place = c.place /\ t.offset = c.offset
  /\ c.op \in {"delete", "starView"} => c.id = c.seen \/ c.mixed
  /\ c.op = "get" /\ c.st = "ok" =>
       \A r \in c.ans.rows : r.id = c.id /\ (r.read => mail[r.id].read)

(* The page of a message waits for that message's data, unless it is mixed *)
(* up, and remembers it when it was at the click.                          *)
OwnActs(c) ==
  c.page = page.no /\ page.at = "view" =>
    /\ ~page.mixed /\ c.op \in {"get", "starView"} => c.id = page.id
    /\ c.op \in {"starView", "delete"} /\ c.mixed => page.mixed

PageActs ==
  /\ \A t \in page.ticks : t.place = page.place /\ t.offset = page.offset
  /\ page.at = "view" /\ ~page.mixed => page.loading \/ page.msg.id = page.id

ActsInv == PageActs /\ \A c \in calls : CallActs(c) /\ OwnActs(c)

LEMMA ActsStay ==
  ASSUME TypeInv, ActsInv, NEW E, calls' \subseteq calls \cup E,
         \A e \in E : CallActs(e)' /\ OwnActs(e)', PageActs',
         \A n \in Msg : mail[n].read => mail'[n].read,
         \/ page'.no = page.no + 1
         \/ /\ page'.no = page.no /\ page'.at = page.at
            /\ page.mixed => page'.mixed \/ page.at = "list"
            /\ page'.mixed \/ page'.id = page.id \/ Of(page.no, {"get", "starView"}) = {}
  PROVE  ActsInv'
<1> SUFFICES ASSUME NEW d \in calls, d \in calls'
             PROVE  CallActs(d)' /\ OwnActs(d)'
  BY DEF ActsInv
<1>1. CallActs(d) /\ OwnActs(d)
  BY DEF ActsInv
<1>2. CallActs(d)'
  <2>1. d.op = "get" => d.id \in Msg
    BY CallIs
  <2> QED BY <1>1, <2>1 DEF CallActs
<1>3. OwnActs(d)'
  <2>1. d.page <= page.no /\ d.page \in Nat /\ page.no \in Nat
    BY CallIs, PageTyped
  <2>2. CASE page'.no = page.no + 1
    BY <2>1, <2>2 DEF OwnActs
  <2>3. CASE page'.no = page.no /\ page'.at = page.at /\ page'.no # page.no + 1
    BY <1>1, <2>3 DEF OwnActs, Of
  <2> QED BY <2>1, <2>2, <2>3
<1> QED BY <1>2, <1>3

LEMMA ActsOne ==
  ASSUME TypeInv, ActsInv, NEW e, calls' \subseteq calls \cup {e}, CallActs(e)', OwnActs(e)',
         PageActs', \A n \in Msg : mail[n].read => mail'[n].read,
         \/ page'.no = page.no + 1
         \/ /\ page'.no = page.no /\ page'.at = page.at
            /\ page.mixed => page'.mixed \/ page.at = "list"
            /\ page'.mixed \/ page'.id = page.id \/ Of(page.no, {"get", "starView"}) = {}
  PROVE  ActsInv'
<1>1. PICK E : E = {e}
  OBVIOUS
<1>2. \A x \in E : CallActs(x)' /\ OwnActs(x)'
  BY <1>1
<1> QED BY <1>1, <1>2, ActsStay

LEMMA ActsFewer ==
  ASSUME TypeInv, ActsInv, calls' \subseteq calls, PageActs', mail' = mail,
         page'.no = page.no, page'.at = page.at,
         page.mixed => page'.mixed \/ page.at = "list", page'.mixed \/ page'.id = page.id
  PROVE  ActsInv'
<1>1. PICK E : E = {}
  OBVIOUS
<1> QED BY <1>1, ActsStay

LEMMA InitActs == Init => ActsInv
<1> SUFFICES ASSUME Init
             PROVE  ActsInv
  OBVIOUS
<1>1. page.at = "list" /\ page.ticks = {}
  BY DEF Init, Blank
<1>2. \A c \in calls : c.op = "list"
  BY DEF Init
<1> QED BY <1>1, <1>2 DEF ActsInv, PageActs, CallActs, OwnActs

LEMMA FetchingActs ==
  ASSUME TypeInv, ActsInv, Fetching
  PROVE  ActsInv'
<1>1. PICK p \in Place, o \in 0..MaxMsgs, T \in SUBSET page.ticks, b \in BOOLEAN :
        /\ page.at = "list" /\ mail' = mail
        /\ page' = [page EXCEPT !.place = p, !.offset = o, !.ticks = T, !.mixed = b]
        /\ T # {} => p = page.place /\ o = page.offset
        /\ calls' = calls \cup {ListCall(page.no, p, o)}
  BY DEF Fetching
<1>2. /\ page'.no = page.no /\ page'.at = page.at /\ page'.id = page.id /\ page'.ticks = T
      /\ page'.place = p /\ page'.offset = o
  BY <1>1, PageTyped DEF PageSet
<1>3. PageActs'
  BY <1>1, <1>2 DEF ActsInv, PageActs
<1>4. PICK n : n = page.no
  OBVIOUS
<1>5. n \in 1..MaxPages
  BY <1>4, PageTyped
<1>6. PICK e : e = ListCall(n, p, o) /\ e.op = "list"
  BY <1>5, ListCallIs
<1>7. CallActs(e)' /\ OwnActs(e)'
  BY <1>6 DEF CallActs, OwnActs
<1>8. calls' \subseteq calls \cup {e}
  BY <1>1, <1>4, <1>6
<1> QED BY <1>1, <1>2, <1>3, <1>7, <1>8, ActsOne

LEMMA OpeningActs ==
  ASSUME TypeInv, ActsInv, Opening
  PROVE  ActsInv'
<1>1. PICK n \in 1..MaxPages, D \in SUBSET calls :
        /\ n = page.no + 1 /\ page'.no = n /\ mail' = mail /\ wish' = wish
        /\ page'.ticks = {} /\ page'.loading
        /\ \A d \in calls \ D : d.op = "delete"
        /\ \/ \E p \in Place, o \in 0..MaxMsgs :
                /\ page'.at = "list" /\ page'.place = p /\ page'.offset = o
                /\ calls' = D \cup {ListCall(n, p, o)}
           \/ \E m \in Msg :
                /\ page'.at = "view" /\ page'.id = m
                /\ calls' = D \cup {GetCall(n, m)}
  BY DEF Opening
<1>2. PageActs'
  BY <1>1 DEF PageActs
<1>3. ASSUME NEW p \in Place, NEW o \in 0..MaxMsgs, page'.at = "list",
             calls' = D \cup {ListCall(n, p, o)}
      PROVE  ActsInv'
  <2>1. PICK e : e = ListCall(n, p, o) /\ e.op = "list"
    BY ListCallIs
  <2>2. CallActs(e)' /\ OwnActs(e)'
    BY <2>1 DEF CallActs, OwnActs
  <2>3. calls' \subseteq calls \cup {e}
    BY <1>3, <2>1
  <2> QED BY <1>1, <1>2, <2>2, <2>3, ActsOne
<1>4. ASSUME NEW m \in Msg, page'.at = "view", page'.id = m, calls' = D \cup {GetCall(n, m)}
      PROVE  ActsInv'
  <2>1. PICK e : e = GetCall(n, m) /\ e.op = "get" /\ e.id = m /\ e.st = "asked"
    BY GetCallIs
  <2>2. CallActs(e)' /\ OwnActs(e)'
    BY <1>4, <2>1 DEF CallActs, OwnActs
  <2>3. calls' \subseteq calls \cup {e}
    BY <1>4, <2>1
  <2> QED BY <1>1, <1>2, <2>2, <2>3, ActsOne
<1> QED BY <1>1, <1>3, <1>4

LEMMA ClicksActs ==
  ASSUME TypeInv, ActsInv, Ticking \/ Asking \/ Jumping
  PROVE  ActsInv'
<1>1. CASE Ticking
  <2>1. PICK T :
          /\ \A t \in T : t \in page.ticks \/ (t.place = page.place /\ t.offset = page.offset)
          /\ page' = [page EXCEPT !.ticks = T] /\ calls' = calls /\ mail' = mail
    BY <1>1 DEF Ticking
  <2>2. /\ page'.no = page.no /\ page'.at = page.at /\ page'.id = page.id /\ page'.ticks = T
        /\ page'.place = page.place /\ page'.offset = page.offset /\ page'.msg = page.msg
        /\ page'.mixed = page.mixed /\ page'.loading = page.loading
    BY <2>1, PageTyped DEF PageSet
  <2>3. PageActs'
    BY <2>1, <2>2 DEF ActsInv, PageActs
  <2> QED BY <2>1, <2>2, <2>3, ActsFewer
<1>2. CASE Asking
  <2>1. PICK e \in CallSet :
          /\ calls' = calls \cup {e}
          /\ e.op \in {"batch", "star", "delete", "starView"} /\ e.page = page.no
          /\ e.place = page.place /\ e.offset = page.offset
          /\ e.op \in {"batch", "star"} => page.at = "list"
          /\ e.op = "batch" => e.ticks = page.ticks
          /\ e.op \in {"delete", "starView"} =>
               Shown /\ e.id = page.id /\ e.seen = page.msg.id /\ e.mixed = page.mixed
    BY <1>2 DEF Asking
  <2>2. page' = page /\ mail' = mail
    BY <1>2 DEF Asking
  <2>3. PageActs /\ PageActs'
    BY <2>2 DEF ActsInv, PageActs
  <2>4. CallActs(e)'
    BY <2>1, <2>3 DEF CallActs, PageActs, Shown
  <2>5. OwnActs(e)'
    BY <2>1, <2>2 DEF OwnActs
  <2> QED BY <2>1, <2>2, <2>3, <2>4, <2>5, ActsOne
<1>3. CASE Jumping
  <2>1. PICK m \in Msg, b \in BOOLEAN :
          /\ page.at = "view" /\ mail' = mail
          /\ page' = [page EXCEPT !.id = m, !.loading = TRUE, !.mixed = b]
          /\ page.mixed \/ Of(page.no, {"get", "starView"}) # {} => b
          /\ calls' = calls \cup {GetCall(page.no, m)}
    BY <1>3 DEF Jumping
  <2>2. /\ page'.no = page.no /\ page'.at = page.at /\ page'.id = m /\ page'.ticks = page.ticks
        /\ page'.place = page.place /\ page'.offset = page.offset /\ page'.loading
        /\ page'.mixed = b
    BY <2>1, PageTyped DEF PageSet
  <2>3. PageActs'
    BY <2>2 DEF ActsInv, PageActs
  <2>4. PICK n : n = page.no
    OBVIOUS
  <2>5. n \in 1..MaxPages
    BY <2>4, PageTyped
  <2>6. PICK e : e = GetCall(n, m) /\ e.op = "get" /\ e.id = m /\ e.st = "asked"
    BY <2>5, GetCallIs
  <2>7. CallActs(e)' /\ OwnActs(e)'
    BY <2>2, <2>6 DEF CallActs, OwnActs
  <2>8. calls' \subseteq calls \cup {e}
    BY <2>1, <2>4, <2>6
  <2> QED BY <2>1, <2>2, <2>3, <2>7, <2>8, ActsOne
<1> QED BY <1>1, <1>2, <1>3

LEMMA ServerActs ==
  ASSUME TypeInv, ActsInv, NEW c \in calls, Serve(c) \/ Fail(c)
  PROVE  ActsInv'
<1>1. page' = page
  BY DEF Serve, Fail
<1>2. PageActs'
  BY <1>1 DEF ActsInv, PageActs
<1>3. CallActs(c) /\ OwnActs(c)
  BY DEF ActsInv
<1>4. CASE Serve(c)
  <2>1. PICK s, a : Served(c, s, a)
    BY <1>4, ServeIs
  <2>2. PICK d : d = [c EXCEPT !.st = s, !.ans = a]
    OBVIOUS
  <2>3. /\ d.op = c.op /\ d.page = c.page /\ d.id = c.id /\ d.place = c.place
        /\ d.offset = c.offset /\ d.ticks = c.ticks /\ d.on = c.on /\ d.seen = c.seen
        /\ d.mixed = c.mixed /\ d.st = s /\ d.ans = a
    BY <2>2, CallIs DEF CallSet
  <2>4. calls' \subseteq calls \cup {d} /\ \A n \in Msg : mail[n].read => mail'[n].read
    BY <2>1, <2>2 DEF Served, Changes
  <2>5. d.op = "get" /\ d.st = "ok" =>
          \A r \in d.ans.rows : r.id = d.id /\ (r.read => mail'[r.id].read)
    <3>1. c.op = "get" /\ s = "ok" => a.rows \subseteq {Row(c.id)} /\ mail' = mail
      BY <2>1 DEF Served, Changes, Answers
    <3> QED BY <2>3, <3>1 DEF Row
  <2>6. CallActs(d)'
    BY <1>3, <2>3, <2>5 DEF CallActs
  <2>7. OwnActs(d)'
    BY <1>1, <1>3, <2>3 DEF OwnActs
  <2> QED BY <1>1, <1>2, <2>4, <2>6, <2>7, ActsOne
<1>5. CASE Fail(c)
  <2>1. PICK d : d = [c EXCEPT !.st = "failed", !.ans = c.ans]
    OBVIOUS
  <2>2. /\ d.op = c.op /\ d.page = c.page /\ d.id = c.id /\ d.place = c.place
        /\ d.offset = c.offset /\ d.ticks = c.ticks /\ d.on = c.on /\ d.seen = c.seen
        /\ d.mixed = c.mixed /\ d.st = "failed" /\ d.ans = c.ans
    BY <2>1, CallIs DEF CallSet
  <2>3. calls' \subseteq calls \cup {d} /\ mail' = mail
    BY <1>5, <2>1, FailIs
  <2>4. CallActs(d)'
    BY <1>3, <2>2 DEF CallActs
  <2>5. OwnActs(d)'
    BY <1>1, <1>3, <2>2 DEF OwnActs
  <2> QED BY <1>1, <1>2, <2>3, <2>4, <2>5, ActsOne
<1> QED BY <1>4, <1>5

LEMMA RefetchingActs ==
  ASSUME TypeInv, HomeInv, ActsInv, NEW c \in calls, Refetching(c)
  PROVE  ActsInv'
<1>1. PICK T \in SUBSET page.ticks, b \in BOOLEAN :
        /\ c.op \in {"batch", "star"} /\ c.page = page.no /\ mail' = mail
        /\ page' = [page EXCEPT !.ticks = T, !.mixed = b]
        /\ calls' = (calls \ {c}) \cup {ListCall(page.no, c.place, c.offset)}
  BY DEF Refetching
<1>2. /\ page'.no = page.no /\ page'.at = page.at /\ page'.id = page.id /\ page'.ticks = T
      /\ page'.place = page.place /\ page'.offset = page.offset
  BY <1>1, PageTyped DEF PageSet
<1>3. page.at = "list"
  BY <1>1 DEF HomeInv, HomeOK
<1>4. PageActs'
  BY <1>2, <1>3 DEF ActsInv, PageActs
<1>5. PICK n : n = page.no
  OBVIOUS
<1>6. n \in 1..MaxPages /\ c.place \in Place /\ c.offset \in 0..MaxMsgs
  BY <1>5, PageTyped, CallIs
<1>7. PICK e : e = ListCall(n, c.place, c.offset) /\ e.op = "list"
  BY <1>6, ListCallIs
<1>8. CallActs(e)' /\ OwnActs(e)'
  BY <1>7 DEF CallActs, OwnActs
<1>9. calls' \subseteq calls \cup {e}
  BY <1>1, <1>5, <1>7
<1> QED BY <1>1, <1>2, <1>3, <1>4, <1>8, <1>9, ActsOne

LEMMA ShowingActs ==
  ASSUME TypeInv, HomeInv, ActsInv, NEW c \in calls, mail' = mail,
         SetMessages(c) \/ SetStar(c) \/ Marked(c)
  PROVE  ActsInv'
<1>1. calls' \subseteq calls
  BY DEF SetMessages, SetStar, Marked, Then
<1>2. CallActs(c) /\ OwnActs(c) /\ HomeOK(c) /\ PageActs
  BY DEF ActsInv, HomeInv
<1>3. CASE page' = page
  <2>1. PageActs'
    BY <1>2, <1>3 DEF PageActs
  <2> QED BY <1>1, <1>3, <2>1, ActsFewer
<1>4. CASE page' = [page EXCEPT !.mixed = TRUE]
  <2>1. /\ page'.no = page.no /\ page'.at = page.at /\ page'.id = page.id
        /\ page'.ticks = page.ticks /\ page'.place = page.place
        /\ page'.offset = page.offset /\ page'.mixed
    BY <1>4, PageTyped DEF PageSet
  <2>2. PageActs'
    BY <1>2, <2>1 DEF PageActs
  <2> QED BY <1>1, <2>1, <2>2, ActsFewer
<1>5. CASE SetMessages(c) /\ page' = [page EXCEPT !.rows = c.ans.rows, !.total = c.ans.total]
  <2>1. /\ page'.no = page.no /\ page'.at = page.at /\ page'.id = page.id
        /\ page'.ticks = page.ticks /\ page'.place = page.place /\ page'.msg = page.msg
        /\ page'.offset = page.offset /\ page'.mixed = page.mixed
        /\ page'.loading = page.loading
    BY <1>5, PageTyped DEF PageSet
  <2>2. PageActs'
    BY <1>2, <2>1 DEF PageActs
  <2> QED BY <1>1, <2>1, <2>2, ActsFewer
<1>6. CASE SetStar(c) /\ page' # page
  <2>1. PICK x, b : /\ x = [page.msg EXCEPT !.id = c.seen, !.star = c.on]
                    /\ b = (page.mixed \/ c.id # page.id)
    OBVIOUS
  <2>2. page' = [page EXCEPT !.msg = x, !.mixed = b] /\ c.page = page.no /\ c.op = "starView"
    BY <1>6, <2>1 DEF SetStar, Mine
  <2>3. /\ page'.no = page.no /\ page'.at = page.at /\ page'.id = page.id
        /\ page'.ticks = page.ticks /\ page'.place = page.place /\ page'.msg = x
        /\ page'.offset = page.offset /\ page'.mixed = b
    BY <2>2, PageTyped DEF PageSet
  <2>4. x.id = c.seen
    <3>1. page.msg \in RowSet \cup {NoMsg}
      BY PageTyped DEF PageSet
    <3> QED BY <2>1, <3>1 DEF RowSet, NoMsg
  <2>5. page.at = "view"
    BY <1>2, <2>2 DEF HomeOK
  <2>6. ~b => c.seen = page.id
    BY <1>2, <2>1, <2>2, <2>5 DEF CallActs, OwnActs
  <2>7. PageActs'
    BY <1>2, <2>3, <2>4, <2>6 DEF PageActs
  <2>8. page.mixed => page'.mixed
    BY <2>1, <2>3
  <2> QED BY <1>1, <2>3, <2>7, <2>8, ActsFewer
<1> QED BY <1>3, <1>4, <1>5, <1>6 DEF SetMessages, Marked

LEMMA SetMessageActs ==
  ASSUME TypeInv, HomeInv, ActsInv, NEW c \in calls, mail' = mail, SetMessage(c),
         c.st \in {"ok", "failed"}
  PROVE  ActsInv'
<1>1. CallActs(c) /\ OwnActs(c) /\ HomeOK(c) /\ PageActs /\ c.op = "get"
  BY DEF ActsInv, HomeInv, SetMessage
<1>2. PICK e \in CallSet : calls' \subseteq (calls \ {c}) \cup {e} /\ e.op = "read"
                           /\ e.page = c.page
  BY ReadCall
<1>3. CallActs(e)' /\ OwnActs(e)'
  BY <1>2 DEF CallActs, OwnActs
<1>4. calls' \subseteq calls \cup {e}
  BY <1>2
<1>5. \/ page' = page
      \/ \E r \in c.ans.rows :
           Mine(c) /\ c.st = "ok" /\ page' = [page EXCEPT !.msg = r, !.loading = FALSE]
      \/ page' = [page EXCEPT !.loading = FALSE, !.mixed = TRUE]
  BY DEF SetMessage
<1>6. CASE page' = page
  <2>1. PageActs'
    BY <1>1, <1>6 DEF PageActs
  <2> QED BY <1>3, <1>4, <1>6, <2>1, ActsOne
<1>7. CASE page' = [page EXCEPT !.loading = FALSE, !.mixed = TRUE]
  <2>1. /\ page'.no = page.no /\ page'.at = page.at /\ page'.id = page.id
        /\ page'.ticks = page.ticks /\ page'.place = page.place
        /\ page'.offset = page.offset /\ page'.mixed
    BY <1>7, PageTyped DEF PageSet
  <2>2. PageActs'
    BY <1>1, <2>1 DEF PageActs
  <2> QED BY <1>3, <1>4, <2>1, <2>2, ActsOne
<1>8. ASSUME NEW r \in c.ans.rows, Mine(c), c.st = "ok",
             page' = [page EXCEPT !.msg = r, !.loading = FALSE]
      PROVE  ActsInv'
  <2>1. r.id = c.id
    BY <1>1, <1>8 DEF CallActs
  <2>2. /\ page'.no = page.no /\ page'.at = page.at /\ page'.id = page.id
        /\ page'.ticks = page.ticks /\ page'.place = page.place /\ page'.msg = r
        /\ page'.offset = page.offset /\ page'.mixed = page.mixed
    BY <1>8, PageTyped DEF PageSet
  <2>3. page.at = "view" /\ ~page.mixed => c.id = page.id
    BY <1>1, <1>8 DEF OwnActs, Mine
  <2>4. PageActs'
    BY <1>1, <2>1, <2>2, <2>3 DEF PageActs
  <2> QED BY <1>3, <1>4, <2>2, <2>4, ActsOne
<1> QED BY <1>5, <1>6, <1>7, <1>8

LEMMA DroppingActs ==
  ASSUME TypeInv, ActsInv, NEW c \in calls, Dropping(c)
  PROVE  ActsInv'
<1>1. calls' \subseteq calls /\ page' = page /\ mail' = mail
  BY DEF Dropping
<1>2. PageActs'
  BY <1>1 DEF ActsInv, PageActs
<1> QED BY <1>1, <1>2, ActsFewer

(* A message comes in after all that are there.                            *)
LEMMA DeliverIs ==
  ASSUME TypeInv, Deliver
  PROVE  /\ Len(mail') = Len(mail) + 1 /\ \A n \in Msg : mail'[n] = mail[n]
         /\ mail' \in Seq(MailSet)
<1>1. PICK r : r = [label |-> "inbox", star |-> FALSE, read |-> FALSE, gone |-> FALSE]
  OBVIOUS
<1>2. r \in MailSet /\ mail' = Append(mail, r)
  BY <1>1, InboxAssumption DEF Deliver, MailSet
<1>3. mail \in Seq(MailSet) /\ Len(mail) \in Nat
  BY Numbers DEF TypeInv, MailOK
<1> QED BY <1>2, <1>3, AppendProperties DEF Msg

(* Nobody marks a message as unread.                                       *)
LEMMA RestingReads ==
  ASSUME TypeInv, Resting
  PROVE  \A n \in Msg : mail[n].read => mail'[n].read
<1>1. CASE Deliver
  BY <1>1, DeliverIs
<1>2. ASSUME NEW m \in Msg, Elsewhere(m)
      PROVE  \A n \in Msg : mail[n].read => mail'[n].read
  BY <1>2, ElsewhereIs
<1>3. CASE Disconnect \/ Connect \/ UNCHANGED vars \/ MessageNew
  BY <1>3 DEF Disconnect, Connect, vars, MessageNew
<1> QED BY <1>1, <1>2, <1>3 DEF Resting

LEMMA RestingActs ==
  ASSUME TypeInv, ActsInv, Resting
  PROVE  ActsInv'
<1>1. calls' = calls /\ page' = page
  BY DEF Resting
<1>2. PageActs'
  BY <1>1 DEF ActsInv, PageActs
<1>3. PICK E : E = {}
  OBVIOUS
<1> QED BY <1>1, <1>2, <1>3, RestingReads, ActsStay

LEMMA NextActs ==
  ASSUME TypeInv, HomeInv, ActsInv, [Next]_vars
  PROVE  ActsInv'
<1>1. CASE Fetching
  BY <1>1, FetchingActs
<1>2. CASE Opening
  BY <1>2, OpeningActs
<1>3. CASE Ticking \/ Asking \/ Jumping
  BY <1>3, ClicksActs
<1>4. CASE Resting
  BY <1>4, RestingActs
<1>5. ASSUME NEW c \in calls,
             Serve(c) \/ Fail(c) \/ Refetching(c) \/ Dropping(c) \/ Showing(c)
      PROVE  ActsInv'
  <2>1. CASE Serve(c) \/ Fail(c)
    BY <2>1, ServerActs
  <2>2. CASE Refetching(c)
    BY <2>2, RefetchingActs
  <2>3. CASE Dropping(c)
    BY <2>3, DroppingActs
  <2>4. CASE Showing(c)
    BY <2>4, ShowingActs, SetMessageActs DEF Showing
  <2> QED BY <1>5, <2>1, <2>2, <2>3, <2>4
<1> QED BY <1>1, <1>2, <1>3, <1>4, <1>5, Shapes

LEMMA ActsAlways == Spec => [](TypeInv /\ HomeInv /\ ActsInv)
<1>1. TypeInv /\ HomeInv /\ ActsInv /\ [Next]_vars => (TypeInv /\ HomeInv /\ ActsInv)'
  BY NextTypes, StutterTypes, NextHomes, NextActs
<1> QED BY InitTypes, InitHomes, InitActs, <1>1, PTL DEF Spec

(* The user changes what he sees: a batch takes messages that were ticked  *)
(* at the place it is asked for, and the message that is starred or        *)
(* deleted from its page is the one that was shown at the click, unless    *)
(* loads of two messages met (handleBatch of Inbox.jsx; handleToggleStar   *)
(* and handleDelete of MessageView.jsx).                                   *)
THEOREM ChangesWhatIsSeen == Spec => []ActsOnShown
<1>1. ActsInv => ActsOnShown
  BY DEF ActsInv, CallActs, ActsOnShown
<1> QED BY ActsAlways, <1>1, PTL

-----------------------------------------------------------------------------
(* ListTells                                                               *)

(* Something will be fetched again, or has been missed.                    *)
OwnList(c) == c.page = page.no /\ c.op = "list"
OwnChange(c) == c.page = page.no /\ c.op \in {"batch", "star"} /\ c.st = "ok"
Unsettled == news \/ event \/ \E c \in calls : OwnChange(c)

Current(rows, total) ==
  rows = Rows(page.place, page.offset) /\ total = Cardinality(Listed(page.place))

(* A list that is not mixed up waits for one answer at most, which is for  *)
(* its place; and what it shows is true, or the answer is, unless it will  *)
(* be fetched again or missed something.                                   *)
ListInv ==
  page.at = "list" /\ ~page.mixed =>
    /\ \A c \in calls : OwnList(c) => c.place = page.place /\ c.offset = page.offset
    /\ \A c, d \in calls : OwnList(c) /\ OwnList(d) => c = d
    /\ ~Unsettled =>
         /\ (\A c \in calls : ~OwnList(c)) => Current(page.rows, page.total)
         /\ \A c \in calls : OwnList(c) /\ c.st = "ok" => Current(c.ans.rows, c.ans.total)

(* The same mailbox has the same lists.                                    *)
LEMMA RowsSame ==
  ASSUME mail' = mail, NEW p, NEW o
  PROVE  Rows(p, o)' = Rows(p, o) /\ Listed(p)' = Listed(p)
<1>1. Msg' = Msg
  BY DEF Msg
<1>2. Listed(p)' = Listed(p)
  BY <1>1 DEF Listed
<1>3. \A m : Newer(p, m)' = Newer(p, m)
  BY <1>2 DEF Newer
<1>4. \A m : Row(m)' = Row(m)
  BY DEF Row
<1>5. Rows(p, o)' = Rows(p, o)
  BY <1>2, <1>3, <1>4 DEF Rows
<1> QED BY <1>2, <1>5

LEMMA CurrentSame ==
  ASSUME mail' = mail, page'.place = page.place, page'.offset = page.offset,
         NEW rows, NEW total, Current(rows, total)
  PROVE  Current(rows, total)'
<1>1. PICK p, o : p = page.place /\ o = page.offset
  OBVIOUS
<1>2. rows = Rows(p, o) /\ total = Cardinality(Listed(p))
  BY <1>1 DEF Current
<1>3. rows = Rows(p, o)' /\ total = Cardinality(Listed(p)')
  BY <1>2, RowsSame
<1>4. page'.place = p /\ page'.offset = o
  BY <1>1
<1>5. Rows(page.place, page.offset)' = Rows(p, o)' /\ Listed(page.place)' = Listed(p)'
  BY <1>4 DEF Rows, Listed, Newer, Row, Msg
<1> QED BY <1>3, <1>5 DEF Current

(* A step that leaves the list alone, while nothing happens behind it.     *)
LEMMA ListsStay ==
  ASSUME ListInv,
         page'.at = "list" /\ ~page'.mixed =>
           /\ page.at = "list" /\ ~page.mixed /\ page'.no = page.no
           /\ page'.place = page.place /\ page'.offset = page.offset
           /\ page'.rows = page.rows /\ page'.total = page.total
           /\ \A d \in calls' : OwnList(d) => d \in calls
           /\ \A d \in calls : OwnList(d) => d \in calls'
           /\ ~Unsettled' => ~Unsettled /\ mail' = mail
  PROVE  ListInv'
<1> SUFFICES ASSUME page'.at = "list", ~page'.mixed
             PROVE  /\ \A c \in calls' : OwnList(c)' => c.place = page'.place
                                                        /\ c.offset = page'.offset
                    /\ \A c, d \in calls' : OwnList(c)' /\ OwnList(d)' => c = d
                    /\ ~Unsettled' =>
                         /\ (\A c \in calls' : ~OwnList(c)') => Current(page.rows, page.total)'
                         /\ \A c \in calls' : OwnList(c)' /\ c.st = "ok" =>
                              Current(c.ans.rows, c.ans.total)'
  BY DEF ListInv
<1>1. \A c : OwnList(c)' <=> OwnList(c)
  BY DEF OwnList
<1>2. \A c \in calls' : OwnList(c)' => c.place = page'.place /\ c.offset = page'.offset
  BY <1>1 DEF ListInv
<1>3. \A c, d \in calls' : OwnList(c)' /\ OwnList(d)' => c = d
  BY <1>1 DEF ListInv
<1>4. ASSUME ~Unsettled', \A c \in calls' : ~OwnList(c)'
      PROVE  Current(page.rows, page.total)'
  <2>1. PICK r, t : r = page.rows /\ t = page.total
    OBVIOUS
  <2>2. Current(r, t)
    BY <1>1, <1>4, <2>1 DEF ListInv
  <2>3. Current(r, t)'
    BY <1>4, <2>2, CurrentSame
  <2> QED BY <2>1, <2>3 DEF Current
<1>5. ASSUME ~Unsettled', NEW c \in calls', OwnList(c)', c.st = "ok"
      PROVE  Current(c.ans.rows, c.ans.total)'
  <2>1. Current(c.ans.rows, c.ans.total)
    BY <1>1, <1>5 DEF ListInv
  <2> QED BY <1>5, <2>1, CurrentSame
<1> QED BY <1>2, <1>3, <1>4, <1>5

(* A fetch that nothing else was under way with.                           *)
LEMMA FreshList ==
  ASSUME NEW e, e \in calls', e.op = "list", e.st = "asked", e.page = page'.no,
         e.place = page'.place, e.offset = page'.offset,
         page'.at = "list" /\ ~page'.mixed => \A d \in calls' : d = e \/ ~OwnList(d)'
  PROVE  ListInv'
<1> SUFFICES ASSUME page'.at = "list", ~page'.mixed
             PROVE  /\ \A c \in calls' : OwnList(c)' => c.place = page'.place
                                                        /\ c.offset = page'.offset
                    /\ \A c, d \in calls' : OwnList(c)' /\ OwnList(d)' => c = d
                    /\ ~(\A c \in calls' : ~OwnList(c)')
                    /\ \A c \in calls' : OwnList(c)' => c.st # "ok"
  BY DEF ListInv
<1>1. OwnList(e)'
  BY DEF OwnList
<1> QED BY <1>1

LEMMA InitLists == Init => ListInv
<1> SUFFICES ASSUME Init
             PROVE  ListInv
  OBVIOUS
<1>1. PICK e : e = [op |-> "list", page |-> 1, id |-> None, place |-> "inbox", offset |-> 0,
                    ticks |-> {}, on |-> FALSE, seen |-> None, mixed |-> FALSE, tag |-> 1,
                    st |-> "asked", ans |-> NoAnswer]
  OBVIOUS
<1>2. calls = {e} /\ e.op = "list" /\ e.st = "asked" /\ e.place = "inbox" /\ e.offset = 0
      /\ e.page = 1
  BY <1>1 DEF Init
<1>3. page.place = "inbox" /\ page.offset = 0 /\ page.no = 1
  BY DEF Init, Blank
<1>4. OwnList(e)
  BY <1>2, <1>3 DEF OwnList
<1> QED BY <1>2, <1>3, <1>4 DEF ListInv

LEMMA FetchingLists ==
  ASSUME TypeInv, ListInv, Fetching
  PROVE  ListInv'
<1>1. PICK p \in Place, o \in 0..MaxMsgs, T \in SUBSET page.ticks, b \in BOOLEAN :
        /\ page' = [page EXCEPT !.place = p, !.offset = o, !.ticks = T, !.mixed = b]
        /\ Of(page.no, {"list"}) # {} => b
        /\ calls' = calls \cup {ListCall(page.no, p, o)}
  BY DEF Fetching
<1>2. page'.no = page.no /\ page'.place = p /\ page'.offset = o /\ page'.mixed = b
  BY <1>1, PageTyped DEF PageSet
<1>3. PICK n : n = page.no
  OBVIOUS
<1>4. n \in 1..MaxPages
  BY <1>3, PageTyped
<1>5. PICK e : e = ListCall(n, p, o) /\ e.op = "list" /\ e.page = n /\ e.place = p
               /\ e.offset = o /\ e.st = "asked"
  BY <1>4, ListCallIs
<1>6. calls' = calls \cup {e}
  BY <1>1, <1>3, <1>5
<1>7. ASSUME ~page'.mixed, NEW d \in calls
      PROVE  ~OwnList(d)'
  <2>1. Of(page.no, {"list"}) = {}
    BY <1>1, <1>2, <1>7
  <2> QED BY <1>2, <2>1 DEF Of, OwnList
<1> QED BY <1>2, <1>3, <1>5, <1>6, <1>7, FreshList

LEMMA RefetchingLists ==
  ASSUME TypeInv, ListInv, NEW c \in calls, Refetching(c)
  PROVE  ListInv'
<1>1. PICK T \in SUBSET page.ticks, b \in BOOLEAN :
        /\ page' = [page EXCEPT !.ticks = T, !.mixed = b]
        /\ Of(page.no, {"list"}) # {} \/ c.place # page.place \/ c.offset # page.offset => b
        /\ calls' = (calls \ {c}) \cup {ListCall(page.no, c.place, c.offset)}
  BY DEF Refetching
<1>2. page'.no = page.no /\ page'.place = page.place /\ page'.offset = page.offset
      /\ page'.mixed = b
  BY <1>1, PageTyped DEF PageSet
<1>3. PICK n : n = page.no
  OBVIOUS
<1>4. n \in 1..MaxPages /\ c.place \in Place /\ c.offset \in 0..MaxMsgs
  BY <1>3, PageTyped, CallIs
<1>5. PICK e : e = ListCall(n, c.place, c.offset) /\ e.op = "list" /\ e.page = n
               /\ e.place = c.place /\ e.offset = c.offset /\ e.st = "asked"
  BY <1>4, ListCallIs
<1>6. calls' = (calls \ {c}) \cup {e}
  BY <1>1, <1>3, <1>5
<1>7. ASSUME ~page'.mixed, NEW d \in calls
      PROVE  ~OwnList(d)'
  <2>1. Of(page.no, {"list"}) = {}
    BY <1>1, <1>2, <1>7
  <2> QED BY <1>2, <2>1 DEF Of, OwnList
<1>8. CASE page'.mixed
  BY <1>8 DEF ListInv
<1>9. CASE ~page'.mixed
  <2>1. e.place = page'.place /\ e.offset = page'.offset
    BY <1>1, <1>2, <1>5, <1>9
  <2> QED BY <1>2, <1>3, <1>5, <1>6, <1>7, <2>1, FreshList
<1> QED BY <1>8, <1>9

LEMMA OpeningLists ==
  ASSUME TypeInv, ListInv, Opening
  PROVE  ListInv'
<1>1. PICK n \in 1..MaxPages, D \in SUBSET calls :
        /\ n = page.no + 1 /\ page'.no = n /\ mail' = mail /\ wish' = wish
        /\ page'.ticks = {} /\ page'.loading
        /\ \A d \in calls \ D : d.op = "delete"
        /\ \/ \E p \in Place, o \in 0..MaxMsgs :
                /\ page'.at = "list" /\ page'.place = p /\ page'.offset = o
                /\ calls' = D \cup {ListCall(n, p, o)}
           \/ \E m \in Msg :
                /\ page'.at = "view" /\ page'.id = m
                /\ calls' = D \cup {GetCall(n, m)}
  BY DEF Opening
<1>2. ASSUME NEW p \in Place, NEW o \in 0..MaxMsgs, page'.place = p, page'.offset = o,
             calls' = D \cup {ListCall(n, p, o)}
      PROVE  ListInv'
  <2>1. PICK e : e = ListCall(n, p, o) /\ e.op = "list" /\ e.page = n /\ e.place = p
                 /\ e.offset = o /\ e.st = "asked"
    BY ListCallIs
  <2>2. ASSUME NEW d \in calls
        PROVE  ~OwnList(d)'
    <3>1. d.page <= page.no /\ d.page \in Nat /\ page.no \in Nat
      BY CallIs, PageTyped
    <3> QED BY <1>1, <3>1 DEF OwnList
  <2>3. calls' = D \cup {e}
    BY <1>2, <2>1
  <2> QED BY <1>1, <1>2, <2>1, <2>2, <2>3, FreshList
<1>3. CASE page'.at = "view"
  BY <1>3 DEF ListInv
<1> QED BY <1>1, <1>2, <1>3

LEMMA ClicksLists ==
  ASSUME TypeInv, ListInv, Ticking \/ Asking \/ Jumping
  PROVE  ListInv'
<1>1. CASE Ticking
  <2>1. PICK T :
          /\ page' = [page EXCEPT !.ticks = T] /\ calls' = calls
          /\ mail' = mail /\ news' = news /\ event' = event
    BY <1>1 DEF Ticking
  <2>2. /\ page'.no = page.no /\ page'.at = page.at /\ page'.mixed = page.mixed
        /\ page'.place = page.place /\ page'.offset = page.offset
        /\ page'.rows = page.rows /\ page'.total = page.total
    BY <2>1, PageTyped DEF PageSet
  <2>3. Unsettled' = Unsettled
    BY <2>1, <2>2 DEF Unsettled, OwnChange
  <2> QED BY <2>1, <2>2, <2>3, ListsStay
<1>2. CASE Asking
  <2>1. PICK e \in CallSet : calls' = calls \cup {e} /\ e.st = "asked"
                             /\ e.op \in {"batch", "star", "delete", "starView"}
    BY <1>2 DEF Asking
  <2>2. page' = page /\ mail' = mail /\ news' = news /\ event' = event
    BY <1>2 DEF Asking
  <2>3. Unsettled => Unsettled'
    BY <2>1, <2>2 DEF Unsettled, OwnChange
  <2>4. ~OwnList(e)
    BY <2>1 DEF OwnList
  <2> QED BY <2>1, <2>2, <2>3, <2>4, ListsStay
<1>3. CASE Jumping
  <2>1. page'.at = "view"
    BY <1>3, PageTyped DEF Jumping, PageSet
  <2> QED BY <2>1 DEF ListInv
<1> QED BY <1>1, <1>2, <1>3

LEMMA RestingLists ==
  ASSUME TypeInv, ListInv, Resting
  PROVE  ListInv'
<1>1. calls' = calls /\ page' = page
  BY DEF Resting
<1>2. (\E c \in calls : OwnChange(c))' <=> \E c \in calls : OwnChange(c)
  BY <1>1 DEF OwnChange
<1>3. CASE page.at = "view"
  BY <1>1, <1>3 DEF ListInv
<1>4. CASE page.at # "view"
  <2>1. ~Unsettled' => ~Unsettled /\ mail' = mail
    <3>1. CASE Deliver
      BY <1>2, <3>1 DEF Deliver, Unsettled
    <3>2. CASE \E m \in Msg : Elsewhere(m)
      BY <3>2 DEF Elsewhere, Unsettled
    <3>3. CASE Disconnect
      BY <1>2, <3>3 DEF Disconnect, Unsettled
    <3>4. CASE Connect
      BY <1>2, <3>4 DEF Connect, Unsettled
    <3>5. CASE UNCHANGED vars
      BY <1>2, <3>5 DEF vars, Unsettled
    <3> QED BY <1>4, <3>1, <3>2, <3>3, <3>4, <3>5 DEF Resting
  <2> QED BY <1>1, <2>1, ListsStay
<1> QED BY <1>3, <1>4

LEMMA ListServedLists ==
  ASSUME TypeInv, ListInv, NEW c \in calls, OwnList(c), Serve(c)
  PROVE  ListInv'
<1>1. PICK s, a : Served(c, s, a)
  BY ServeIs
<1>2. page' = page /\ mail' = mail
  BY <1>1 DEF Serve, Served, Changes, OwnList
<1>3. PICK d : d = [c EXCEPT !.st = s, !.ans = a]
  OBVIOUS
<1>4. d.op = c.op /\ d.page = c.page /\ d.place = c.place /\ d.offset = c.offset /\ d.ans = a
  BY <1>3, CallIs DEF CallSet
<1>5. calls' = (calls \ {c}) \cup {d}
  BY <1>1, <1>3 DEF Served
<1>6. a.rows = Rows(c.place, c.offset) /\ a.total = Cardinality(Listed(c.place))
  BY <1>1 DEF Served, Answers, OwnList
<1>7. CASE page.at = "list" /\ ~page.mixed
  <2>1. c.place = page.place /\ c.offset = page.offset
    BY <1>7 DEF ListInv
  <2>2. \A x \in calls' : OwnList(x)' => x = d
    BY <1>2, <1>5, <1>7 DEF ListInv, OwnList
  <2>3. OwnList(d)' /\ d \in calls'
    BY <1>2, <1>4, <1>5 DEF OwnList
  <2>4. Current(a.rows, a.total)
    BY <1>6, <2>1 DEF Current
  <2>5. Current(a.rows, a.total)'
    <3>1. PICK r, t : r = a.rows /\ t = a.total
      OBVIOUS
    <3>2. Current(r, t)'
      BY <1>2, <2>4, <3>1, CurrentSame
    <3> QED BY <3>1, <3>2
  <2>6. d.place = page'.place /\ d.offset = page'.offset
    BY <1>2, <1>4, <2>1
  <2>7. \A x \in calls' : OwnList(x)' => Current(x.ans.rows, x.ans.total)'
    BY <1>4, <2>2, <2>5
  <2> QED BY <2>2, <2>3, <2>6, <2>7 DEF ListInv
<1>8. CASE ~(page.at = "list" /\ ~page.mixed)
  BY <1>2, <1>8 DEF ListInv
<1> QED BY <1>7, <1>8

LEMMA OtherServedLists ==
  ASSUME TypeInv, ListInv, NEW c \in calls, ~OwnList(c), Serve(c)
  PROVE  ListInv'
<1>1. PICK s, a : Served(c, s, a)
  BY ServeIs
<1>2. page' = page /\ event' = event /\ c.st = "asked" /\ s \in {"ok", "failed"}
  BY <1>1 DEF Serve, Served, Answers
<1>3. PICK d : d = [c EXCEPT !.st = s, !.ans = a]
  OBVIOUS
<1>4. d.op = c.op /\ d.page = c.page /\ d.st = s
  BY <1>3, CallIs DEF CallSet
<1>5. calls' = (calls \ {c}) \cup {d}
  BY <1>1, <1>3 DEF Served
<1>6. \A x \in calls : OwnChange(x) => x \in calls' /\ OwnChange(x)'
  BY <1>2, <1>5 DEF OwnChange
<1>7. ASSUME ~Unsettled'
      PROVE  ~Unsettled /\ mail' = mail
  <2>1. ~news' /\ ~event' /\ \A x \in calls' : ~OwnChange(x)'
    BY <1>7 DEF Unsettled
  <2>2. \A x \in calls : ~OwnChange(x)
    BY <1>6, <2>1
  <2>3. c.op = "list" \/ s = "failed" \/ c.op = "get"
    <3>1. ASSUME s = "ok", c.op \notin {"list", "get"}
          PROVE  FALSE
      <4>1. news' = (news \/ Unseen(c))
        BY <1>1, <3>1 DEF Served, Announces
      <4>2. ~Unseen(c)
        BY <2>1, <4>1
      <4>3. OwnChange(d)'
        BY <1>2, <1>4, <3>1, <4>2 DEF Unseen, OwnChange
      <4> QED BY <1>5, <2>1, <4>3
    <3> QED BY <1>2, <3>1
  <2>4. mail' = mail
    BY <1>1, <2>3 DEF Served, Changes
  <2>5. ~news
    <3>1. CASE c.op = "list"
      <4>1. news' = (news /\ c.page # page.no)
        BY <1>1, <3>1 DEF Served, Announces
      <4>2. c.page # page.no
        BY <3>1 DEF OwnList
      <4> QED BY <2>1, <4>1, <4>2
    <3>2. CASE c.op # "list"
      <4>1. news' = news
        BY <1>1, <2>3, <3>2 DEF Served, Announces
      <4> QED BY <2>1, <4>1
    <3> QED BY <3>1, <3>2
  <2> QED BY <1>2, <2>1, <2>2, <2>4, <2>5 DEF Unsettled
<1>8. ~OwnList(d)
  BY <1>4 DEF OwnList
<1>9. /\ \A x \in calls' : OwnList(x) => x \in calls
      /\ \A x \in calls : OwnList(x) => x \in calls'
  BY <1>5, <1>8
<1> QED BY <1>2, <1>7, <1>9, ListsStay

LEMMA FailLists ==
  ASSUME TypeInv, ListInv, NEW c \in calls, Fail(c)
  PROVE  ListInv'
<1>1. page' = page /\ mail' = mail /\ event' = event /\ c.st \in {"asked", "ok"}
      /\ (c.st = "asked" => news' = news) /\ (c.st = "ok" => news')
  BY FailIs DEF Fail
<1>2. PICK d : d = [c EXCEPT !.st = "failed", !.ans = c.ans]
  OBVIOUS
<1>3. d.op = c.op /\ d.page = c.page /\ d.st = "failed" /\ d.place = c.place
      /\ d.offset = c.offset
  BY <1>2, CallIs DEF CallSet
<1>4. calls' = (calls \ {c}) \cup {d}
  BY <1>2, FailIs
<1>5. ~Unsettled' => ~Unsettled
  <2>1. ASSUME ~Unsettled'
        PROVE  ~Unsettled
    <3>1. ~news' /\ ~event' /\ \A x \in calls' : ~OwnChange(x)'
      BY <2>1 DEF Unsettled
    <3>2. c.st = "asked" /\ ~news
      BY <1>1, <3>1
    <3>3. \A x \in calls : OwnChange(x) => x \in calls' /\ OwnChange(x)'
      BY <1>1, <1>4, <3>2 DEF OwnChange
    <3> QED BY <1>1, <3>1, <3>2, <3>3 DEF Unsettled
  <2> QED BY <2>1
<1>6. CASE ~OwnList(c)
  <2>1. ~OwnList(d)
    BY <1>3, <1>6 DEF OwnList
  <2>2. /\ \A x \in calls' : OwnList(x) => x \in calls
        /\ \A x \in calls : OwnList(x) => x \in calls'
    BY <1>4, <1>6, <2>1
  <2> QED BY <1>1, <1>5, <2>2, ListsStay
<1>7. CASE OwnList(c) /\ page.at = "list" /\ ~page.mixed
  <2>1. c.place = page.place /\ c.offset = page.offset
    BY <1>7 DEF ListInv
  <2>2. \A x \in calls' : OwnList(x)' => x = d
    BY <1>1, <1>4, <1>7 DEF ListInv, OwnList
  <2>3. OwnList(d)' /\ d \in calls'
    BY <1>1, <1>3, <1>4, <1>7 DEF OwnList
  <2>4. d.place = page'.place /\ d.offset = page'.offset
    BY <1>1, <1>3, <2>1
  <2>5. \A x \in calls' : OwnList(x)' => x.st # "ok"
    BY <1>3, <2>2
  <2> QED BY <2>2, <2>3, <2>4, <2>5 DEF ListInv
<1>8. CASE ~(page.at = "list" /\ ~page.mixed)
  BY <1>1, <1>8 DEF ListInv
<1> QED BY <1>6, <1>7, <1>8

LEMMA SetMessagesLists ==
  ASSUME TypeInv, ListInv, NEW c \in calls, mail' = mail, news' = news, event' = event,
         SetMessages(c)
  PROVE  ListInv'
<1>1. c.op = "list" /\ calls' = calls \ {c}
  BY DEF SetMessages, Then
<1>2. CASE ~Mine(c)
  <2>1. page' = page
    BY <1>2 DEF SetMessages
  <2>2. Unsettled' <=> Unsettled
    BY <1>1, <2>1 DEF Unsettled, OwnChange
  <2>3. ~OwnList(c)
    BY <1>2 DEF OwnList, Mine
  <2> QED BY <1>1, <2>1, <2>2, <2>3, ListsStay
<1>3. CASE Mine(c) /\ c.st # "ok"
  <2>1. page'.mixed
    BY <1>3, PageTyped DEF SetMessages, PageSet
  <2> QED BY <2>1 DEF ListInv
<1>4. CASE Mine(c) /\ c.st = "ok"
  <2>1. /\ page'.no = page.no /\ page'.at = page.at /\ page'.mixed = page.mixed
        /\ page'.place = page.place /\ page'.offset = page.offset
        /\ page'.rows = c.ans.rows /\ page'.total = c.ans.total
    BY <1>4, PageTyped DEF SetMessages, PageSet
  <2>2. CASE page.at = "list" /\ ~page.mixed
    <3>1. OwnList(c)
      BY <1>1, <1>4 DEF OwnList, Mine
    <3>2. \A x \in calls' : ~OwnList(x)'
      BY <1>1, <2>1, <2>2, <3>1 DEF ListInv, OwnList
    <3>3. Unsettled' <=> Unsettled
      BY <1>1, <2>1 DEF Unsettled, OwnChange
    <3>4. ASSUME ~Unsettled'
          PROVE  Current(page.rows, page.total)'
      <4>1. PICK r, t : r = c.ans.rows /\ t = c.ans.total
        OBVIOUS
      <4>2. Current(r, t)
        BY <1>4, <2>2, <3>1, <3>3, <3>4, <4>1 DEF ListInv
      <4>3. Current(r, t)'
        BY <2>1, <4>2, CurrentSame
      <4>4. page'.rows = r /\ page'.total = t
        BY <2>1, <4>1
      <4> QED BY <4>3, <4>4 DEF Current
    <3> QED BY <3>2, <3>4 DEF ListInv
  <2>3. CASE ~(page.at = "list" /\ ~page.mixed)
    BY <2>1, <2>3 DEF ListInv
  <2> QED BY <2>2, <2>3
<1> QED BY <1>2, <1>3, <1>4

(* Answers that are of the page of a message, or are dropped.              *)
LEMMA OtherAnswersLists ==
  ASSUME TypeInv, HomeInv, ListInv, NEW c \in calls, mail' = mail, news' = news, event' = event,
         Dropping(c) \/ SetMessage(c) \/ SetStar(c) \/ Marked(c)
  PROVE  ListInv'
<1>1. c.op # "list" /\ (c.op \in {"batch", "star"} => c.page # page.no \/ c.st = "failed")
  BY DEF Dropping, SetMessage, SetStar, Marked
<1>2. calls \ {c} \subseteq calls' /\ \A x \in calls' : x \in calls \/ x.op = "read"
  <2>1. CASE SetMessage(c)
    <3>1. PICK e \in CallSet : /\ calls' \subseteq (calls \ {c}) \cup {e}
                               /\ calls \ {c} \subseteq calls' /\ e.op = "read"
      BY <2>1, ReadCall
    <3> QED BY <3>1
  <2>2. CASE Dropping(c) \/ SetStar(c) \/ Marked(c)
    BY <2>2 DEF Dropping, SetStar, Marked, Then
  <2> QED BY <2>1, <2>2
<1>3. CASE page' = page
  <2>1. Unsettled => Unsettled'
    BY <1>1, <1>2, <1>3 DEF Unsettled, OwnChange
  <2>2. /\ \A x \in calls' : OwnList(x) => x \in calls
        /\ \A x \in calls : OwnList(x) => x \in calls'
    BY <1>1, <1>2 DEF OwnList
  <2> QED BY <1>3, <2>1, <2>2, ListsStay
<1>4. CASE page' # page
  <2>1. c.page = page.no /\ c.op \in {"get", "starView", "read"}
    BY <1>4 DEF Dropping, SetMessage, SetStar, Marked, Mine
  <2>2. page.at = "view"
    BY <2>1 DEF HomeInv, HomeOK
  <2>3. page'.at = page.at
    BY <1>4, PageTyped DEF Dropping, SetMessage, SetStar, Marked, PageSet
  <2> QED BY <2>2, <2>3 DEF ListInv
<1> QED BY <1>3, <1>4

LEMMA NextLists ==
  ASSUME TypeInv, HomeInv, ListInv, [Next]_vars
  PROVE  ListInv'
<1>1. CASE Fetching
  BY <1>1, FetchingLists
<1>2. CASE Opening
  BY <1>2, OpeningLists
<1>3. CASE Ticking \/ Asking \/ Jumping
  BY <1>3, ClicksLists
<1>4. CASE Resting
  BY <1>4, RestingLists
<1>5. ASSUME NEW c \in calls,
             Serve(c) \/ Fail(c) \/ Refetching(c) \/ Dropping(c) \/ Showing(c)
      PROVE  ListInv'
  <2>1. CASE Serve(c)
    BY <2>1, ListServedLists, OtherServedLists
  <2>2. CASE Fail(c)
    BY <2>2, FailLists
  <2>3. CASE Refetching(c)
    BY <2>3, RefetchingLists
  <2>4. CASE Dropping(c)
    <3>1. mail' = mail /\ news' = news /\ event' = event
      BY <2>4 DEF Dropping
    <3> QED BY <2>4, <3>1, OtherAnswersLists
  <2>5. CASE Showing(c)
    <3>1. mail' = mail /\ news' = news /\ event' = event
      BY <2>5 DEF Showing
    <3> QED BY <2>5, <3>1, SetMessagesLists, OtherAnswersLists DEF Showing
  <2> QED BY <1>5, <2>1, <2>2, <2>3, <2>4, <2>5
<1> QED BY <1>1, <1>2, <1>3, <1>4, <1>5, Shapes

(* A list at rest shows what the mailbox holds at its place, unless two    *)
(* fetches were under way at one time, or the last one was for the place   *)
(* of an earlier click, or failed, and but for what happened behind it     *)
(* (fetchMessages and its callers in Inbox.jsx, listMessages of the        *)
(* server, sse.js).                                                        *)
THEOREM ListAtRestTells == Spec => []ListTells
<1>1. TypeInv /\ HomeInv /\ ListInv /\ [Next]_vars => (TypeInv /\ HomeInv /\ ListInv)'
  BY NextTypes, StutterTypes, NextHomes, NextLists
<1>2. ListInv => ListTells
  <2> SUFFICES ASSUME ListInv, page.at = "list", ~page.mixed, ~news, ~event,
                      Of(page.no, {"list", "batch", "star"}) = {}
               PROVE  page.rows = Rows(page.place, page.offset)
                      /\ page.total = Cardinality(Listed(page.place))
    BY DEF ListTells
  <2>1. \A c \in calls : ~OwnList(c) /\ ~OwnChange(c)
    BY DEF Of, OwnList, OwnChange
  <2>2. ~Unsettled
    BY <2>1 DEF Unsettled
  <2> QED BY <2>1, <2>2 DEF ListInv, Current
<1> QED BY InitTypes, InitHomes, InitLists, <1>1, <1>2, PTL DEF Spec

-----------------------------------------------------------------------------
(* FlagsSettle: stars                                                      *)

(* While the wish for a star stands, there is at most one request about    *)
(* it, which has not failed and asks for what is wished; and the star is   *)
(* as wished when the server answered it, and when none is left.           *)
StarOK(m) ==
  Here(m) /\ wish[m] # "none" =>
    /\ StarsOf(m) = {} => mail[m].star = (wish[m] = "on")
    /\ \A c \in StarsOf(m) :
         /\ c.st # "failed" /\ c.on = (wish[m] = "on")
         /\ c.st = "ok" => mail[m].star = c.on
         /\ \A d \in StarsOf(m) : c = d
StarsInv ==
  /\ \A m \in (1..MaxMsgs) \ Msg : wish[m] = "none"
  /\ \A m \in Msg : StarOK(m)

(* A message whose star nothing is done about.                             *)
LEMMA StarStays ==
  ASSUME NEW m, StarOK(m), mail'[m].gone \/ Here(m), mail'[m].star = mail[m].star,
         wish'[m] = wish[m] \/ wish'[m] = "none",
         \A d : d.op \in Starring /\ d.id = m => (d \in calls' <=> d \in calls)
  PROVE  StarOK(m)'
<1>1. StarsOf(m)' = StarsOf(m)
  BY DEF StarsOf
<1> QED BY <1>1 DEF StarOK, Here

LEMMA StarsStay ==
  ASSUME StarsInv, Msg' = Msg, wish' = wish,
         \A n \in Msg : (mail[n].gone => mail'[n].gone) /\ mail'[n].star = mail[n].star,
         \A d : d.op \in Starring => (d \in calls' <=> d \in calls)
  PROVE  StarsInv'
<1>1. \A m \in Msg : StarOK(m)'
  <2> SUFFICES ASSUME NEW m \in Msg
               PROVE  StarOK(m)'
    OBVIOUS
  <2>1. StarOK(m) /\ (mail'[m].gone \/ Here(m)) /\ mail'[m].star = mail[m].star
        /\ wish'[m] = wish[m]
    BY DEF StarsInv, Here
  <2> QED BY <2>1, StarStays
<1> QED BY <1>1 DEF StarsInv

(* The same when the mailbox stays.                                        *)
LEMMA StarsSame ==
  ASSUME StarsInv, mail' = mail, wish' = wish,
         \A d : d.op \in Starring => (d \in calls' <=> d \in calls)
  PROVE  StarsInv'
<1>1. Msg' = Msg
  BY DEF Msg
<1> QED BY <1>1, StarsStay

LEMMA InitStars == Init => StarsInv
<1> SUFFICES ASSUME Init
             PROVE  StarsInv
  OBVIOUS
<1>1. wish = [m \in 1..MaxMsgs |-> "none"]
  BY DEF Init
<1>2. Msg \subseteq 1..MaxMsgs
  BY InitTypes, Numbers
<1> QED BY <1>1, <1>2 DEF StarsInv, StarOK

LEMMA StarAskedStars ==
  ASSUME TypeInv, StarsInv, NEW e \in CallSet, e.op \in Starring, e.id \in Msg, e.st = "asked",
         calls' = calls \cup {e}, mail' = mail, Star(e.op, e.id, e.on)
  PROVE  StarsInv'
<1>1. Msg' = Msg /\ e.id \in 1..MaxMsgs /\ e.on \in BOOLEAN
  BY Numbers DEF Msg, CallSet
<1>2. wish' = [wish EXCEPT ![e.id] = IF StarsOf(e.id) # {} THEN "none"
                                     ELSE IF e.on THEN "on" ELSE "off"]
  BY DEF Star
<1>3. /\ wish'[e.id] = IF StarsOf(e.id) # {} THEN "none" ELSE IF e.on THEN "on" ELSE "off"
      /\ \A m \in 1..MaxMsgs : m # e.id => wish'[m] = wish[m]
  BY <1>1, <1>2 DEF TypeInv, CountsOK
<1>4. ASSUME NEW m \in Msg, m # e.id
      PROVE  StarOK(m)'
  <2>1. StarOK(m) /\ wish'[m] = wish[m] /\ mail'[m].star = mail[m].star
        /\ (mail'[m].gone \/ Here(m))
    BY <1>3, <1>4, Numbers DEF StarsInv, Here
  <2>2. \A d : d.op \in Starring /\ d.id = m => (d \in calls' <=> d \in calls)
    BY <1>4
  <2> QED BY <2>1, <2>2, StarStays
<1>5. StarOK(e.id)'
  <2>1. PICK m : m = e.id
    OBVIOUS
  <2>2. CASE StarsOf(m) # {}
    BY <1>3, <2>1, <2>2 DEF StarOK
  <2>3. CASE StarsOf(m) = {}
    <3>1. StarsOf(m)' = {e}
      BY <2>1, <2>3 DEF StarsOf
    <3>2. e.on = (wish'[m] = "on")
      BY <1>1, <1>3, <2>1, <2>3
    <3>3. StarOK(m)'
      BY <3>1, <3>2 DEF StarOK
    <3> QED BY <2>1, <3>3
  <2> QED BY <2>1, <2>2, <2>3
<1>6. \A m \in (1..MaxMsgs) \ Msg : wish'[m] = "none"
  BY <1>3 DEF StarsInv
<1> QED BY <1>1, <1>4, <1>5, <1>6 DEF StarsInv

LEMMA StarServedStars ==
  ASSUME TypeInv, StarsInv, NEW c \in calls, c.op \in Starring, Serve(c)
  PROVE  StarsInv'
<1>1. PICK s, a : Served(c, s, a)
  BY ServeIs
<1>2. /\ Len(mail') = Len(mail) /\ wish' = wish /\ c.id \in Msg /\ s \in {"ok", "failed"}
      /\ \A n \in Msg : /\ mail[n].gone => mail'[n].gone
                        /\ ~(n = c.id /\ s = "ok") => mail'[n].star = mail[n].star
      /\ s = "ok" => mail'[c.id].star = c.on
      /\ s = "failed" => mail[c.id].gone
  BY <1>1, CallIs DEF Serve, Served, Changes, Answers, Starring
<1>3. PICK d : d = [c EXCEPT !.st = s, !.ans = a]
  OBVIOUS
<1>4. d.op = c.op /\ d.id = c.id /\ d.on = c.on /\ d.st = s
  BY <1>3, CallIs DEF CallSet
<1>5. calls' = (calls \ {c}) \cup {d}
  BY <1>1, <1>3 DEF Served
<1>6. Msg' = Msg
  BY <1>2 DEF Msg
<1>7. ASSUME NEW m \in Msg, m # c.id
      PROVE  StarOK(m)'
  <2>1. StarOK(m) /\ wish'[m] = wish[m] /\ mail'[m].star = mail[m].star
        /\ (mail'[m].gone \/ Here(m))
    BY <1>2, <1>7 DEF StarsInv, Here
  <2>2. \A x : x.op \in Starring /\ x.id = m => (x \in calls' <=> x \in calls)
    BY <1>4, <1>5, <1>7
  <2> QED BY <2>1, <2>2, StarStays
<1>8. StarOK(c.id)'
  <2>1. PICK m : m = c.id
    OBVIOUS
  <2>2. CASE s = "failed" \/ ~Here(m) \/ wish[m] = "none"
    <3>1. mail'[m].gone \/ wish'[m] = "none"
      BY <1>2, <2>1, <2>2 DEF Here
    <3>2. StarOK(m)'
      BY <3>1 DEF StarOK, Here
    <3> QED BY <2>1, <3>2
  <2>3. CASE s = "ok" /\ Here(m) /\ wish[m] # "none"
    <3>1. c \in StarsOf(m) /\ StarOK(m)
      BY <1>2, <2>1 DEF StarsOf, StarsInv
    <3>2. c.on = (wish[m] = "on") /\ \A x \in StarsOf(m) : x = c
      BY <2>3, <3>1 DEF StarOK
    <3>3. StarsOf(m)' = {d}
      BY <1>4, <1>5, <2>1, <3>1, <3>2 DEF StarsOf
    <3>4. mail'[m].star = d.on /\ d.on = (wish'[m] = "on") /\ d.st # "failed"
      BY <1>2, <1>4, <2>1, <2>3, <3>2
    <3>5. StarOK(m)'
      BY <3>3, <3>4 DEF StarOK
    <3> QED BY <2>1, <3>5
  <2> QED BY <1>2, <2>2, <2>3
<1> QED BY <1>2, <1>6, <1>7, <1>8 DEF StarsInv

(* A request about a star is gone, or has failed.                          *)
LEMMA StarFailedStars ==
  ASSUME TypeInv, StarsInv, NEW c \in calls, c.op \in Starring, Fail(c)
  PROVE  StarsInv'
<1>1. mail' = mail /\ c.id \in Msg /\ wish' = [wish EXCEPT ![c.id] = "none"]
  BY CallIs DEF Fail, Unwished, Starring
<1>2. PICK d : d = [c EXCEPT !.st = "failed", !.ans = c.ans]
  OBVIOUS
<1>3. d.id = c.id
  BY <1>2, CallIs DEF CallSet
<1>4. calls' = (calls \ {c}) \cup {d}
  BY <1>2, FailIs
<1>5. Msg' = Msg /\ c.id \in 1..MaxMsgs
  BY <1>1, Numbers DEF Msg
<1>6. wish'[c.id] = "none" /\ \A m \in 1..MaxMsgs : m # c.id => wish'[m] = wish[m]
  BY <1>1, <1>5 DEF TypeInv, CountsOK
<1>7. ASSUME NEW m \in Msg, m # c.id
      PROVE  StarOK(m)'
  <2>1. StarOK(m) /\ wish'[m] = wish[m] /\ mail'[m].star = mail[m].star
        /\ (mail'[m].gone \/ Here(m))
    BY <1>1, <1>6, <1>7, Numbers DEF StarsInv, Here
  <2>2. \A x : x.op \in Starring /\ x.id = m => (x \in calls' <=> x \in calls)
    BY <1>3, <1>4, <1>7
  <2> QED BY <2>1, <2>2, StarStays
<1>8. StarOK(c.id)'
  <2>1. PICK m : m = c.id
    OBVIOUS
  <2>2. StarOK(m)'
    BY <1>6, <2>1 DEF StarOK
  <2> QED BY <2>1, <2>2
<1>9. \A m \in (1..MaxMsgs) \ Msg : wish'[m] = "none"
  BY <1>6 DEF StarsInv
<1> QED BY <1>5, <1>7, <1>8, <1>9 DEF StarsInv

LEMMA StarGoneStars ==
  ASSUME TypeInv, StarsInv, NEW c \in calls, c.op \in Starring, c.st \in {"ok", "failed"},
         mail' = mail, wish' = wish, c \notin calls',
         \A d : d.op \in Starring /\ d # c => (d \in calls' <=> d \in calls)
  PROVE  StarsInv'
<1>1. Msg' = Msg /\ c.id \in Msg
  BY CallIs DEF Msg, Starring
<1>2. ASSUME NEW m \in Msg, m # c.id
      PROVE  StarOK(m)'
  <2>1. StarOK(m) /\ wish'[m] = wish[m] /\ mail'[m].star = mail[m].star
        /\ (mail'[m].gone \/ Here(m))
    BY DEF StarsInv, Here
  <2>2. \A x : x.op \in Starring /\ x.id = m => (x \in calls' <=> x \in calls)
    BY <1>2
  <2> QED BY <2>1, <2>2, StarStays
<1>3. StarOK(c.id)'
  <2>1. PICK m : m = c.id
    OBVIOUS
  <2>2. CASE ~Here(m) \/ wish[m] = "none"
    <3>1. StarOK(m)'
      BY <2>2 DEF StarOK, Here
    <3> QED BY <2>1, <3>1
  <2>3. CASE Here(m) /\ wish[m] # "none"
    <3>1. c \in StarsOf(m) /\ StarOK(m)
      BY <1>1, <2>1 DEF StarsOf, StarsInv
    <3>2. mail[m].star = (wish[m] = "on") /\ \A x \in StarsOf(m) : x = c
      BY <2>3, <3>1 DEF StarOK
    <3>3. StarsOf(m)' = {}
      BY <3>2 DEF StarsOf
    <3>4. StarOK(m)'
      BY <3>2, <3>3 DEF StarOK
    <3> QED BY <2>1, <3>4
  <2> QED BY <2>2, <2>3
<1> QED BY <1>1, <1>2, <1>3 DEF StarsInv

LEMMA FetchesStars ==
  ASSUME TypeInv, StarsInv, Fetching \/ Opening \/ Ticking \/ Jumping
  PROVE  StarsInv'
<1>1. CASE Fetching
  <2>1. PICK p \in Place, o \in 0..MaxMsgs, T \in SUBSET page.ticks, b \in BOOLEAN :
          calls' = calls \cup {ListCall(page.no, p, o)} /\ mail' = mail /\ wish' = wish
    BY <1>1 DEF Fetching
  <2>2. PICK n : n = page.no
    OBVIOUS
  <2>3. n \in 1..MaxPages
    BY <2>2, PageTyped
  <2>4. PICK e : e = ListCall(n, p, o) /\ e.op = "list"
    BY <2>3, ListCallIs
  <2>5. \A d : d.op \in Starring => (d \in calls' <=> d \in calls)
    BY <2>1, <2>2, <2>4 DEF Starring
  <2> QED BY <2>1, <2>5, StarsSame
<1>2. CASE Opening
  <2>1. PICK n \in 1..MaxPages, D \in SUBSET calls :
          /\ n = page.no + 1 /\ page'.no = n /\ mail' = mail /\ wish' = wish
          /\ page'.ticks = {} /\ page'.loading
          /\ \A d \in calls \ D : d.op = "delete"
          /\ \/ \E p \in Place, o \in 0..MaxMsgs :
                  /\ page'.at = "list" /\ page'.place = p /\ page'.offset = o
                  /\ calls' = D \cup {ListCall(n, p, o)}
             \/ \E m \in Msg :
                  /\ page'.at = "view" /\ page'.id = m
                  /\ calls' = D \cup {GetCall(n, m)}
    BY <1>2 DEF Opening
  <2>2. PICK e : calls' = D \cup {e} /\ e.op \in {"list", "get"}
    <3>1. ASSUME NEW p \in Place, NEW o \in 0..MaxMsgs, calls' = D \cup {ListCall(n, p, o)}
          PROVE  \E e : calls' = D \cup {e} /\ e.op \in {"list", "get"}
      BY <3>1, ListCallIs
    <3>2. ASSUME NEW m \in Msg, calls' = D \cup {GetCall(n, m)}
          PROVE  \E e : calls' = D \cup {e} /\ e.op \in {"list", "get"}
      BY <3>2, GetCallIs
    <3> QED BY <2>1, <3>1, <3>2
  <2>3. \A d : d.op \in Starring => (d \in calls' <=> d \in calls)
    BY <2>1, <2>2 DEF Starring
  <2> QED BY <2>1, <2>3, StarsSame
<1>3. CASE Ticking
  <2>1. mail' = mail /\ wish' = wish /\ calls' = calls
    BY <1>3 DEF Ticking
  <2> QED BY <2>1, StarsSame
<1>4. CASE Jumping
  <2>1. PICK m \in Msg, b \in BOOLEAN :
          calls' = calls \cup {GetCall(page.no, m)} /\ mail' = mail /\ wish' = wish
    BY <1>4 DEF Jumping
  <2>2. PICK n : n = page.no
    OBVIOUS
  <2>3. n \in 1..MaxPages
    BY <2>2, PageTyped
  <2>4. PICK e : e = GetCall(n, m) /\ e.op = "get"
    BY <2>3, GetCallIs
  <2>5. \A d : d.op \in Starring => (d \in calls' <=> d \in calls)
    BY <2>1, <2>2, <2>4 DEF Starring
  <2> QED BY <2>1, <2>5, StarsSame
<1> QED BY <1>1, <1>2, <1>3, <1>4

LEMMA AskingStars ==
  ASSUME TypeInv, StarsInv, Asking
  PROVE  StarsInv'
<1>1. PICK e \in CallSet :
        /\ calls' = calls \cup {e} /\ e.st = "asked"
        /\ IF e.op \in Starring THEN e.id \in Msg /\ Star(e.op, e.id, e.on) ELSE wish' = wish
  BY DEF Asking
<1>2. mail' = mail
  BY DEF Asking
<1>3. CASE e.op \in Starring
  BY <1>1, <1>2, <1>3, StarAskedStars
<1>4. CASE e.op \notin Starring
  <2>1. \A d : d.op \in Starring => (d \in calls' <=> d \in calls)
    BY <1>1, <1>4
  <2> QED BY <1>1, <1>2, <1>4, <2>1, StarsSame
<1> QED BY <1>3, <1>4

LEMMA RestingStars ==
  ASSUME TypeInv, StarsInv, Resting
  PROVE  StarsInv'
<1>1. calls' = calls
  BY DEF Resting
<1>2. CASE Deliver
  <2>1. wish' = wish /\ Len(mail') = Len(mail) + 1 /\ \A n \in Msg : mail'[n] = mail[n]
    BY <1>2, DeliverIs DEF Deliver
  <2>2. Len(mail) \in Nat
    BY Numbers
  <2>3. Msg' = Msg \cup {Len(mail')} /\ Msg' \subseteq 1..MaxMsgs /\ Len(mail') \notin Msg
    <3>1. Msg' = Msg \cup {Len(mail')} /\ Len(mail') \notin Msg
      BY <2>1, <2>2 DEF Msg
    <3>2. Len(mail') <= MaxMsgs
      BY <1>2, <2>1, <2>2, InboxAssumption DEF Deliver
    <3> QED BY <2>1, <2>2, <3>1, <3>2, Numbers, InboxAssumption
  <2>4. ASSUME NEW m \in Msg
        PROVE  StarOK(m)'
    <3>1. StarOK(m) /\ wish'[m] = wish[m] /\ mail'[m].star = mail[m].star
          /\ (mail'[m].gone \/ Here(m))
      BY <2>1 DEF StarsInv, Here
    <3> QED BY <1>1, <3>1, StarStays
  <2>5. PICK k : k = Len(mail')
    OBVIOUS
  <2>6. StarOK(k)'
    <3>1. k \in (1..MaxMsgs) \ Msg
      BY <2>3, <2>5
    <3>2. wish'[k] = "none"
      BY <2>1, <3>1 DEF StarsInv
    <3> QED BY <3>2 DEF StarOK
  <2>7. \A m \in Msg' : StarOK(m)'
    BY <2>3, <2>4, <2>5, <2>6
  <2>8. \A m \in (1..MaxMsgs) \ Msg' : wish'[m] = "none"
    BY <2>1, <2>3 DEF StarsInv
  <2> QED BY <2>7, <2>8 DEF StarsInv
<1>3. ASSUME NEW n \in Msg, Elsewhere(n)
      PROVE  StarsInv'
  <2>1. PICK r \in MailSet : Len(mail') = Len(mail)
                             /\ \A x \in Msg : mail'[x] = IF x = n THEN r ELSE mail[x]
    BY <1>3, ElsewhereIs
  <2>2. Msg' = Msg
    BY <2>1 DEF Msg
  <2>3. n \in 1..MaxMsgs /\ Msg \subseteq 1..MaxMsgs
    BY Numbers
  <2>4. wish'[n] = "none" /\ \A m \in 1..MaxMsgs : m # n => wish'[m] = wish[m]
    BY <1>3, <2>3 DEF Elsewhere, TypeInv, CountsOK
  <2>5. ASSUME NEW m \in Msg, m # n
        PROVE  StarOK(m)'
    <3>1. StarOK(m) /\ wish'[m] = wish[m] /\ mail'[m].star = mail[m].star
          /\ (mail'[m].gone \/ Here(m))
      BY <2>1, <2>3, <2>4, <2>5 DEF StarsInv, Here
    <3> QED BY <1>1, <3>1, StarStays
  <2>6. StarOK(n)'
    BY <2>4 DEF StarOK
  <2>7. \A m \in (1..MaxMsgs) \ Msg : wish'[m] = "none"
    BY <2>4 DEF StarsInv
  <2> QED BY <2>2, <2>5, <2>6, <2>7 DEF StarsInv
<1>4. CASE Disconnect \/ Connect \/ UNCHANGED vars \/ MessageNew
  <2>1. mail' = mail /\ wish' = wish
    BY <1>4 DEF Disconnect, Connect, vars, MessageNew
  <2> QED BY <1>1, <2>1, StarsSame
<1> QED BY <1>2, <1>3, <1>4 DEF Resting

LEMMA ServerStars ==
  ASSUME TypeInv, StarsInv, NEW c \in calls, Serve(c) \/ Fail(c)
  PROVE  StarsInv'
<1>1. CASE c.op \in Starring
  BY <1>1, StarServedStars, StarFailedStars
<1>2. CASE Serve(c) /\ c.op \notin Starring
  <2>1. PICK s, a : Served(c, s, a)
    BY <1>2, ServeIs
  <2>2. /\ Len(mail') = Len(mail) /\ wish' = wish
        /\ \A n \in Msg : (mail[n].gone => mail'[n].gone) /\ mail'[n].star = mail[n].star
    BY <1>2, <2>1 DEF Serve, Served, Changes
  <2>3. PICK d : d = [c EXCEPT !.st = s, !.ans = a]
    OBVIOUS
  <2>4. d.op = c.op
    BY <2>3, CallIs DEF CallSet
  <2>5. calls' = (calls \ {c}) \cup {d}
    BY <2>1, <2>3 DEF Served
  <2>6. \A x : x.op \in Starring => (x \in calls' <=> x \in calls)
    BY <1>2, <2>4, <2>5
  <2>7. Msg' = Msg
    BY <2>2 DEF Msg
  <2> QED BY <2>2, <2>6, <2>7, StarsStay
<1>3. CASE Fail(c) /\ c.op \notin Starring
  <2>1. mail' = mail /\ wish' = wish
    BY <1>3 DEF Fail, Unwished
  <2>2. PICK d : d = [c EXCEPT !.st = "failed", !.ans = c.ans]
    OBVIOUS
  <2>3. d.op = c.op
    BY <2>2, CallIs DEF CallSet
  <2>4. calls' = (calls \ {c}) \cup {d}
    BY <1>3, <2>2, FailIs
  <2>5. \A x : x.op \in Starring => (x \in calls' <=> x \in calls)
    BY <1>3, <2>3, <2>4
  <2> QED BY <2>1, <2>5, StarsSame
<1> QED BY <1>1, <1>2, <1>3

LEMMA AnswerStars ==
  ASSUME TypeInv, StarsInv, NEW c \in calls, Refetching(c) \/ Dropping(c) \/ Showing(c)
  PROVE  StarsInv'
<1>1. /\ mail' = mail /\ wish' = wish /\ c.st \in {"ok", "failed"}
      /\ \E e : calls' \subseteq (calls \ {c}) \cup {e} /\ e.op \notin Starring
      /\ calls \ {c} \subseteq calls'
  <2>1. CASE Refetching(c)
    <3>1. PICK n : n = page.no
      OBVIOUS
    <3>2. n \in 1..MaxPages /\ c.place \in Place /\ c.offset \in 0..MaxMsgs
      BY <3>1, PageTyped, CallIs
    <3>3. PICK e : e = ListCall(n, c.place, c.offset) /\ e.op = "list"
      BY <3>2, ListCallIs
    <3>4. calls' = (calls \ {c}) \cup {e} /\ mail' = mail /\ wish' = wish /\ c.st = "ok"
      BY <2>1, <3>1, <3>3 DEF Refetching
    <3> QED BY <3>3, <3>4 DEF Starring
  <2>2. CASE SetMessage(c) /\ Showing(c)
    <3>1. PICK e \in CallSet : /\ calls' \subseteq (calls \ {c}) \cup {e}
                               /\ calls \ {c} \subseteq calls' /\ e.op = "read"
      BY <2>2, ReadCall
    <3> QED BY <2>2, <3>1 DEF Showing, Starring
  <2>3. CASE Dropping(c) \/ (Showing(c) /\ (SetMessages(c) \/ SetStar(c) \/ Marked(c)))
    <3>1. calls' = calls \ {c} /\ mail' = mail /\ wish' = wish /\ c.st \in {"ok", "failed"}
      BY <2>3 DEF Dropping, Showing, SetMessages, SetStar, Marked, Then
    <3>2. PICK e : e = [op |-> "list"]
      OBVIOUS
    <3> QED BY <3>1, <3>2 DEF Starring
  <2> QED BY <2>1, <2>2, <2>3 DEF Showing
<1>2. PICK e : calls' \subseteq (calls \ {c}) \cup {e} /\ e.op \notin Starring
  BY <1>1
<1>3. CASE c.op \in Starring
  <2>1. c \notin calls' /\ \A d : d.op \in Starring /\ d # c => (d \in calls' <=> d \in calls)
    BY <1>1, <1>2, <1>3
  <2> QED BY <1>1, <1>3, <2>1, StarGoneStars
<1>4. CASE c.op \notin Starring
  <2>1. \A d : d.op \in Starring => (d \in calls' <=> d \in calls)
    BY <1>1, <1>2, <1>4
  <2> QED BY <1>1, <2>1, StarsSame
<1> QED BY <1>3, <1>4

LEMMA NextStars ==
  ASSUME TypeInv, StarsInv, [Next]_vars
  PROVE  StarsInv'
<1>1. CASE Fetching \/ Opening \/ Ticking \/ Jumping
  BY <1>1, FetchesStars
<1>2. CASE Asking
  BY <1>2, AskingStars
<1>3. CASE Resting
  BY <1>3, RestingStars
<1>4. ASSUME NEW c \in calls,
             Serve(c) \/ Fail(c) \/ Refetching(c) \/ Dropping(c) \/ Showing(c)
      PROVE  StarsInv'
  BY <1>4, ServerStars, AnswerStars
<1> QED BY <1>1, <1>2, <1>3, <1>4, Shapes

-----------------------------------------------------------------------------
(* FlagsSettle: the message that is shown is read                          *)

Marking(c, m) == c.page = page.no /\ c.op = "read" /\ c.id = m /\ c.st # "ok"
Marks(c) == c.op = "read" /\ c.st = "ok" => mail[c.id].read

(* What is shown is read, or its page is about to mark it.                 *)
PageRead ==
  Shown /\ ~page.mixed =>
    mail[page.msg.id].read \/ \E c \in calls : Marking(c, page.msg.id)
ReadInv == PageRead /\ \A c \in calls : Marks(c)

(* A page that shows what it showed.                                       *)
LEMMA ReadStays ==
  ASSUME TypeInv, ReadInv, \A n \in Msg : mail[n].read => mail'[n].read,
         \A d \in calls' : d \in calls \/ Marks(d)',
         \/ page'.at = "list" \/ page'.mixed \/ page'.loading
         \/ /\ page'.no = page.no /\ page'.at = page.at /\ page'.loading = page.loading
            /\ page'.msg.id = page.msg.id /\ (page.mixed => page'.mixed)
            /\ \A d \in calls : Marking(d, page.msg.id) =>
                 \/ d \in calls' \/ mail'[d.id].read
                 \/ \E e \in calls' : e.page = d.page /\ e.op = "read" /\ e.id = d.id /\ e.st # "ok"
  PROVE  ReadInv'
<1>1. \A d \in calls' : Marks(d)'
  <2> SUFFICES ASSUME NEW d \in calls, d \in calls'
               PROVE  Marks(d)'
    OBVIOUS
  <2>1. Marks(d) /\ (d.op = "read" => d.id \in Msg)
    BY CallIs DEF ReadInv
  <2> QED BY <2>1 DEF Marks
<1>2. PageRead'
  <2>1. PICK i : i = page'.msg.id
    OBVIOUS
  <2> SUFFICES ASSUME Shown', ~page'.mixed
               PROVE  mail'[i].read \/ \E c \in calls' : Marking(c, i)'
    BY <2>1 DEF PageRead, Marking
  <2>2. /\ page'.no = page.no /\ page.msg.id = i /\ ~page.mixed
        /\ \A d \in calls : Marking(d, i) =>
             \/ d \in calls' \/ mail'[d.id].read
             \/ \E e \in calls' : e.page = d.page /\ e.op = "read" /\ e.id = d.id /\ e.st # "ok"
    BY <2>1 DEF Shown
  <2>3. Shown
    BY <2>1, <2>2 DEF Shown, None
  <2>4. i \in Msg
    <3>1. page.msg \in RowSet \cup {NoMsg}
      BY PageTyped DEF PageSet
    <3> QED BY <2>2, <2>3, <3>1 DEF Shown, RowSet, NoMsg
  <2>5. mail[i].read \/ \E c \in calls : Marking(c, i)
    BY <2>2, <2>3 DEF ReadInv, PageRead
  <2>6. CASE mail[i].read
    BY <2>4, <2>6
  <2>7. ASSUME NEW d \in calls, Marking(d, i)
        PROVE  mail'[i].read \/ \E c \in calls' : Marking(c, i)'
    <3>1. d.page = page'.no /\ d.op = "read" /\ d.id = i /\ d.st # "ok"
      BY <2>2, <2>7 DEF Marking
    <3> QED BY <2>2, <2>7, <3>1 DEF Marking
  <2> QED BY <2>5, <2>6, <2>7
<1> QED BY <1>1, <1>2 DEF ReadInv

LEMMA InitRead == Init => ReadInv
<1> SUFFICES ASSUME Init
             PROVE  ReadInv
  OBVIOUS
<1>1. page.at = "list" /\ \A c \in calls : c.op = "list"
  BY DEF Init, Blank
<1> QED BY <1>1 DEF ReadInv, PageRead, Marks, Shown

(* New requests other than those that were answered mark nothing.          *)
LEMMA FetchesRead ==
  ASSUME TypeInv, ReadInv, Fetching \/ Opening \/ Ticking \/ Jumping
  PROVE  ReadInv'
<1>1. CASE Fetching
  <2>1. PICK p \in Place, o \in 0..MaxMsgs, T \in SUBSET page.ticks, b \in BOOLEAN :
          /\ page.at = "list" /\ mail' = mail
          /\ page' = [page EXCEPT !.place = p, !.offset = o, !.ticks = T, !.mixed = b]
          /\ calls' = calls \cup {ListCall(page.no, p, o)}
    BY <1>1 DEF Fetching
  <2>2. PICK n : n = page.no
    OBVIOUS
  <2>3. n \in 1..MaxPages
    BY <2>2, PageTyped
  <2>4. PICK e : e = ListCall(n, p, o) /\ e.op = "list"
    BY <2>3, ListCallIs
  <2>5. \A d \in calls' : d \in calls \/ Marks(d)'
    BY <2>1, <2>2, <2>4 DEF Marks
  <2>6. page'.at = "list"
    BY <2>1, PageTyped DEF PageSet
  <2> QED BY <2>1, <2>5, <2>6, ReadStays
<1>2. CASE Opening
  <2>1. PICK n \in 1..MaxPages, D \in SUBSET calls :
          /\ n = page.no + 1 /\ page'.no = n /\ mail' = mail /\ wish' = wish
          /\ page'.ticks = {} /\ page'.loading
          /\ \A d \in calls \ D : d.op = "delete"
          /\ \/ \E p \in Place, o \in 0..MaxMsgs :
                  /\ page'.at = "list" /\ page'.place = p /\ page'.offset = o
                  /\ calls' = D \cup {ListCall(n, p, o)}
             \/ \E m \in Msg :
                  /\ page'.at = "view" /\ page'.id = m
                  /\ calls' = D \cup {GetCall(n, m)}
    BY <1>2 DEF Opening
  <2>2. PICK e : calls' = D \cup {e} /\ e.op \in {"list", "get"}
    <3>1. ASSUME NEW p \in Place, NEW o \in 0..MaxMsgs, calls' = D \cup {ListCall(n, p, o)}
          PROVE  \E e : calls' = D \cup {e} /\ e.op \in {"list", "get"}
      BY <3>1, ListCallIs
    <3>2. ASSUME NEW m \in Msg, calls' = D \cup {GetCall(n, m)}
          PROVE  \E e : calls' = D \cup {e} /\ e.op \in {"list", "get"}
      BY <3>2, GetCallIs
    <3> QED BY <2>1, <3>1, <3>2
  <2>3. \A d \in calls' : d \in calls \/ Marks(d)'
    BY <2>1, <2>2 DEF Marks
  <2> QED BY <2>1, <2>3, ReadStays
<1>3. CASE Ticking
  <2>1. PICK T : page' = [page EXCEPT !.ticks = T] /\ calls' = calls /\ mail' = mail
    BY <1>3 DEF Ticking
  <2>2. /\ page'.no = page.no /\ page'.at = page.at /\ page'.loading = page.loading
        /\ page'.msg = page.msg /\ page'.mixed = page.mixed
    BY <2>1, PageTyped DEF PageSet
  <2> QED BY <2>1, <2>2, ReadStays
<1>4. CASE Jumping
  <2>1. PICK m \in Msg, b \in BOOLEAN :
          /\ mail' = mail
          /\ page' = [page EXCEPT !.id = m, !.loading = TRUE, !.mixed = b]
          /\ calls' = calls \cup {GetCall(page.no, m)}
    BY <1>4 DEF Jumping
  <2>2. PICK n : n = page.no
    OBVIOUS
  <2>3. n \in 1..MaxPages
    BY <2>2, PageTyped
  <2>4. PICK e : e = GetCall(n, m) /\ e.op = "get"
    BY <2>3, GetCallIs
  <2>5. \A d \in calls' : d \in calls \/ Marks(d)'
    BY <2>1, <2>2, <2>4 DEF Marks
  <2>6. page'.loading
    BY <2>1, PageTyped DEF PageSet
  <2> QED BY <2>1, <2>5, <2>6, ReadStays
<1> QED BY <1>1, <1>2, <1>3, <1>4

LEMMA AskingRead ==
  ASSUME TypeInv, ReadInv, Asking \/ Resting
  PROVE  ReadInv'
<1>1. CASE Asking
  <2>1. PICK e \in CallSet :
          calls' = calls \cup {e} /\ e.op \in {"batch", "star", "delete", "starView"}
    BY <1>1 DEF Asking
  <2>2. page' = page /\ mail' = mail
    BY <1>1 DEF Asking
  <2>3. \A d \in calls' : d \in calls \/ Marks(d)'
    BY <2>1 DEF Marks
  <2> QED BY <2>1, <2>2, <2>3, ReadStays
<1>2. CASE Resting
  <2>1. calls' = calls /\ page' = page
    BY <1>2 DEF Resting
  <2> QED BY <1>2, <2>1, RestingReads, ReadStays
<1> QED BY <1>1, <1>2

(* A request that the server answered, or that failed.                     *)
LEMMA ServerRead ==
  ASSUME TypeInv, ReadInv, NEW c \in calls, Serve(c) \/ Fail(c)
  PROVE  ReadInv'
<1>1. page' = page
  BY DEF Serve, Fail
<1>2. PICK d : /\ calls' = (calls \ {c}) \cup {d} /\ Marks(d)'
               /\ \A n \in Msg : mail[n].read => mail'[n].read
               /\ d.op = c.op /\ d.page = c.page /\ d.id = c.id
               /\ c.op = "read" => d.st # "ok" \/ mail'[c.id].read
  <2>1. CASE Serve(c)
    <3>1. PICK s, a : Served(c, s, a)
      BY <2>1, ServeIs
    <3>2. PICK d : d = [c EXCEPT !.st = s, !.ans = a]
      OBVIOUS
    <3>3. d.op = c.op /\ d.page = c.page /\ d.id = c.id /\ d.st = s
      BY <3>2, CallIs DEF CallSet
    <3>4. /\ calls' = (calls \ {c}) \cup {d}
          /\ \A n \in Msg : mail[n].read => mail'[n].read
          /\ c.op = "read" /\ s = "ok" => mail'[c.id].read
      BY <3>1, <3>2 DEF Served, Changes
    <3>5. Marks(d)'
      BY <3>3, <3>4 DEF Marks
    <3> QED BY <3>3, <3>4, <3>5
  <2>2. CASE Fail(c)
    <3>1. PICK d : d = [c EXCEPT !.st = "failed", !.ans = c.ans]
      OBVIOUS
    <3>2. d.op = c.op /\ d.page = c.page /\ d.id = c.id /\ d.st = "failed"
      BY <3>1, CallIs DEF CallSet
    <3>3. calls' = (calls \ {c}) \cup {d} /\ mail' = mail
      BY <2>2, <3>1, FailIs
    <3>4. Marks(d)'
      BY <3>2 DEF Marks
    <3> QED BY <3>2, <3>3, <3>4
  <2> QED BY <2>1, <2>2
<1>3. \A x \in calls' : x \in calls \/ Marks(x)'
  BY <1>2
<1>4. \A x \in calls : Marking(x, page.msg.id) =>
        \/ x \in calls' \/ mail'[x.id].read
        \/ \E e \in calls' : e.page = x.page /\ e.op = "read" /\ e.id = x.id /\ e.st # "ok"
  <2> SUFFICES ASSUME NEW x \in calls, Marking(x, page.msg.id), x \notin calls'
               PROVE  \/ mail'[x.id].read
                      \/ \E e \in calls' : e.page = x.page /\ e.op = "read" /\ e.id = x.id
                                           /\ e.st # "ok"
    OBVIOUS
  <2>1. x = c /\ d \in calls' /\ c.op = "read"
    BY <1>2 DEF Marking
  <2> QED BY <1>2, <2>1
<1> QED BY <1>1, <1>2, <1>3, <1>4, ReadStays

LEMMA RefetchingRead ==
  ASSUME TypeInv, HomeInv, ReadInv, NEW c \in calls, Refetching(c)
  PROVE  ReadInv'
<1>1. PICK T \in SUBSET page.ticks, b \in BOOLEAN :
        /\ c.op \in {"batch", "star"} /\ c.page = page.no /\ mail' = mail
        /\ page' = [page EXCEPT !.ticks = T, !.mixed = b]
        /\ calls' = (calls \ {c}) \cup {ListCall(page.no, c.place, c.offset)}
  BY DEF Refetching
<1>2. page.at = "list"
  BY <1>1 DEF HomeInv, HomeOK
<1>3. page'.at = "list"
  BY <1>1, <1>2, PageTyped DEF PageSet
<1>4. PICK n : n = page.no
  OBVIOUS
<1>5. n \in 1..MaxPages /\ c.place \in Place /\ c.offset \in 0..MaxMsgs
  BY <1>4, PageTyped, CallIs
<1>6. PICK e : e = ListCall(n, c.place, c.offset) /\ e.op = "list"
  BY <1>5, ListCallIs
<1>7. \A d \in calls' : d \in calls \/ Marks(d)'
  BY <1>1, <1>4, <1>6 DEF Marks
<1> QED BY <1>1, <1>3, <1>7, ReadStays

(* The message is shown: it is read, or it is marked now.                  *)
LEMMA SetMessageRead ==
  ASSUME TypeInv, HomeInv, ActsInv, ReadInv, NEW c \in calls, mail' = mail, SetMessage(c)
  PROVE  ReadInv'
<1>1. c.op = "get" /\ CallActs(c)
  BY DEF SetMessage, ActsInv
<1>2. PICK e \in CallSet :
        /\ calls' \subseteq (calls \ {c}) \cup {e} /\ calls \ {c} \subseteq calls'
        /\ e.op = "read" /\ e.st = "asked" /\ e.id = c.id /\ e.page = c.page
        /\ (c.st = "ok" /\ \E r \in c.ans.rows : ~r.read) => e \in calls'
  BY ReadCall
<1>3. \A d \in calls' : d \in calls \/ Marks(d)'
  BY <1>2 DEF Marks
<1>4. \A d \in calls : Marking(d, page.msg.id) => d \in calls'
  BY <1>1, <1>2 DEF Marking
<1>5. CASE page' = page
  BY <1>3, <1>4, <1>5, ReadStays
<1>6. CASE page' = [page EXCEPT !.loading = FALSE, !.mixed = TRUE]
  <2>1. page'.mixed
    BY <1>6, PageTyped DEF PageSet
  <2> QED BY <1>3, <2>1, ReadStays
<1>7. ASSUME NEW r \in c.ans.rows, Mine(c), c.st = "ok",
             page' = [page EXCEPT !.msg = r, !.loading = FALSE]
      PROVE  ReadInv'
  <2>1. page'.msg = r /\ page'.no = page.no
    BY <1>7, PageTyped DEF PageSet
  <2>2. r.id = c.id /\ (r.read => mail'[r.id].read)
    BY <1>1, <1>7 DEF CallActs
  <2>3. mail'[r.id].read \/ \E d \in calls' : Marking(d, r.id)'
    <3>1. CASE r.read
      BY <2>2, <3>1
    <3>2. CASE ~r.read
      <4>1. e \in calls'
        BY <1>2, <1>7, <3>2
      <4>2. e.page = page'.no
        BY <1>2, <1>7, <2>1 DEF Mine
      <4> QED BY <1>2, <2>2, <4>1, <4>2 DEF Marking
    <3> QED BY <3>1, <3>2
  <2>4. PageRead'
    BY <2>1, <2>3 DEF PageRead, Marking
  <2>5. \A d \in calls' : Marks(d)'
    <3> SUFFICES ASSUME NEW d \in calls
                 PROVE  Marks(d)'
      BY <1>3
    <3>1. Marks(d)
      BY DEF ReadInv
    <3> QED BY <3>1 DEF Marks
  <2> QED BY <2>4, <2>5 DEF ReadInv
<1>8. \/ page' = page
      \/ \E r \in c.ans.rows :
           Mine(c) /\ c.st = "ok" /\ page' = [page EXCEPT !.msg = r, !.loading = FALSE]
      \/ page' = [page EXCEPT !.loading = FALSE, !.mixed = TRUE]
  BY DEF SetMessage
<1> QED BY <1>5, <1>6, <1>7, <1>8

LEMMA OtherAnswersRead ==
  ASSUME TypeInv, HomeInv, ActsInv, ReadInv, NEW c \in calls, mail' = mail,
         c.st \in {"ok", "failed"}, Dropping(c) \/ SetMessages(c) \/ SetStar(c) \/ Marked(c)
  PROVE  ReadInv'
<1>1. calls' = calls \ {c}
  BY DEF Dropping, SetMessages, SetStar, Marked, Then
<1>2. \A d \in calls' : d \in calls \/ Marks(d)'
  BY <1>1
<1>3. c.op # "read" =>
        \A d \in calls : Marking(d, page.msg.id) => d \in calls'
  BY <1>1 DEF Marking
<1>4. CASE Dropping(c)
  <2>1. page' = page /\ c.op # "read"
    BY <1>4 DEF Dropping
  <2> QED BY <1>2, <1>3, <2>1, ReadStays
<1>5. CASE SetMessages(c)
  <2>1. c.op = "list"
    BY <1>5 DEF SetMessages
  <2>2. CASE ~Mine(c)
    <3>1. page' = page
      BY <1>5, <2>2 DEF SetMessages
    <3> QED BY <1>2, <1>3, <2>1, <3>1, ReadStays
  <2>3. CASE Mine(c)
    <3>1. page.at = "list"
      BY <2>1, <2>3 DEF HomeInv, HomeOK, Mine
    <3>2. page'.at = "list"
      BY <1>5, <3>1, PageTyped DEF SetMessages, PageSet
    <3> QED BY <1>2, <3>2, ReadStays
  <2> QED BY <2>2, <2>3
<1>6. CASE SetStar(c)
  <2>1. c.op = "starView" /\ CallActs(c) /\ OwnActs(c) /\ HomeOK(c) /\ PageActs
    BY <1>6 DEF SetStar, ActsInv, HomeInv
  <2>2. CASE page' = page
    BY <1>2, <1>3, <2>1, <2>2, ReadStays
  <2>3. CASE page' # page
    <3>1. PICK x, b : /\ x = [page.msg EXCEPT !.id = c.seen, !.star = c.on]
                      /\ b = (page.mixed \/ c.id # page.id)
      OBVIOUS
    <3>2. page' = [page EXCEPT !.msg = x, !.mixed = b] /\ c.page = page.no
      BY <1>6, <2>3, <3>1 DEF SetStar, Mine
    <3>3. /\ page'.no = page.no /\ page'.at = page.at /\ page'.msg = x /\ page'.mixed = b
          /\ page'.loading = page.loading /\ page.loading \in BOOLEAN
      BY <3>2, PageTyped DEF PageSet
    <3>4. x.id = c.seen
      <4>1. page.msg \in RowSet \cup {NoMsg}
        BY PageTyped DEF PageSet
      <4> QED BY <3>1, <4>1 DEF RowSet, NoMsg
    <3>5. page.at = "view"
      BY <2>1, <3>2 DEF HomeOK
    <3>6. CASE b \/ page.loading
      BY <1>2, <3>3, <3>6, ReadStays
    <3>7. CASE ~b /\ ~page.loading
      <4>1. ~page.mixed /\ c.seen = page.id
        BY <2>1, <3>1, <3>2, <3>5, <3>7 DEF CallActs, OwnActs
      <4>2. page.msg.id = page.id
        BY <2>1, <3>5, <3>7, <4>1 DEF PageActs
      <4>3. page'.msg.id = page.msg.id
        BY <3>3, <3>4, <4>1, <4>2
      <4> QED BY <1>2, <1>3, <2>1, <3>3, <4>1, <4>3, ReadStays
    <3> QED BY <3>6, <3>7
  <2> QED BY <2>2, <2>3
<1>7. CASE Marked(c)
  <2>1. c.op = "read" /\ Marks(c)
    BY <1>7 DEF Marked, ReadInv
  <2>2. CASE Mine(c) /\ c.st = "failed"
    <3>1. page'.mixed
      BY <1>7, <2>2, PageTyped DEF Marked, PageSet
    <3> QED BY <1>2, <3>1, ReadStays
  <2>3. CASE ~(Mine(c) /\ c.st = "failed")
    <3>1. page' = page
      BY <1>7, <2>3 DEF Marked
    <3>2. ~Marking(c, page.msg.id)
      BY <2>3 DEF Marking, Mine
    <3>3. \A d \in calls : Marking(d, page.msg.id) => d \in calls'
      BY <1>1, <3>2
    <3> QED BY <1>2, <3>1, <3>3, ReadStays
  <2> QED BY <2>2, <2>3
<1> QED BY <1>4, <1>5, <1>6, <1>7

LEMMA NextRead ==
  ASSUME TypeInv, HomeInv, ActsInv, ReadInv, [Next]_vars
  PROVE  ReadInv'
<1>1. CASE Fetching \/ Opening \/ Ticking \/ Jumping
  BY <1>1, FetchesRead
<1>2. CASE Asking \/ Resting
  BY <1>2, AskingRead
<1>3. ASSUME NEW c \in calls,
             Serve(c) \/ Fail(c) \/ Refetching(c) \/ Dropping(c) \/ Showing(c)
      PROVE  ReadInv'
  <2>1. CASE Serve(c) \/ Fail(c)
    BY <2>1, ServerRead
  <2>2. CASE Refetching(c)
    BY <2>2, RefetchingRead
  <2>3. CASE Dropping(c)
    <3>1. mail' = mail /\ c.st \in {"ok", "failed"}
      BY <2>3 DEF Dropping
    <3> QED BY <2>3, <3>1, OtherAnswersRead
  <2>4. CASE Showing(c)
    <3>1. mail' = mail /\ c.st \in {"ok", "failed"}
      BY <2>4 DEF Showing
    <3> QED BY <2>4, <3>1, OtherAnswersRead, SetMessageRead DEF Showing
  <2> QED BY <1>3, <2>1, <2>2, <2>3, <2>4
<1> QED BY <1>1, <1>2, <1>3, Shapes

(* When nothing is under way about a message, its star is what the last    *)
(* click asked for, and the message that is shown is read, but for clicks  *)
(* that overlapped, failures, and what other sessions did (handleToggleStar*)
(* of Inbox.jsx and MessageView.jsx, patchMessage of the server).          *)
THEOREM FlagsDoSettle == Spec => []FlagsSettle
<1>1. /\ TypeInv /\ HomeInv /\ ActsInv /\ StarsInv /\ ReadInv /\ [Next]_vars
      => (TypeInv /\ HomeInv /\ ActsInv /\ StarsInv /\ ReadInv)'
  BY NextTypes, StutterTypes, NextHomes, NextActs, NextStars, NextRead
<1>2. StarsInv /\ ReadInv => FlagsSettle
  <2> SUFFICES ASSUME StarsInv, ReadInv
               PROVE  FlagsSettle
    OBVIOUS
  <2>1. \A m \in Msg : Here(m) /\ StarsOf(m) = {} /\ wish[m] # "none" =>
          mail[m].star = (wish[m] = "on")
    BY DEF StarsInv, StarOK
  <2>2. Shown /\ ~page.mixed /\ Of(page.no, {"read"}) = {} => mail[page.msg.id].read
    BY DEF ReadInv, PageRead, Marking, Of
  <2> QED BY <2>1, <2>2 DEF FlagsSettle
<1> QED BY InitTypes, InitHomes, InitActs, InitStars, InitRead, <1>1, <1>2, PTL DEF Spec
=============================================================================
