---------------------------- MODULE AdminProofs ----------------------------
(***************************************************************************)
(* Proofs about Admin, for any domains and users and any bounds: its type  *)
(* invariant, ActsOnOpen and ModalTells.                                   *)
(***************************************************************************)
EXTENDS Admin, TLAPS, SequenceTheorems

Ids == Domain \cup User \cup {None}
AliasSet == [domain : Domain, gone : BOOLEAN]
AnswerSet == [aliases : SUBSET Nat, rows : RowSet, people : [User -> Roles]]
ModalSet ==
  [kind : {"none", "domain", "user"}, no : Nat, id : Ids, editing : Ids,
   catchall : User \cup {None}, active : BOOLEAN, roles : Roles, crossed : BOOLEAN,
   mixed : BOOLEAN]
CallSet ==
  [op : Op, id : Ids, arg : Ids, to : Role \cup {"none", "on", "off", ""}, alias : Nat,
   no : Nat, shows : Ids, crossed : BOOLEAN, early : BOOLEAN,
   st : {"asked", "ok", "failed"}, ans : AnswerSet]

(* A request names what its kind is about.                                 *)
OfDomain == {"aliases", "create", "remove", "catchall", "toggle", "save domain"}
OfUser == {"refresh", "add", "member", "save user"}
CallOK(c) ==
  /\ c \in CallSet /\ c.no <= opened /\ c.ans.aliases \subseteq Alias
  /\ c.op \in OfDomain => c.id \in Domain
  /\ c.op \in OfUser => c.id \in User
  /\ c.op \in {"add", "member"} => c.arg \in Domain /\ c.to \in Role \cup {"none"}
  /\ c.op = "catchall" => c.arg \in User \cup {None}
  /\ c.alias \in {0} \cup Alias /\ (c.op = "remove" => c.alias \in Alias)

(* TypeOK, part by part.                                                   *)
ServerOK ==
  /\ aliases \in Seq(AliasSet) /\ Len(aliases) <= MaxAliases
  /\ domains \in RowSet /\ members \in [User -> Roles]
PageOK ==
  /\ tab \in Lists /\ loading \in BOOLEAN
  /\ rows \in RowSet /\ people \in [User -> Roles] /\ shown \subseteq Alias
ModalOK ==
  /\ modal \in ModalSet
  /\ modal.kind = "none" =>
       modal = [Closed EXCEPT !.mixed = modal.mixed, !.crossed = modal.crossed]
  /\ modal.kind = "domain" => {modal.id, modal.editing} \subseteq Domain
  /\ modal.kind = "user" => {modal.id, modal.editing} \subseteq User
CallsOK == \A c \in calls : CallOK(c)
CountsOK == turns \in 0..MaxTurns /\ opened \in 0..turns /\ behind \subseteq Lists
TypeInv == ServerOK /\ PageOK /\ ModalOK /\ CallsOK /\ CountsOK

-----------------------------------------------------------------------------
(* What is asked for, and where                                            *)

(* An open dialog is the last one that was opened; it edits the row it was *)
(* opened for, and what is asked for in it is about that row, unless an    *)
(* answer of another dialog came.                                          *)
HomeInv ==
  modal.kind # "none" =>
    /\ modal.no = opened /\ opened > 0
    /\ modal.editing = modal.id \/ modal.crossed
    /\ \A c \in calls : c.no = modal.no => c.id = modal.id \/ modal.crossed

(* The aliases an answer brings are of the domain that was asked about;    *)
(* the aliases a dialog shows are of its domain, unless its own are yet to *)
(* come.                                                                   *)
OwnAliases(s, d) == \A a \in s : aliases[a].domain = d
AnswersInv == \A c \in calls : c.op = "aliases" => OwnAliases(c.ans.aliases, c.id)
ShownInv ==
  modal.kind = "domain" => OwnAliases(shown, modal.id) \/ modal.crossed \/ Early

ActsInv == HomeInv /\ AnswersInv /\ ShownInv /\ ActsOnOpen

-----------------------------------------------------------------------------
(* What the lists and the dialogs tell                                     *)

(* A change the server made and the page does not know yet.                *)
Changed(ops) == \E c \in calls : c.op \in ops /\ c.st = "ok"
OnRows == {"toggle", "save domain", "catchall"}
OnAliases == {"create", "remove"}
OnMembers == {"add", "member"}

Alone(ops) == \A b, c \in calls : b.op \in ops /\ c.op \in ops => b = c

LoadingInv == loading => InProgress(tab)

(* A list that missed nothing has one read under way at most, and it shows *)
(* what is stored, or will when the read or the change that is under way   *)
(* is answered.                                                            *)
RowsInv ==
  "domains" \notin behind =>
    /\ Alone({"domains"})
    /\ \A c \in calls : c.op = "domains" =>
         c.st = "asked" \/ (c.st = "ok" /\ (c.ans.rows = domains \/ Changed(OnRows)))
    /\ rows = domains \/ Changed(OnRows) \/ InProgress("domains")
PeopleInv ==
  "users" \notin behind =>
    /\ Alone({"users", "refresh"})
    /\ \A c \in calls : c.op \in {"users", "refresh"} =>
         c.st = "asked" \/ (c.st = "ok" /\ (c.ans.people = members \/ Changed(OnMembers)))
    /\ people = members \/ Changed(OnMembers) \/ \E c \in calls : c.op \in {"users", "refresh"}

(* While nothing is mixed up all that is under way is of the open dialog.  *)
DomainOps == {"domains", "aliases", "create", "remove", "catchall", "save domain"}
DomainInv ==
  ~modal.mixed /\ modal.kind = "domain" =>
    /\ modal.editing = modal.id
    /\ \A c \in calls : c.op \in DomainOps /\ (c.op # "domains" => c.id = modal.id)
AliasesInv ==
  ~modal.mixed /\ modal.kind = "domain" =>
    /\ Alone({"aliases"})
    /\ \A c \in calls : c.op = "aliases" =>
         \/ c.st = "asked"
         \/ c.st = "ok" /\ (c.ans.aliases = AliasesOf(modal.id) \/ Changed(OnAliases))
    /\ shown = AliasesOf(modal.id) \/ Changed(OnAliases) \/ InProgress("aliases")
CatchallInv ==
  ~modal.mixed /\ modal.kind = "domain" =>
    /\ Alone({"catchall"})
    /\ \A c \in calls : c.op = "catchall" =>
         c.st = "asked" \/ (c.st = "ok" /\ c.arg = domains[modal.id].catchall)
    /\ modal.catchall = domains[modal.id].catchall \/ Changed({"catchall"})
UserInv ==
  ~modal.mixed /\ modal.kind = "user" =>
    /\ modal.editing = modal.id
    /\ \A c \in calls : c.op \in OfUser /\ c.id = modal.id
RolesInv ==
  ~modal.mixed /\ modal.kind = "user" =>
    /\ Alone({"refresh"})
    /\ \A c \in calls : c.op = "refresh" =>
         \/ c.st = "asked"
         \/ c.st = "ok" /\ (c.ans.people[modal.id] = members[modal.id] \/ Changed(OnMembers))
    /\ modal.roles = members[modal.id] \/ Changed(OnMembers) \/ InProgress("refresh")

TellsInv ==
  /\ LoadingInv /\ RowsInv /\ PeopleInv
  /\ DomainInv /\ AliasesInv /\ CatchallInv /\ UserInv /\ RolesInv

-----------------------------------------------------------------------------
(* Requests                                                                *)

LEMMA Blanks ==
  /\ NoRows \in RowSet /\ Nowhere \in Roles /\ NoPeople \in [User -> Roles]
  /\ NoAnswer \in AnswerSet /\ NoAnswer.aliases = {}
  /\ NoAnswer.rows \in RowSet /\ NoAnswer.people \in [User -> Roles]
<1>1. NoRows \in RowSet
  BY DEF NoRows, RowSet
<1>2. Nowhere \in Roles
  BY DEF Nowhere, Roles
<1>3. NoPeople \in [User -> Roles]
  BY <1>2 DEF NoPeople
<1>4. NoAnswer \in AnswerSet
  BY <1>1, <1>3 DEF NoAnswer, AnswerSet
<1> QED BY <1>1, <1>2, <1>3, <1>4 DEF NoAnswer

LEMMA Aliases ==
  ASSUME ServerOK
  PROVE  /\ Len(aliases) \in Nat /\ Alias \subseteq Nat
         /\ \A a \in Alias : aliases[a] \in AliasSet
BY LenProperties, ElementOfSeq DEF ServerOK, Alias

(* The dialog, field by field.                                             *)
LEMMA ModalFields ==
  ASSUME ModalOK
  PROVE  /\ modal.kind \in {"none", "domain", "user"} /\ modal.no \in Nat
         /\ modal.id \in Ids /\ modal.editing \in Ids /\ modal.catchall \in User \cup {None}
         /\ modal.active \in BOOLEAN /\ modal.roles \in Roles /\ modal.crossed \in BOOLEAN
         /\ modal.mixed \in BOOLEAN
         /\ modal.kind = "domain" => modal.id \in Domain /\ modal.editing \in Domain
         /\ modal.kind = "user" => modal.id \in User /\ modal.editing \in User
         /\ modal.kind = "none" => modal.no = 0
BY DEF ModalOK, ModalSet, Closed

LEMMA CallFields ==
  ASSUME NEW c \in CallSet
  PROVE  /\ c.op \in Op /\ c.id \in Ids /\ c.arg \in Ids
         /\ c.to \in Role \cup {"none", "on", "off", ""} /\ c.alias \in Nat /\ c.no \in Nat
         /\ c.shows \in Ids /\ c.crossed \in BOOLEAN /\ c.early \in BOOLEAN
         /\ c.st \in {"asked", "ok", "failed"} /\ c.ans \in AnswerSet
         /\ c.ans.aliases \subseteq Nat /\ c.ans.rows \in RowSet
         /\ c.ans.people \in [User -> Roles]
BY DEF CallSet, AnswerSet

(* A request that reads, and one that removes.                             *)
LEMMA ReadTyped ==
  ASSUME NEW op \in Op, NEW id \in Ids, NEW no \in Nat
  PROVE  /\ Read(op, id, no) \in CallSet
         /\ Read(op, id, no).op = op /\ Read(op, id, no).id = id /\ Read(op, id, no).no = no
         /\ Read(op, id, no).alias = 0
         /\ Read(op, id, no).st = "asked" /\ Read(op, id, no).ans = NoAnswer
BY Blanks DEF Read, CallSet, Role, Ids

Removal(a) == [Call("remove", modal.editing, None, "") EXCEPT !.alias = a, !.early = Early]
LEMMA RemovalTyped ==
  ASSUME ModalOK, NEW a \in Nat
  PROVE  /\ Removal(a) \in CallSet
         /\ Removal(a).op = "remove" /\ Removal(a).id = modal.editing /\ Removal(a).alias = a
         /\ Removal(a).no = modal.no /\ Removal(a).shows = modal.id
         /\ Removal(a).crossed = modal.crossed /\ Removal(a).early = Early
         /\ Removal(a).st = "asked" /\ Removal(a).ans = NoAnswer
<1>1. /\ "remove" \in Op /\ modal.editing \in Ids /\ None \in Ids
      /\ "" \in Role \cup {"none", "on", "off", ""}
  BY ModalFields DEF Op, Ids
<1>2. Early \in BOOLEAN
  BY DEF Early
<1>3. PICK k, e : k = Call("remove", modal.editing, None, "") /\ e = Early
  OBVIOUS
<1>4. k \in CallSet /\ k.op = "remove" /\ k.id = modal.editing /\ k.no = modal.no
      /\ k.shows = modal.id /\ k.crossed = modal.crossed /\ k.st = "asked" /\ k.ans = NoAnswer
  BY <1>1, <1>3, ModalFields, Blanks DEF Call, CallSet
<1>5. Removal(a) = [k EXCEPT !.alias = a, !.early = e]
  BY <1>3 DEF Removal
<1> QED BY <1>2, <1>3, <1>4, <1>5 DEF CallSet

(* What the server makes of a request: only its state and its answer.      *)
Same(c, d) ==
  /\ d.op = c.op /\ d.id = c.id /\ d.arg = c.arg /\ d.to = c.to /\ d.alias = c.alias
  /\ d.no = c.no /\ d.shows = c.shows /\ d.crossed = c.crossed /\ d.early = c.early
Becomes(c, st, ans) ==
  \E d \in CallSet : /\ calls' = (calls \ {c}) \cup {d}
                     /\ Same(c, d) /\ d.st = st /\ d.ans = ans

LEMMA ReplyShape ==
  ASSUME NEW c \in CallSet, NEW ans \in AnswerSet, Reply(c, ans)
  PROVE  Becomes(c, "ok", ans)
<1>1. PICK d : d = [c EXCEPT !.st = "ok", !.ans = ans]
  OBVIOUS
<1>2. d \in CallSet /\ Same(c, d) /\ d.st = "ok" /\ d.ans = ans
  BY <1>1 DEF CallSet, Same
<1>3. calls' = (calls \ {c}) \cup {d}
  BY <1>1 DEF Reply
<1> QED BY <1>2, <1>3 DEF Becomes

LEMMA RefuseShape ==
  ASSUME NEW c \in CallSet, Refuse(c)
  PROVE  Becomes(c, "failed", NoAnswer)
<1>1. PICK d : d = [c EXCEPT !.st = "failed", !.ans = NoAnswer]
  OBVIOUS
<1>2. d \in CallSet /\ Same(c, d) /\ d.st = "failed" /\ d.ans = NoAnswer
  BY <1>1, Blanks DEF CallSet, Same
<1>3. calls' = (calls \ {c}) \cup {d}
  BY <1>1 DEF Refuse
<1> QED BY <1>2, <1>3 DEF Becomes

LEMMA DoneShape ==
  ASSUME NEW c \in CallSet, Done(c)
  PROVE  Becomes(c, "ok", NoAnswer)
BY ReplyShape, Blanks DEF Done

-----------------------------------------------------------------------------
(* What the server does                                                    *)

(* The request becomes one that is answered; what is stored changes only   *)
(* by a request that says so, and then the answer is a success.            *)
Effect(c, d) ==
  /\ calls' = (calls \ {c}) \cup {d} /\ Same(c, d) /\ d.st \in {"ok", "failed"}
  /\ ServerOK' /\ Alias \subseteq Alias'
  /\ \A a \in Alias : aliases'[a].domain = aliases[a].domain
  /\ c.op \in Reading => d.st = "ok" /\ serverVars' = serverVars
  /\ c.op = "domains" => d.ans.rows = domains
  /\ c.op \in {"users", "refresh"} => d.ans.people = members
  /\ d.ans.aliases = IF c.op = "aliases" THEN AliasesOf(c.id) ELSE {}
  /\ aliases' = aliases \/ (c.op \in OnAliases /\ d.st = "ok")
  /\ domains' = domains \/ (c.op \in OnRows /\ d.st = "ok")
  /\ members' = members \/ (c.op \in OnMembers /\ d.st = "ok")
  /\ c.op # "catchall" =>
       \A x \in Domain : domains'[x].catchall = domains[x].catchall
  /\ c.op = "catchall" => d.st = "ok" /\ domains'[c.id].catchall = c.arg

LEMMA ServerStays ==
  ASSUME TypeInv, UNCHANGED serverVars
  PROVE  /\ ServerOK' /\ Alias' = Alias /\ \A x : AliasesOf(x)' = AliasesOf(x)
         /\ aliases' = aliases /\ domains' = domains /\ members' = members
<1>1. aliases' = aliases /\ domains' = domains /\ members' = members
  BY DEF serverVars
<1> QED BY <1>1 DEF TypeInv, ServerOK, Alias, AliasesOf

LEMMA AliasesOfIn ==
  ASSUME NEW x
  PROVE  AliasesOf(x) \subseteq Alias /\ OwnAliases(AliasesOf(x), x)
BY DEF AliasesOf, OwnAliases

(* An answer that leaves everything as it was.                             *)
LEMMA EffectQuiet ==
  ASSUME TypeInv, NEW c \in CallSet, NEW st \in {"ok", "failed"}, NEW ans \in AnswerSet,
         Becomes(c, st, ans), UNCHANGED serverVars,
         c.op \in Reading => st = "ok", c.op # "catchall",
         c.op = "domains" => ans.rows = domains,
         c.op \in {"users", "refresh"} => ans.people = members,
         ans.aliases = IF c.op = "aliases" THEN AliasesOf(c.id) ELSE {}
  PROVE  \E d \in CallSet : Effect(c, d)
<1>1. PICK d \in CallSet : /\ calls' = (calls \ {c}) \cup {d}
                           /\ Same(c, d) /\ d.st = st /\ d.ans = ans
  BY DEF Becomes
<1>2. /\ ServerOK' /\ Alias' = Alias
      /\ aliases' = aliases /\ domains' = domains /\ members' = members
  BY ServerStays
<1>3. Effect(c, d)
  BY <1>1, <1>2 DEF Effect, serverVars
<1> QED BY <1>3

LEMMA ServeRead ==
  ASSUME TypeInv, NEW c \in calls, Serve(c), c.op \in Reading
  PROVE  \E d \in CallSet : Effect(c, d)
<1>0. CallOK(c) /\ c \in CallSet
  BY DEF TypeInv, CallsOK, CallOK
<1>1. CASE c.op = "domains"
  <2>1. PICK ans : ans = [NoAnswer EXCEPT !.rows = domains]
    OBVIOUS
  <2>2. ans \in AnswerSet /\ ans.rows = domains /\ ans.aliases = {}
    BY <2>1, Blanks DEF AnswerSet, TypeInv, ServerOK
  <2>3. Reply(c, ans) /\ UNCHANGED serverVars
    BY <1>1, <2>1 DEF Serve, ListDomains
  <2>4. Becomes(c, "ok", ans)
    BY <1>0, <2>2, <2>3, ReplyShape
  <2> QED BY <1>0, <1>1, <2>2, <2>3, <2>4, EffectQuiet
<1>2. CASE c.op \in {"users", "refresh"}
  <2>1. PICK ans : ans = [NoAnswer EXCEPT !.people = members]
    OBVIOUS
  <2>2. ans \in AnswerSet /\ ans.people = members /\ ans.aliases = {}
    BY <2>1, Blanks DEF AnswerSet, TypeInv, ServerOK
  <2>3. Reply(c, ans) /\ UNCHANGED serverVars
    BY <1>2, <2>1 DEF Serve, ListUsers
  <2>4. Becomes(c, "ok", ans)
    BY <1>0, <2>2, <2>3, ReplyShape
  <2> QED BY <1>0, <1>2, <2>2, <2>3, <2>4, EffectQuiet
<1>3. CASE c.op = "aliases"
  <2>1. PICK as, ans : as = AliasesOf(c.id) /\ ans = [NoAnswer EXCEPT !.aliases = as]
    OBVIOUS
  <2>2. as \subseteq Nat
    BY <2>1, AliasesOfIn, Aliases DEF TypeInv
  <2>3. ans \in AnswerSet /\ ans.aliases = as
    BY <2>1, <2>2, Blanks DEF AnswerSet
  <2>4. Reply(c, ans) /\ UNCHANGED serverVars
    BY <1>3, <2>1 DEF Serve, ListAliases
  <2>5. Becomes(c, "ok", ans)
    BY <1>0, <2>3, <2>4, ReplyShape
  <2> QED BY <1>0, <1>3, <2>1, <2>3, <2>4, <2>5, EffectQuiet
<1> QED BY <1>1, <1>2, <1>3 DEF Reading, Lists

LEMMA ServeCreate ==
  ASSUME TypeInv, NEW c \in calls, Serve(c), c.op = "create"
  PROVE  \E d \in CallSet : Effect(c, d)
<1>0. CallOK(c) /\ c \in CallSet /\ c.id \in Domain
  BY DEF TypeInv, CallsOK, CallOK, OfDomain
<1>1. CreateAlias(c)
  BY DEF Serve
<1>2. PICK e : e = [domain |-> c.id, gone |-> FALSE]
  OBVIOUS
<1>3. e \in AliasSet
  BY <1>0, <1>2 DEF AliasSet
<1>4. aliases' = Append(aliases, e) /\ domains' = domains /\ members' = members
      /\ Len(aliases) < MaxAliases
  BY <1>1, <1>2 DEF CreateAlias
<1>5. aliases \in Seq(AliasSet)
  BY DEF TypeInv, ServerOK
<1>6. /\ aliases' \in Seq(AliasSet) /\ Len(aliases') = Len(aliases) + 1
      /\ \A a \in Alias : aliases'[a] = aliases[a]
  BY <1>3, <1>4, <1>5, AppendProperties DEF Alias
<1>7. ServerOK' /\ Alias \subseteq Alias'
  <2>1. Len(aliases) \in Nat /\ MaxAliases \in Nat
    BY <1>5, LenProperties, AdminAssumption
  <2> QED BY <1>4, <1>6, <2>1 DEF TypeInv, ServerOK, Alias
<1>8. PICK d \in CallSet : /\ calls' = (calls \ {c}) \cup {d}
                           /\ Same(c, d) /\ d.st = "ok" /\ d.ans = NoAnswer
  BY <1>0, <1>1, DoneShape DEF CreateAlias, Becomes
<1>9. Effect(c, d)
  BY <1>4, <1>6, <1>7, <1>8, Blanks DEF Effect, Reading, Lists, OnAliases
<1> QED BY <1>9

LEMMA ServeRemove ==
  ASSUME TypeInv, NEW c \in calls, Serve(c), c.op = "remove"
  PROVE  \E d \in CallSet : Effect(c, d)
<1>0. CallOK(c) /\ c \in CallSet /\ c.alias \in Alias
  BY DEF TypeInv, CallsOK, CallOK
<1>1. DeleteAlias(c)
  BY DEF Serve
<1>2. PICK a : a = c.alias
  OBVIOUS
<1>3. aliases \in Seq(AliasSet) /\ a \in 1..Len(aliases) /\ Len(aliases) \in Nat
      /\ aliases \in [1..Len(aliases) -> AliasSet]
  BY <1>0, <1>2, LenProperties DEF TypeInv, ServerOK, Alias
<1>4. aliases' = [aliases EXCEPT ![a].gone = TRUE] /\ domains' = domains /\ members' = members
  BY <1>1, <1>2 DEF DeleteAlias
<1>5. aliases[a] \in AliasSet /\ [aliases[a] EXCEPT !.gone = TRUE] \in AliasSet
  BY <1>3 DEF AliasSet
<1>6. aliases' = [aliases EXCEPT ![a] = [aliases[a] EXCEPT !.gone = TRUE]]
  BY <1>4
<1>7. /\ aliases' \in Seq(AliasSet) /\ Len(aliases') = Len(aliases)
  BY <1>3, <1>5, <1>6, ExceptSeq
<1>8. \A x \in Alias : aliases'[x].domain = aliases[x].domain
  BY <1>3, <1>5, <1>6 DEF Alias, AliasSet
<1>9. ServerOK' /\ Alias' = Alias
  BY <1>4, <1>7 DEF TypeInv, ServerOK, Alias
<1>10. CASE aliases[a].gone
  <2>1. aliases' = aliases
    BY <1>3, <1>4, <1>10 DEF AliasSet
  <2>2. PICK d \in CallSet : /\ calls' = (calls \ {c}) \cup {d}
                             /\ Same(c, d) /\ d.st = "failed" /\ d.ans = NoAnswer
    BY <1>0, <1>1, <1>2, <1>10, RefuseShape DEF DeleteAlias, Becomes
  <2>3. Effect(c, d)
    BY <1>4, <1>8, <1>9, <2>1, <2>2, Blanks DEF Effect, Reading, Lists
  <2> QED BY <2>3
<1>11. CASE ~aliases[a].gone
  <2>2. PICK d \in CallSet : /\ calls' = (calls \ {c}) \cup {d}
                             /\ Same(c, d) /\ d.st = "ok" /\ d.ans = NoAnswer
    BY <1>0, <1>1, <1>2, <1>11, DoneShape DEF DeleteAlias, Becomes
  <2>3. Effect(c, d)
    BY <1>4, <1>8, <1>9, <2>2, Blanks DEF Effect, Reading, Lists, OnAliases
  <2> QED BY <2>3
<1> QED BY <1>10, <1>11

LEMMA ServeRow ==
  ASSUME TypeInv, NEW c \in calls, Serve(c), c.op \in OnRows
  PROVE  \E d \in CallSet : Effect(c, d)
<1>0. CallOK(c) /\ c \in CallSet /\ c.id \in Domain
  BY DEF TypeInv, CallsOK, CallOK, OfDomain, OnRows
<1>1. PICK x : x = c.id
  OBVIOUS
<1>2. domains \in RowSet /\ x \in Domain /\ aliases' = aliases /\ members' = members
      /\ domains[x] \in [active : BOOLEAN, catchall : User \cup {None}]
  BY <1>0, <1>1 DEF Serve, TypeInv, ServerOK, OnRows, SetDomainCatchall, SetActive, RowSet
<1>3. PICK d \in CallSet : /\ calls' = (calls \ {c}) \cup {d}
                           /\ Same(c, d) /\ d.st = "ok" /\ d.ans = NoAnswer
  <2>1. Done(c)
    BY DEF Serve, OnRows, SetDomainCatchall, SetActive
  <2> QED BY <1>0, <2>1, DoneShape DEF Becomes
<1>4. CASE c.op = "catchall"
  <2>1. PICK u : u = c.arg
    OBVIOUS
  <2>2. u \in User \cup {None} /\ domains' = [domains EXCEPT ![x].catchall = u]
    BY <1>0, <1>1, <1>4, <2>1 DEF CallOK, Serve, SetDomainCatchall
  <2>3. domains' \in RowSet /\ domains'[x].catchall = u
    BY <1>2, <2>2 DEF RowSet
  <2>4. ServerOK' /\ Alias' = Alias
    BY <1>2, <2>3 DEF TypeInv, ServerOK, Alias
  <2>5. Effect(c, d)
    BY <1>1, <1>2, <1>3, <1>4, <2>1, <2>3, <2>4, Blanks DEF Effect, Reading, Lists, OnRows
  <2> QED BY <2>5
<1>5. CASE c.op \in {"toggle", "save domain"}
  <2>1. PICK b \in BOOLEAN : domains' = [domains EXCEPT ![x].active = b]
    <3>1. SetActive(c)
      BY <1>5 DEF Serve
    <3>2. (c.to = "on") \in BOOLEAN
      OBVIOUS
    <3> QED BY <1>1, <3>1, <3>2 DEF SetActive
  <2>2. domains' \in RowSet /\ \A y \in Domain : domains'[y].catchall = domains[y].catchall
    BY <1>2, <2>1 DEF RowSet
  <2>3. ServerOK' /\ Alias' = Alias
    BY <1>2, <2>2 DEF TypeInv, ServerOK, Alias
  <2>4. Effect(c, d)
    BY <1>2, <1>3, <1>5, <2>2, <2>3, Blanks DEF Effect, Reading, Lists, OnRows
  <2> QED BY <2>4
<1> QED BY <1>4, <1>5 DEF OnRows

LEMMA ServeMember ==
  ASSUME TypeInv, NEW c \in calls, Serve(c), c.op \in OnMembers
  PROVE  \E d \in CallSet : Effect(c, d)
<1>0. CallOK(c) /\ c \in CallSet /\ c.id \in User /\ c.arg \in Domain
      /\ c.to \in Role \cup {"none"}
  BY DEF TypeInv, CallsOK, CallOK, OfUser, OnMembers
<1>1. SetMember(c)
  BY DEF Serve, OnMembers
<1>2. aliases' = aliases /\ domains' = domains /\ members \in [User -> Roles]
  BY <1>1 DEF SetMember, TypeInv, ServerOK
<1>3. CASE (members[c.id][c.arg] = "none") = (c.op = "add")
  <2>1. PICK u, x, r : u = c.id /\ x = c.arg /\ r = c.to
    OBVIOUS
  <2>2. members' = [members EXCEPT ![u][x] = r]
    BY <1>1, <1>3, <2>1 DEF SetMember
  <2>3. members' \in [User -> Roles]
    BY <1>0, <1>2, <2>1, <2>2 DEF Roles
  <2>4. ServerOK' /\ Alias' = Alias
    BY <1>2, <2>3 DEF TypeInv, ServerOK, Alias
  <2>5. PICK d \in CallSet : /\ calls' = (calls \ {c}) \cup {d}
                             /\ Same(c, d) /\ d.st = "ok" /\ d.ans = NoAnswer
    BY <1>0, <1>1, <1>3, DoneShape DEF SetMember, Becomes
  <2>6. Effect(c, d)
    BY <1>2, <2>4, <2>5, Blanks DEF Effect, Reading, Lists, OnMembers
  <2> QED BY <2>6
<1>4. CASE (members[c.id][c.arg] = "none") # (c.op = "add")
  <2>1. UNCHANGED serverVars /\ Refuse(c)
    BY <1>1, <1>2, <1>4 DEF SetMember, serverVars
  <2>2. Becomes(c, "failed", NoAnswer)
    BY <1>0, <2>1, RefuseShape
  <2> QED BY <1>0, <2>1, <2>2, EffectQuiet, Blanks DEF OnMembers, Reading, Lists
<1> QED BY <1>3, <1>4

LEMMA ServeShape ==
  ASSUME TypeInv, NEW c \in calls, Serve(c)
  PROVE  /\ \E d \in CallSet : Effect(c, d)
         /\ UNCHANGED <<pageVars, turns, behind>> /\ c.st = "asked"
<1>1. c.op \in Op /\ c \in CallSet
  BY CallFields DEF TypeInv, CallsOK, CallOK
<1>2. CASE c.op = "save user"
  <2>1. Done(c) /\ UNCHANGED serverVars
    BY <1>2 DEF Serve
  <2>2. Becomes(c, "ok", NoAnswer)
    BY <1>1, <2>1, DoneShape
  <2>3. \E d \in CallSet : Effect(c, d)
    BY <1>1, <1>2, <2>1, <2>2, EffectQuiet, Blanks DEF Reading, Lists
  <2> QED BY <2>3 DEF Serve
<1>3. CASE c.op # "save user"
  <2>1. c.op \in Reading \/ c.op = "create" \/ c.op = "remove" \/ c.op \in OnRows
        \/ c.op \in OnMembers
    BY <1>1, <1>3 DEF Op, OnRows, OnMembers
  <2>2. \E d \in CallSet : Effect(c, d)
    BY <2>1, ServeRead, ServeCreate, ServeRemove, ServeRow, ServeMember
  <2> QED BY <2>2 DEF Serve
<1> QED BY <1>2, <1>3

-----------------------------------------------------------------------------
(* Types, step by step                                                     *)

(* The requests after a step: those of before, and those of E.             *)
LEMMA CallsStay ==
  ASSUME TypeInv, Alias \subseteq Alias', opened' \in Nat, opened <= opened',
         NEW E, calls' \subseteq calls \cup E, \A e \in E : CallOK(e)'
  PROVE  CallsOK'
<1>1. ASSUME NEW c \in calls
      PROVE  CallOK(c)'
  <2>1. CallOK(c) /\ opened \in Nat
    BY DEF TypeInv, CallsOK, CountsOK
  <2>2. c.no <= opened'
    <3>1. c.no \in Nat /\ c.no <= opened
      BY <2>1 DEF CallOK, CallSet
    <3> QED BY <2>1, <3>1
  <2> QED BY <2>1, <2>2 DEF CallOK
<1> QED BY <1>1 DEF CallsOK

LEMMA OneMore ==
  ASSUME TypeInv, Alias \subseteq Alias', opened' \in Nat, opened <= opened',
         NEW e, calls' \subseteq calls \cup {e}, CallOK(e)'
  PROVE  CallsOK'
<1>1. PICK E : E = {e}
  OBVIOUS
<1> QED BY <1>1, CallsStay

LEMMA NoMore ==
  ASSUME TypeInv, Alias \subseteq Alias', opened' \in Nat, opened <= opened', calls' \subseteq calls
  PROVE  CallsOK'
<1>1. PICK E : E = {}
  OBVIOUS
<1> QED BY <1>1, CallsStay

(* A request a click makes, and a read that follows an answer.             *)
LEMMA CallFine ==
  ASSUME TypeInv, NEW e \in CallSet, e.no <= opened', e.ans = NoAnswer, e.alias \in {0} \cup Alias',
         e.op \in OfDomain => e.id \in Domain, e.op \in OfUser => e.id \in User,
         e.op \in {"add", "member"} => e.arg \in Domain /\ e.to \in Role \cup {"none"},
         e.op = "catchall" => e.arg \in User \cup {None},
         e.op = "remove" => e.alias \in Alias'
  PROVE  CallOK(e)'
BY Blanks DEF CallOK

LEMMA NumbersOK ==
  ASSUME TypeInv
  PROVE  /\ opened \in Nat /\ turns \in Nat /\ modal.no <= opened => modal.no \in 0..opened
         /\ MaxTurns \in Nat /\ opened \in 0..turns /\ turns \in 0..MaxTurns
         /\ Turn => turns' \in 0..MaxTurns /\ turns' = turns + 1 /\ turns \in 0..(MaxTurns - 1)
BY AdminAssumption, ModalFields DEF TypeInv, CountsOK, Turn

LEMMA CountsStay ==
  ASSUME TypeInv, turns' = turns \/ Turn, opened' = opened, behind' \subseteq Lists
  PROVE  CountsOK' /\ opened' \in Nat /\ opened <= opened'
BY NumbersOK DEF CountsOK

(* A dialog that only learns that things are mixed up, or whose answers    *)
(* come from elsewhere.                                                    *)
LEMMA Remarked ==
  ASSUME ModalOK, NEW b \in BOOLEAN, NEW x \in BOOLEAN,
         modal' = [modal EXCEPT !.mixed = b, !.crossed = x]
  PROVE  /\ ModalOK' /\ modal'.kind = modal.kind /\ modal'.no = modal.no /\ modal'.id = modal.id
         /\ modal'.editing = modal.editing /\ modal'.catchall = modal.catchall
         /\ modal'.roles = modal.roles /\ modal'.crossed = x /\ modal'.mixed = b
<1>1. modal' \in ModalSet /\ modal'.kind = modal.kind /\ modal'.no = modal.no
      /\ modal'.id = modal.id /\ modal'.editing = modal.editing
      /\ modal'.catchall = modal.catchall /\ modal'.roles = modal.roles
      /\ modal'.crossed = x /\ modal'.mixed = b
  BY DEF ModalOK, ModalSet
<1>2. ASSUME modal.kind = "none"
      PROVE  modal' = [Closed EXCEPT !.mixed = modal'.mixed, !.crossed = modal'.crossed]
  <2>1. modal = [Closed EXCEPT !.mixed = modal.mixed, !.crossed = modal.crossed]
    BY <1>2 DEF ModalOK
  <2>2. modal' = [Closed EXCEPT !.mixed = b, !.crossed = x]
    BY <2>1 DEF Closed
  <2> QED BY <1>1, <2>2
<1>3. ModalOK'
  BY <1>1, <1>2 DEF ModalOK
<1> QED BY <1>1, <1>3

LEMMA MixShape ==
  ASSUME ModalOK, NEW b \in BOOLEAN, Mix(b)
  PROVE  /\ ModalOK' /\ modal'.kind = modal.kind /\ modal'.no = modal.no /\ modal'.id = modal.id
         /\ modal'.editing = modal.editing /\ modal'.catchall = modal.catchall
         /\ modal'.roles = modal.roles /\ modal'.crossed = modal.crossed
         /\ modal'.mixed = (modal.mixed \/ b)
         /\ UNCHANGED <<tab, loading, rows, people, shown, opened>>
<1>1. PICK m, x : m = (modal.mixed \/ b) /\ x = modal.crossed
  OBVIOUS
<1>2. m \in BOOLEAN /\ x \in BOOLEAN
  BY <1>1, ModalFields
<1>3. modal' = [modal EXCEPT !.mixed = m, !.crossed = x]
  <2>1. modal' = [modal EXCEPT !.mixed = m]
    BY <1>1 DEF Mix
  <2> QED BY <1>1, <2>1 DEF ModalOK, ModalSet
<1>4. ModalOK' /\ modal'.kind = modal.kind /\ modal'.no = modal.no /\ modal'.id = modal.id
      /\ modal'.editing = modal.editing /\ modal'.catchall = modal.catchall
      /\ modal'.roles = modal.roles /\ modal'.crossed = x /\ modal'.mixed = m
  BY <1>2, <1>3, Remarked
<1> QED BY <1>1, <1>4 DEF Mix

LEMMA CrossShape ==
  ASSUME ModalOK, NEW b \in BOOLEAN, modal' = [modal EXCEPT !.crossed = @ \/ b]
  PROVE  /\ ModalOK' /\ modal'.kind = modal.kind /\ modal'.no = modal.no /\ modal'.id = modal.id
         /\ modal'.editing = modal.editing /\ modal'.catchall = modal.catchall
         /\ modal'.roles = modal.roles /\ modal'.crossed = (modal.crossed \/ b)
         /\ modal'.mixed = modal.mixed
<1>1. PICK m, x : m = modal.mixed /\ x = (modal.crossed \/ b)
  OBVIOUS
<1>2. m \in BOOLEAN /\ x \in BOOLEAN
  BY <1>1, ModalFields
<1>3. modal' = [modal EXCEPT !.mixed = m, !.crossed = x]
  BY <1>1 DEF ModalOK, ModalSet
<1>4. ModalOK' /\ modal'.kind = modal.kind /\ modal'.no = modal.no /\ modal'.id = modal.id
      /\ modal'.editing = modal.editing /\ modal'.catchall = modal.catchall
      /\ modal'.roles = modal.roles /\ modal'.crossed = x /\ modal'.mixed = m
  BY <1>2, <1>3, Remarked
<1> QED BY <1>1, <1>4

LEMMA ClosedOK ==
  ASSUME modal' = Closed
  PROVE  /\ ModalOK' /\ modal'.kind = "none" /\ modal'.no = 0 /\ ~modal'.mixed
         /\ ~modal'.crossed
<1>1. Closed \in ModalSet
  BY Blanks DEF Closed, ModalSet, Ids
<1>2. Closed = [Closed EXCEPT !.mixed = Closed.mixed, !.crossed = Closed.crossed]
  BY DEF Closed
<1>3. Closed.kind = "none" /\ Closed.no = 0 /\ Closed.mixed = FALSE /\ Closed.crossed = FALSE
  BY DEF Closed
<1> QED BY <1>1, <1>2, <1>3 DEF ModalOK

LEMMA ModalStays ==
  ASSUME ModalOK, modal' = modal
  PROVE  ModalOK'
BY DEF ModalOK

LEMMA FetchTyped ==
  ASSUME behind \subseteq Lists, NEW list \in Lists, Fetch(list)
  PROVE  behind' \subseteq Lists
BY DEF Fetch

-----------------------------------------------------------------------------
(* The clicks that ask for something in a dialog, or on a row              *)

Click ==
  \/ \E d \in Domain : ToggleDomain(d)
  \/ AddAlias \/ SaveDomain \/ SaveUser
  \/ \E a \in Alias : RemoveAlias(a)
  \/ \E u \in User \cup {None} : ChangeCatchall(u)
  \/ \E d \in Domain, role \in Role \cup {"none"} : ChangeMember(d, role)

(* The dialog is the one it was; it may be mixed up now.                   *)
StaysOpen ==
  /\ ModalOK' /\ modal'.kind = modal.kind /\ modal'.no = modal.no /\ modal'.id = modal.id
  /\ modal'.editing = modal.editing /\ modal'.catchall = modal.catchall
  /\ modal'.roles = modal.roles
  /\ modal.mixed => modal'.mixed

About(e) ==
  \/ modal.kind = "none" /\ e.op = "toggle"
  \/ modal.kind = "domain" /\ e.op = "create" /\ e.id = modal.editing
  \/ /\ modal.kind = "domain" /\ e.op = "remove" /\ e.id = modal.editing
     /\ e.alias \in shown /\ e.early = Early
  \/ /\ modal.kind = "domain" /\ e.op = "catchall" /\ e.id = modal.editing
     /\ InProgress("catchall") => modal'.mixed
  \/ modal.kind = "domain" /\ e.op = "save domain" /\ e.id = modal.id
  \/ modal.kind = "user" /\ e.op \in OnMembers /\ e.id = modal.editing
  \/ modal.kind = "user" /\ e.op = "save user" /\ e.id = modal.id

Clicked(e) ==
  /\ CallOK(e)' /\ calls' = calls \cup {e} /\ About(e)
  /\ e.st = "asked" /\ e.ans = NoAnswer /\ e.no = modal.no /\ e.shows = modal.id
  /\ e.crossed = modal.crossed
  /\ StaysOpen /\ modal'.crossed = modal.crossed
  /\ Turn /\ UNCHANGED <<serverVars, tab, loading, rows, people, shown, opened, behind>>

(* Dialogs are numbered in the order they are opened.                      *)
NumberInv == modal.no <= opened
Typed == TypeInv /\ NumberInv

LEMMA LeaveShape ==
  ASSUME ModalOK, Leave
  PROVE  /\ StaysOpen /\ modal'.crossed = modal.crossed
         /\ UNCHANGED <<tab, loading, rows, people, shown, opened>>
BY ModalStays DEF Leave, StaysOpen, pageVars

LEMMA NoneIsNoRow == None \in Ids /\ Domain \subseteq Ids /\ User \subseteq Ids
BY DEF Ids

(* The text of a request that says nothing.                                *)
LEMMA Says ==
  {"", "on", "off", "none"} \subseteq Role \cup {"none", "on", "off", ""}
  /\ Role \subseteq Role \cup {"none", "on", "off", ""}
OBVIOUS

LEMMA ClickMade ==
  ASSUME Typed, NEW e \in CallSet, calls' = calls \cup {e}, About(e),
         e.st = "asked", e.ans = NoAnswer, e.no = modal.no, e.shows = modal.id,
         e.crossed = modal.crossed, e.alias \in {0} \cup Alias,
         e.op = "remove" => e.alias \in Alias,
         e.op \in OfDomain => e.id \in Domain, e.op \in OfUser => e.id \in User,
         e.op \in {"add", "member"} => e.arg \in Domain /\ e.to \in Role \cup {"none"},
         e.op = "catchall" => e.arg \in User \cup {None},
         StaysOpen, modal'.crossed = modal.crossed, Turn,
         UNCHANGED <<serverVars, tab, loading, rows, people, shown, opened, behind>>
  PROVE  Clicked(e)
<1>1. Alias' = Alias
  BY ServerStays DEF Typed
<1>2. e.no <= opened'
  BY DEF Typed, NumberInv
<1>3. CallOK(e)'
  BY <1>1, <1>2, CallFine DEF Typed
<1> QED BY <1>3 DEF Clicked

LEMMA ToggleShape ==
  ASSUME Typed, NEW d \in Domain, ToggleDomain(d)
  PROVE  \E e \in CallSet : Clicked(e)
<1>1. PICK to : to = IF rows[d].active THEN "off" ELSE "on"
  OBVIOUS
<1>2. to \in Role \cup {"none", "on", "off", ""} /\ "toggle" \in Op /\ ModalOK
  BY <1>1 DEF Op, Typed, TypeInv
<1>3. PICK e : e = Call("toggle", d, None, to)
  OBVIOUS
<1>4. /\ e \in CallSet /\ e.op = "toggle" /\ e.id = d /\ e.st = "asked" /\ e.ans = NoAnswer
      /\ e.no = modal.no /\ e.shows = modal.id /\ e.crossed = modal.crossed /\ e.alias = 0
  BY <1>2, <1>3, NoneIsNoRow, ModalFields, Blanks DEF Call, CallSet
<1>5. modal.kind = "none" /\ calls' = calls \cup {e} /\ Turn /\ UNCHANGED serverVars
      /\ Leave /\ UNCHANGED behind
  BY <1>1, <1>3 DEF ToggleDomain, Reachable, Ask, Leave
<1>6. /\ StaysOpen /\ modal'.crossed = modal.crossed
      /\ UNCHANGED <<tab, loading, rows, people, shown, opened>>
  BY <1>2, <1>5, LeaveShape
<1>7. Clicked(e)
  <2>1. About(e)
    BY <1>4, <1>5 DEF About
  <2> QED BY <1>4, <1>5, <1>6, <2>1, ClickMade DEF OfDomain, OfUser
<1> QED BY <1>4, <1>7

LEMMA AddShape ==
  ASSUME Typed, AddAlias
  PROVE  \E e \in CallSet : Clicked(e)
<1>1. "create" \in Op /\ ModalOK /\ modal.kind = "domain"
  BY DEF Op, Typed, TypeInv, AddAlias, InModal
<1>2. modal.editing \in Domain
  BY <1>1, ModalFields
<1>3. PICK e : e = Call("create", modal.editing, None, "")
  OBVIOUS
<1>4. /\ e \in CallSet /\ e.op = "create" /\ e.id = modal.editing /\ e.st = "asked"
      /\ e.ans = NoAnswer
      /\ e.no = modal.no /\ e.shows = modal.id /\ e.crossed = modal.crossed /\ e.alias = 0
  BY <1>1, <1>2, <1>3, NoneIsNoRow, ModalFields, Blanks DEF Call, CallSet
<1>5. calls' = calls \cup {e} /\ Turn /\ UNCHANGED serverVars /\ Leave /\ UNCHANGED behind
  BY <1>3 DEF AddAlias, InModal, Ask
<1>6. /\ StaysOpen /\ modal'.crossed = modal.crossed
      /\ UNCHANGED <<tab, loading, rows, people, shown, opened>>
  BY <1>1, <1>5, LeaveShape
<1>7. Clicked(e)
  <2>1. About(e)
    BY <1>1, <1>4 DEF About
  <2> QED BY <1>2, <1>4, <1>5, <1>6, <2>1, ClickMade DEF OfDomain, OfUser
<1> QED BY <1>4, <1>7

LEMMA SaveDomainShape ==
  ASSUME Typed, SaveDomain
  PROVE  \E e \in CallSet : Clicked(e)
<1>1. "save domain" \in Op /\ ModalOK /\ modal.kind = "domain"
  BY DEF Op, Typed, TypeInv, SaveDomain, InModal
<1>2. modal.id \in Domain
  BY <1>1, ModalFields
<1>3. PICK to : to = IF modal.active THEN "on" ELSE "off"
  OBVIOUS
<1>4. PICK e : e = Call("save domain", modal.id, None, to)
  OBVIOUS
<1>5. to \in Role \cup {"none", "on", "off", ""}
  BY <1>3
<1>6. /\ e \in CallSet /\ e.op = "save domain" /\ e.id = modal.id /\ e.st = "asked"
      /\ e.ans = NoAnswer
      /\ e.no = modal.no /\ e.shows = modal.id /\ e.crossed = modal.crossed /\ e.alias = 0
  BY <1>1, <1>2, <1>4, <1>5, NoneIsNoRow, ModalFields, Blanks DEF Call, CallSet
<1>7. calls' = calls \cup {e} /\ Turn /\ UNCHANGED serverVars /\ Leave /\ UNCHANGED behind
  BY <1>3, <1>4 DEF SaveDomain, InModal, Ask
<1>8. /\ StaysOpen /\ modal'.crossed = modal.crossed
      /\ UNCHANGED <<tab, loading, rows, people, shown, opened>>
  BY <1>1, <1>7, LeaveShape
<1>9. Clicked(e)
  <2>1. About(e)
    BY <1>1, <1>6 DEF About
  <2> QED BY <1>2, <1>6, <1>7, <1>8, <2>1, ClickMade DEF OfDomain, OfUser
<1> QED BY <1>6, <1>9

LEMMA SaveUserShape ==
  ASSUME Typed, SaveUser
  PROVE  \E e \in CallSet : Clicked(e)
<1>1. "save user" \in Op /\ ModalOK /\ modal.kind = "user"
  BY DEF Op, Typed, TypeInv, SaveUser, InModal
<1>2. modal.id \in User
  BY <1>1, ModalFields
<1>3. PICK e : e = Call("save user", modal.id, None, "")
  OBVIOUS
<1>4. /\ e \in CallSet /\ e.op = "save user" /\ e.id = modal.id /\ e.st = "asked"
      /\ e.ans = NoAnswer
      /\ e.no = modal.no /\ e.shows = modal.id /\ e.crossed = modal.crossed /\ e.alias = 0
  BY <1>1, <1>2, <1>3, NoneIsNoRow, ModalFields, Blanks DEF Call, CallSet
<1>5. calls' = calls \cup {e} /\ Turn /\ UNCHANGED serverVars /\ Leave /\ UNCHANGED behind
  BY <1>3 DEF SaveUser, InModal, Ask
<1>6. /\ StaysOpen /\ modal'.crossed = modal.crossed
      /\ UNCHANGED <<tab, loading, rows, people, shown, opened>>
  BY <1>1, <1>5, LeaveShape
<1>7. Clicked(e)
  <2>1. About(e)
    BY <1>1, <1>4 DEF About
  <2> QED BY <1>2, <1>4, <1>5, <1>6, <2>1, ClickMade DEF OfDomain, OfUser
<1> QED BY <1>4, <1>7

LEMMA RemoveShape ==
  ASSUME Typed, NEW a \in Alias, RemoveAlias(a)
  PROVE  \E e \in CallSet : Clicked(e)
<1>1. ModalOK /\ modal.kind = "domain" /\ a \in Nat
  BY Aliases DEF Typed, TypeInv, RemoveAlias, InModal
<1>2. modal.editing \in Domain
  BY <1>1, ModalFields
<1>3. PICK e : e = Removal(a)
  OBVIOUS
<1>4. /\ e \in CallSet /\ e.op = "remove" /\ e.id = modal.editing /\ e.st = "asked"
      /\ e.ans = NoAnswer /\ e.early = Early
      /\ e.no = modal.no /\ e.shows = modal.id /\ e.crossed = modal.crossed /\ e.alias = a
  BY <1>1, <1>3, RemovalTyped
<1>5. calls' = calls \cup {e} /\ Turn /\ UNCHANGED serverVars /\ Leave /\ UNCHANGED behind
      /\ a \in shown
  BY <1>3 DEF RemoveAlias, InModal, Ask, Removal
<1>6. /\ StaysOpen /\ modal'.crossed = modal.crossed
      /\ UNCHANGED <<tab, loading, rows, people, shown, opened>>
  BY <1>1, <1>5, LeaveShape
<1>7. Clicked(e)
  <2>1. About(e)
    BY <1>1, <1>4, <1>5 DEF About
  <2> QED BY <1>2, <1>4, <1>5, <1>6, <2>1, ClickMade DEF OfDomain, OfUser
<1> QED BY <1>4, <1>7

LEMMA CatchallShape ==
  ASSUME Typed, NEW u \in User \cup {None}, ChangeCatchall(u)
  PROVE  \E e \in CallSet : Clicked(e)
<1>1. "catchall" \in Op /\ ModalOK /\ modal.kind = "domain"
  BY DEF Op, Typed, TypeInv, ChangeCatchall, InModal
<1>2. modal.editing \in Domain
  BY <1>1, ModalFields
<1>3. PICK e : e = Call("catchall", modal.editing, u, "")
  OBVIOUS
<1>4. /\ e \in CallSet /\ e.op = "catchall" /\ e.id = modal.editing /\ e.arg = u
      /\ e.st = "asked" /\ e.ans = NoAnswer
      /\ e.no = modal.no /\ e.shows = modal.id /\ e.crossed = modal.crossed /\ e.alias = 0
  BY <1>1, <1>2, <1>3, NoneIsNoRow, ModalFields, Blanks DEF Call, CallSet
<1>5. PICK b \in BOOLEAN : b = InProgress("catchall")
  BY DEF InProgress
<1>6. calls' = calls \cup {e} /\ Turn /\ UNCHANGED serverVars /\ Mix(b) /\ UNCHANGED behind
  BY <1>3, <1>5 DEF ChangeCatchall, InModal, Ask
<1>7. /\ StaysOpen /\ modal'.crossed = modal.crossed /\ (b => modal'.mixed)
      /\ UNCHANGED <<tab, loading, rows, people, shown, opened>>
  BY <1>1, <1>6, MixShape DEF StaysOpen
<1>8. Clicked(e)
  <2>1. About(e)
    BY <1>1, <1>4, <1>5, <1>7 DEF About
  <2> QED BY <1>2, <1>4, <1>6, <1>7, <2>1, ClickMade DEF OfDomain, OfUser
<1> QED BY <1>4, <1>8

LEMMA MemberShape ==
  ASSUME Typed, NEW x \in Domain, NEW role \in Role \cup {"none"}, ChangeMember(x, role)
  PROVE  \E e \in CallSet : Clicked(e)
<1>1. PICK op : op = IF modal.roles[x] = "none" THEN "add" ELSE "member"
  OBVIOUS
<1>2. op \in {"add", "member"} /\ op \in Op /\ ModalOK /\ modal.kind = "user"
  BY <1>1 DEF Op, Typed, TypeInv, ChangeMember, InModal
<1>3. modal.editing \in User
  BY <1>2, ModalFields
<1>4. PICK e : e = Call(op, modal.editing, x, role)
  OBVIOUS
<1>5. /\ e \in CallSet /\ e.op = op /\ e.id = modal.editing /\ e.arg = x /\ e.to = role
      /\ e.st = "asked" /\ e.ans = NoAnswer
      /\ e.no = modal.no /\ e.shows = modal.id /\ e.crossed = modal.crossed /\ e.alias = 0
  BY <1>2, <1>3, <1>4, NoneIsNoRow, ModalFields, Blanks DEF Call, CallSet
<1>6. calls' = calls \cup {e} /\ Turn /\ UNCHANGED serverVars /\ Leave /\ UNCHANGED behind
  BY <1>1, <1>4 DEF ChangeMember, InModal, Ask
<1>7. /\ StaysOpen /\ modal'.crossed = modal.crossed
      /\ UNCHANGED <<tab, loading, rows, people, shown, opened>>
  BY <1>2, <1>6, LeaveShape
<1>8. Clicked(e)
  <2>1. About(e)
    BY <1>2, <1>5 DEF About, OnMembers
  <2> QED BY <1>2, <1>3, <1>5, <1>6, <1>7, <2>1, ClickMade DEF OfDomain, OfUser
<1> QED BY <1>5, <1>8

LEMMA ClickShape ==
  ASSUME Typed, Click
  PROVE  \E e \in CallSet : Clicked(e)
<1>1. CASE \E d \in Domain : ToggleDomain(d)
  BY <1>1, ToggleShape
<1>2. CASE AddAlias \/ SaveDomain \/ SaveUser
  BY <1>2, AddShape, SaveDomainShape, SaveUserShape
<1>3. CASE \E a \in Alias : RemoveAlias(a)
  BY <1>3, RemoveShape
<1>4. CASE \E u \in User \cup {None} : ChangeCatchall(u)
  BY <1>4, CatchallShape
<1>5. CASE \E d \in Domain, role \in Role \cup {"none"} : ChangeMember(d, role)
  BY <1>5, MemberShape
<1> QED BY <1>1, <1>2, <1>3, <1>4, <1>5 DEF Click

-----------------------------------------------------------------------------
(* The other steps of the administrator                                    *)

LEMMA FetchDomains ==
  ASSUME Fetch("domains")
  PROVE  /\ "domains" \notin behind' => ~InProgress("domains")
         /\ "users" \notin behind' => "users" \notin behind
BY DEF Fetch

LEMMA FetchUsers ==
  ASSUME Fetch("users")
  PROVE  /\ "users" \notin behind' => ~InProgress("users") /\ ~InProgress("refresh")
         /\ "domains" \notin behind' => "domains" \notin behind
BY DEF Fetch

(* A read that is asked for.                                               *)
Asks(r, op, id, no) ==
  /\ CallOK(r)' /\ r.st = "asked" /\ r.ans = NoAnswer /\ r.op = op /\ r.id = id /\ r.no = no

LEMMA ReadMade ==
  ASSUME TypeInv, NEW op \in Reading, NEW id \in Ids, NEW no \in Nat, no <= opened',
         op = "aliases" => id \in Domain, op = "refresh" => id \in User
  PROVE  Read(op, id, no) \in CallSet /\ Asks(Read(op, id, no), op, id, no)
<1>1. PICK r : r = Read(op, id, no)
  OBVIOUS
<1>2. op \in Op
  BY DEF Op
<1>3. /\ r \in CallSet /\ r.op = op /\ r.id = id /\ r.no = no /\ r.alias = 0
      /\ r.st = "asked" /\ r.ans = NoAnswer
  BY <1>1, <1>2, ReadTyped
<1>4. CallOK(r)'
  BY <1>3, CallFine DEF Reading, Lists, OfDomain, OfUser
<1> QED BY <1>1, <1>3, <1>4 DEF Asks

TabSelected(t, r) ==
  /\ Asks(r, t, None, 0) /\ calls' = calls \cup {r}
  /\ modal.kind = "none" /\ tab' = t /\ loading' = TRUE /\ Turn /\ Fetch(t)
  /\ UNCHANGED <<serverVars, rows, people, shown, modal, opened>>

LEMMA SelectShape ==
  ASSUME Typed, NEW t \in Lists, SelectTab(t)
  PROVE  \E r \in CallSet : TabSelected(t, r)
<1>1. PICK r : r = Read(t, None, 0)
  OBVIOUS
<1>2. t \in Reading /\ t # "aliases" /\ t # "refresh" /\ None \in Ids /\ 0 <= opened'
  BY NoneIsNoRow, NumbersOK DEF Lists, Reading, SelectTab, Typed
<1>3. r \in CallSet /\ Asks(r, t, None, 0)
  BY <1>1, <1>2, ReadMade DEF Typed
<1>4. TabSelected(t, r)
  BY <1>1, <1>3 DEF SelectTab, TabSelected, Ask
<1> QED BY <1>3, <1>4

(* A dialog is opened.                                                     *)
Opened(kind, x, list) ==
  /\ Turn /\ opened' = opened + 1 /\ modal.kind = "none" /\ tab = list /\ ~loading
  /\ ModalOK' /\ modal'.kind = kind /\ modal'.no = opened' /\ modal'.id = x
  /\ modal'.editing = x /\ ~modal'.crossed
  /\ modal'.mixed = (calls # {} \/ list \in behind)
  /\ UNCHANGED <<serverVars, tab, loading, rows, people, shown, behind>>

LEMMA OpenDomainShape ==
  ASSUME Typed, NEW x \in Domain, OpenDomain(x)
  PROVE  /\ Opened("domain", x, "domains") /\ modal'.catchall = rows[x].catchall
         /\ \E r \in CallSet : Asks(r, "aliases", x, opened') /\ calls' = calls \cup {r}
<1>1. PICK n, k, b, m : /\ n = opened + 1 /\ k = rows[x].catchall /\ b = rows[x].active
                        /\ m = (calls # {} \/ "domains" \in behind)
  OBVIOUS
<1>2. n \in Nat /\ k \in User \cup {None} /\ b \in BOOLEAN /\ m \in BOOLEAN
  BY <1>1, NumbersOK DEF Typed, TypeInv, PageOK, RowSet
<1>3. opened' = n /\ modal' = [Closed EXCEPT !.kind = "domain", !.no = n, !.id = x, !.editing = x,
                                             !.catchall = k, !.active = b, !.mixed = m]
  BY <1>1 DEF OpenDomain
<1>4. modal' = [kind |-> "domain", no |-> n, id |-> x, editing |-> x, catchall |-> k,
                active |-> b, roles |-> Nowhere, crossed |-> FALSE, mixed |-> m]
  BY <1>3 DEF Closed
<1>5. ModalOK'
  BY <1>2, <1>4, Blanks, NoneIsNoRow DEF ModalOK, ModalSet
<1>6. Opened("domain", x, "domains")
  <2>1. modal'.mixed = m /\ modal'.kind = "domain" /\ modal'.no = n /\ modal'.id = x
        /\ modal'.editing = x /\ ~modal'.crossed
    BY <1>4
  <2>2. modal'.mixed = (calls # {} \/ "domains" \in behind)
    BY <1>1, <2>1, Zenon
  <2>3. /\ Turn /\ opened' = opened + 1 /\ modal.kind = "none" /\ tab = "domains" /\ ~loading
        /\ UNCHANGED <<serverVars, tab, loading, rows, people, shown, behind>>
    BY DEF OpenDomain, Reachable
  <2> QED BY <1>3, <1>5, <2>1, <2>2, <2>3, Zenon DEF Opened
<1>7. PICK r : r = Read("aliases", x, n)
  OBVIOUS
<1>8. r \in CallSet /\ Asks(r, "aliases", x, n)
  <2>1. "aliases" \in Reading /\ x \in Ids /\ n <= opened'
    BY <1>2, <1>3, NoneIsNoRow DEF Reading
  <2> QED BY <1>2, <1>7, <2>1, ReadMade DEF Typed
<1>9. calls' = calls \cup {r}
  BY <1>3, <1>7 DEF OpenDomain, Ask
<1> QED BY <1>1, <1>3, <1>4, <1>6, <1>8, <1>9

LEMMA OpenUserShape ==
  ASSUME Typed, NEW u \in User, OpenUser(u)
  PROVE  Opened("user", u, "users") /\ modal'.roles = people[u] /\ calls' = calls
<1>1. PICK n, k, m : /\ n = opened + 1 /\ k = people[u]
                     /\ m = (calls # {} \/ "users" \in behind)
  OBVIOUS
<1>2. n \in Nat /\ k \in Roles /\ m \in BOOLEAN
  BY <1>1, NumbersOK DEF Typed, TypeInv, PageOK
<1>3. opened' = n /\ modal' = [Closed EXCEPT !.kind = "user", !.no = n, !.id = u, !.editing = u,
                                             !.roles = k, !.mixed = m]
  BY <1>1 DEF OpenUser
<1>4. modal' = [kind |-> "user", no |-> n, id |-> u, editing |-> u, catchall |-> None,
                active |-> TRUE, roles |-> k, crossed |-> FALSE, mixed |-> m]
  BY <1>3 DEF Closed
<1>5. ModalOK'
  BY <1>2, <1>4, Blanks, NoneIsNoRow DEF ModalOK, ModalSet
<1>6. Opened("user", u, "users")
  <2>1. modal'.mixed = m /\ modal'.kind = "user" /\ modal'.no = n /\ modal'.id = u
        /\ modal'.editing = u /\ ~modal'.crossed
    BY <1>4
  <2>2. modal'.mixed = (calls # {} \/ "users" \in behind)
    BY <1>1, <2>1, Zenon
  <2>3. /\ Turn /\ opened' = opened + 1 /\ modal.kind = "none" /\ tab = "users" /\ ~loading
        /\ UNCHANGED <<serverVars, tab, loading, rows, people, shown, behind>>
    BY DEF OpenUser, Reachable
  <2> QED BY <1>3, <1>5, <2>1, <2>2, <2>3, Zenon DEF Opened
<1> QED BY <1>1, <1>4, <1>6 DEF OpenUser

(* The active flag is ticked, in the dialog only.                          *)
LEMMA CheckShape ==
  ASSUME Typed, CheckActive
  PROVE  /\ StaysOpen /\ modal'.crossed = modal.crossed /\ modal'.mixed = modal.mixed
         /\ modal.kind = "domain" /\ Turn
         /\ UNCHANGED <<serverVars, tab, loading, rows, people, shown, opened, calls, behind>>
<1>1. PICK b : b = ~modal.active
  OBVIOUS
<1>2. b \in BOOLEAN
  BY <1>1
<1>3. modal' = [modal EXCEPT !.active = b] /\ modal.kind = "domain" /\ Turn
      /\ UNCHANGED <<serverVars, tab, loading, rows, people, shown, opened, calls, behind>>
  BY <1>1 DEF CheckActive, InModal
<1>4. modal' \in ModalSet /\ modal'.kind = modal.kind /\ modal'.no = modal.no
      /\ modal'.id = modal.id /\ modal'.editing = modal.editing
      /\ modal'.catchall = modal.catchall /\ modal'.roles = modal.roles
      /\ modal'.crossed = modal.crossed /\ modal'.mixed = modal.mixed
  BY <1>2, <1>3 DEF Typed, TypeInv, ModalOK, ModalSet
<1>5. StaysOpen
  BY <1>3, <1>4 DEF StaysOpen, ModalOK, Typed, TypeInv
<1> QED BY <1>3, <1>4, <1>5

(* A request fails, before it has its effect or after.                     *)
Failed(c, d) ==
  /\ calls' = (calls \ {c}) \cup {d} /\ Same(c, d) /\ d.st = "failed" /\ d.ans = NoAnswer
  /\ behind' = Lists /\ StaysOpen /\ modal'.crossed = modal.crossed /\ modal'.mixed
  /\ Turn /\ UNCHANGED <<serverVars, tab, loading, rows, people, shown, opened>>

LEMMA FailShape ==
  ASSUME Typed, NEW c \in calls, Fail(c)
  PROVE  \E d \in CallSet : Failed(c, d)
<1>1. c \in CallSet /\ ModalOK
  BY DEF Typed, TypeInv, CallsOK, CallOK
<1>2. Refuse(c) /\ behind' = Lists /\ Mix(TRUE) /\ Turn /\ UNCHANGED serverVars
  BY DEF Fail
<1>3. PICK d \in CallSet : /\ calls' = (calls \ {c}) \cup {d}
                           /\ Same(c, d) /\ d.st = "failed" /\ d.ans = NoAnswer
  BY <1>1, <1>2, RefuseShape DEF Becomes
<1>4. StaysOpen /\ modal'.crossed = modal.crossed /\ modal'.mixed
      /\ UNCHANGED <<tab, loading, rows, people, shown, opened>>
  BY <1>1, <1>2, MixShape DEF StaysOpen
<1> QED BY <1>2, <1>3, <1>4 DEF Failed

-----------------------------------------------------------------------------
(* The answers                                                             *)

(* Nothing comes of a change that failed.                                  *)
Dropped(c) ==
  /\ calls' = calls \ {c} /\ c.st = "failed" /\ c.op \notin Lists \cup {"aliases"}
  /\ UNCHANGED <<serverVars, pageVars, turns, behind>>

(* A list, or the aliases of a domain, were read.                          *)
ListLoaded(c) ==
  /\ calls' = calls \ {c} /\ c.op \in Lists /\ c.st \in {"ok", "failed"}
  /\ loading' = (loading /\ c.op # tab)
  /\ rows' = IF c.op = "domains" /\ c.st = "ok" THEN c.ans.rows ELSE rows
  /\ people' = IF c.op = "users" /\ c.st = "ok" THEN c.ans.people ELSE people
  /\ UNCHANGED <<serverVars, tab, shown, modal, opened, turns, behind>>

AliasesCame(c) ==
  /\ calls' = calls \ {c} /\ c.op = "aliases" /\ c.st \in {"ok", "failed"}
  /\ shown' = c.ans.aliases
  /\ StaysOpen /\ modal'.crossed = (modal.crossed \/ Foreign(c, "domain"))
  /\ modal'.mixed = modal.mixed
  /\ UNCHANGED <<serverVars, tab, loading, rows, people, opened, turns, behind>>

(* The changes that succeeded, each with the read that follows.            *)
Follows(c, r, op, id, no) ==
  /\ Asks(r, op, id, no) /\ calls' = (calls \ {c}) \cup {r} /\ c.st = "ok"
  /\ UNCHANGED <<serverVars, tab, rows, people, shown, opened, turns>>

AliasesAsked(c, r) ==
  /\ c.op \in OnAliases /\ Follows(c, r, "aliases", c.id, c.no)
  /\ StaysOpen /\ modal'.crossed = modal.crossed
  /\ InProgress("aliases") => modal'.mixed
  /\ UNCHANGED <<loading, behind>>

MembersAsked(c, r) ==
  /\ c.op \in OnMembers /\ Follows(c, r, "refresh", c.id, c.no)
  /\ StaysOpen /\ modal'.crossed = modal.crossed
  /\ InProgress("refresh") => modal'.mixed
  /\ loading' = loading /\ Fetch("users")

(* The dialog edits what the answer is about.                              *)
EditedAgain(c, kind) ==
  /\ ModalOK' /\ modal'.kind = modal.kind /\ modal'.no = modal.no /\ modal'.id = modal.id
  /\ modal'.mixed = modal.mixed
  /\ modal.kind # kind => StaysOpen /\ modal'.crossed = modal.crossed
  /\ modal.kind = kind =>
       modal'.editing = c.id /\ modal'.crossed = (modal.crossed \/ Foreign(c, kind))

CatchallKnown(c, r) ==
  /\ c.op = "catchall" /\ Follows(c, r, "domains", None, 0) /\ Fetch("domains")
  /\ loading' = (loading \/ tab = "domains")
  /\ EditedAgain(c, "domain") /\ (modal.kind = "domain" => modal'.catchall = c.arg)

RowSaved(c, r, list) ==
  /\ c.op \in {"toggle", "save domain", "save user"}
  /\ list = IF c.op = "save user" THEN "users" ELSE "domains"
  /\ Follows(c, r, list, None, 0) /\ Fetch(list)
  /\ loading' = (loading \/ tab = list)
  /\ modal' = Closed \/ modal' = modal
  /\ modal.kind = "user" /\ c.op = "save user" => modal' = Closed

UserRefreshed(c) ==
  /\ calls' = calls \ {c} /\ c.op = "refresh" /\ c.st = "ok" /\ people' = c.ans.people
  /\ EditedAgain(c, "user")
  /\ modal.kind = "user" => modal'.roles = c.ans.people[c.id]
  /\ UNCHANGED <<serverVars, tab, loading, rows, shown, opened, turns, behind>>

LEMMA AnswerOf ==
  ASSUME NEW c, Answer(c)
  PROVE  /\ UNCHANGED <<serverVars, turns>> /\ c.st \in {"ok", "failed"}
         /\ \/ Loaded(c) \/ SetAliases(c) \/ AliasChanged(c) \/ CatchallChanged(c)
            \/ Saved(c) \/ MemberChanged(c) \/ Refreshed(c)
BY DEF Answer

LEMMA DroppedShape ==
  ASSUME NEW c, Answer(c), c.st = "failed", c.op \notin Lists \cup {"aliases"}
  PROVE  Dropped(c)
<1>1. Kept(c)
  BY AnswerOf DEF Loaded, SetAliases, AliasChanged, CatchallChanged, Saved, MemberChanged,
                  Refreshed, Lists
<1> QED BY <1>1, AnswerOf DEF Kept, Then, Dropped

LEMMA LoadedShape ==
  ASSUME NEW c, Answer(c), c.op \in Lists
  PROVE  ListLoaded(c)
<1>1. Loaded(c)
  BY AnswerOf DEF SetAliases, AliasChanged, CatchallChanged, Saved, MemberChanged, Refreshed, Lists
<1> QED BY <1>1, AnswerOf DEF Loaded, Then, ListLoaded

LEMMA SetAliasesShape ==
  ASSUME Typed, NEW c, Answer(c), c.op = "aliases"
  PROVE  AliasesCame(c)
<1>1. SetAliases(c)
  BY AnswerOf DEF Loaded, AliasChanged, CatchallChanged, Saved, MemberChanged, Refreshed, Lists
<1>2. PICK b \in BOOLEAN : b = Foreign(c, "domain")
  BY DEF Foreign
<1>3. modal' = [modal EXCEPT !.crossed = @ \/ b]
  BY <1>1, <1>2 DEF SetAliases
<1>4. StaysOpen /\ modal'.crossed = (modal.crossed \/ b) /\ modal'.mixed = modal.mixed
  BY <1>3, CrossShape DEF StaysOpen, Typed, TypeInv
<1>5. /\ calls' = calls \ {c} /\ c.op = "aliases" /\ shown' = c.ans.aliases
      /\ UNCHANGED <<serverVars, tab, loading, rows, people, opened, turns, behind>>
  BY <1>1, AnswerOf DEF SetAliases, Then
<1> QED BY <1>2, <1>4, <1>5, AnswerOf DEF AliasesCame

LEMMA AliasChangedShape ==
  ASSUME Typed, NEW c \in calls, Answer(c), c.st = "ok", c.op \in OnAliases
  PROVE  \E r \in CallSet : AliasesAsked(c, r)
<1>1. AliasChanged(c)
  BY AnswerOf DEF Loaded, SetAliases, CatchallChanged, Saved, MemberChanged, Refreshed, Lists,
                  OnAliases
<1>2. CallOK(c) /\ c.id \in Domain /\ c.no \in Nat /\ c.no <= opened
  BY DEF Typed, TypeInv, CallsOK, CallOK, CallSet, OfDomain, OnAliases
<1>3. PICK r : r = Read("aliases", c.id, c.no)
  OBVIOUS
<1>4. PICK b \in BOOLEAN : b = InProgress("aliases")
  BY DEF InProgress
<1>5. calls' = (calls \ {c}) \cup {r} /\ Mix(b) /\ behind' = behind
  BY <1>1, <1>3, <1>4 DEF AliasChanged, Then
<1>6. StaysOpen /\ modal'.crossed = modal.crossed /\ (b => modal'.mixed)
      /\ UNCHANGED <<tab, loading, rows, people, shown, opened>>
  BY <1>5, MixShape DEF StaysOpen, Typed, TypeInv
<1>7. r \in CallSet /\ Asks(r, "aliases", c.id, c.no)
  <2>1. "aliases" \in Reading /\ c.id \in Ids /\ c.no <= opened'
    BY <1>2, <1>6, NoneIsNoRow DEF Reading
  <2> QED BY <1>2, <1>3, <2>1, ReadMade DEF Typed
<1>8. AliasesAsked(c, r)
  BY <1>4, <1>5, <1>6, <1>7, AnswerOf DEF AliasesAsked, Follows
<1> QED BY <1>7, <1>8

LEMMA MemberChangedShape ==
  ASSUME Typed, NEW c \in calls, Answer(c), c.st = "ok", c.op \in OnMembers
  PROVE  \E r \in CallSet : MembersAsked(c, r)
<1>1. MemberChanged(c)
  BY AnswerOf DEF Loaded, SetAliases, CatchallChanged, Saved, AliasChanged, Refreshed, Lists,
                  OnMembers
<1>2. CallOK(c) /\ c.id \in User /\ c.no \in Nat /\ c.no <= opened
  BY DEF Typed, TypeInv, CallsOK, CallOK, CallSet, OfUser, OnMembers
<1>3. PICK r : r = Read("refresh", c.id, c.no)
  OBVIOUS
<1>4. PICK b \in BOOLEAN : b = InProgress("refresh")
  BY DEF InProgress
<1>5. calls' = (calls \ {c}) \cup {r} /\ Mix(b) /\ Fetch("users")
  BY <1>1, <1>3, <1>4 DEF MemberChanged, Then
<1>6. StaysOpen /\ modal'.crossed = modal.crossed /\ (b => modal'.mixed)
      /\ UNCHANGED <<tab, loading, rows, people, shown, opened>>
  BY <1>5, MixShape DEF StaysOpen, Typed, TypeInv
<1>7. r \in CallSet /\ Asks(r, "refresh", c.id, c.no)
  <2>1. "refresh" \in Reading /\ c.id \in Ids /\ c.no <= opened'
    BY <1>2, <1>6, NoneIsNoRow DEF Reading
  <2> QED BY <1>2, <1>3, <2>1, ReadMade DEF Typed
<1>8. MembersAsked(c, r)
  BY <1>4, <1>5, <1>6, <1>7, AnswerOf DEF MembersAsked, Follows
<1> QED BY <1>7, <1>8

LEMMA ListRead ==
  ASSUME Typed, NEW list \in Lists, opened' = opened
  PROVE  Read(list, None, 0) \in CallSet /\ Asks(Read(list, None, 0), list, None, 0)
<1>1. list \in Reading /\ list # "aliases" /\ list # "refresh" /\ None \in Ids /\ 0 <= opened'
  BY NoneIsNoRow, NumbersOK DEF Lists, Reading, Typed
<1> QED BY <1>1, ReadMade DEF Typed

LEMMA CatchallChangedShape ==
  ASSUME Typed, NEW c \in calls, Answer(c), c.st = "ok", c.op = "catchall"
  PROVE  \E r \in CallSet : CatchallKnown(c, r)
<1>1. CatchallChanged(c)
  BY AnswerOf DEF Loaded, SetAliases, MemberChanged, Saved, AliasChanged, Refreshed, Lists
<1>2. CallOK(c) /\ c.id \in Domain /\ c.arg \in User \cup {None}
  BY DEF Typed, TypeInv, CallsOK, CallOK, OfDomain
<1>3. PICK r : r = Read("domains", None, 0)
  OBVIOUS
<1>4. /\ calls' = (calls \ {c}) \cup {r} /\ Fetch("domains")
      /\ loading' = (loading \/ tab = "domains")
      /\ UNCHANGED <<tab, rows, people, shown, opened>>
  BY <1>1, <1>3 DEF CatchallChanged, Then
<1>5. r \in CallSet /\ Asks(r, "domains", None, 0)
  BY <1>3, <1>4, ListRead DEF Lists
<1>6. EditedAgain(c, "domain") /\ (modal.kind = "domain" => modal'.catchall = c.arg)
  <2>1. CASE modal.kind # "domain"
    BY <1>1, <2>1, ModalStays DEF CatchallChanged, EditedAgain, StaysOpen, Typed, TypeInv
  <2>2. CASE modal.kind = "domain"
    <3>1. PICK x, k, b : x = c.id /\ k = c.arg /\ b = (modal.crossed \/ Foreign(c, "domain"))
      OBVIOUS
    <3>2. b \in BOOLEAN /\ x \in Domain /\ k \in User \cup {None} /\ x \in Ids
      BY <1>2, <3>1, NoneIsNoRow
    <3>3. modal' = [modal EXCEPT !.editing = x, !.catchall = k, !.crossed = b]
      BY <1>1, <2>2, <3>1 DEF CatchallChanged
    <3>4. modal' \in ModalSet /\ modal'.kind = modal.kind /\ modal'.no = modal.no
          /\ modal'.id = modal.id /\ modal'.editing = x /\ modal'.catchall = k
          /\ modal'.crossed = b /\ modal'.mixed = modal.mixed
      BY <3>2, <3>3 DEF Typed, TypeInv, ModalOK, ModalSet
    <3>5. ModalOK'
      BY <2>2, <3>2, <3>4 DEF ModalOK, Typed, TypeInv
    <3> QED BY <2>2, <3>1, <3>4, <3>5 DEF EditedAgain
  <2> QED BY <2>1, <2>2
<1>7. CatchallKnown(c, r)
  BY <1>4, <1>5, <1>6, AnswerOf DEF CatchallKnown, Follows
<1> QED BY <1>5, <1>7

LEMMA SavedShape ==
  ASSUME Typed, NEW c \in calls, Answer(c), c.st = "ok",
         c.op \in {"toggle", "save domain", "save user"}
  PROVE  \E list \in Lists : \E r \in CallSet : RowSaved(c, r, list)
<1>1. Saved(c)
  BY AnswerOf DEF Loaded, SetAliases, MemberChanged, CatchallChanged, AliasChanged, Refreshed, Lists
<1>2. PICK list : list = IF c.op = "save user" THEN "users" ELSE "domains"
  OBVIOUS
<1>3. list \in Lists
  BY <1>2 DEF Lists
<1>4. PICK r : r = Read(list, None, 0)
  OBVIOUS
<1>5. /\ calls' = (calls \ {c}) \cup {r} /\ Fetch(list)
      /\ loading' = (loading \/ tab = list) /\ (modal' = Closed \/ modal' = modal)
      /\ modal.kind = "user" /\ c.op = "save user" => modal' = Closed
      /\ UNCHANGED <<tab, rows, people, shown, opened>>
  BY <1>1, <1>2, <1>4 DEF Saved, Then
<1>6. r \in CallSet /\ Asks(r, list, None, 0)
  BY <1>3, <1>4, <1>5, ListRead
<1>7. RowSaved(c, r, list)
  BY <1>2, <1>5, <1>6, AnswerOf DEF RowSaved, Follows
<1> QED BY <1>3, <1>6, <1>7

LEMMA RefreshedShape ==
  ASSUME Typed, NEW c \in calls, Answer(c), c.st = "ok", c.op = "refresh"
  PROVE  UserRefreshed(c)
<1>1. Refreshed(c)
  BY AnswerOf DEF Loaded, SetAliases, MemberChanged, CatchallChanged, AliasChanged, Saved, Lists
<1>2. CallOK(c) /\ c.id \in User /\ c.ans.people \in [User -> Roles]
  BY CallFields DEF Typed, TypeInv, CallsOK, CallOK, OfUser
<1>3. /\ calls' = calls \ {c} /\ people' = c.ans.people
      /\ UNCHANGED <<tab, loading, rows, shown, opened, behind>>
  BY <1>1 DEF Refreshed, Then
<1>4. EditedAgain(c, "user") /\ (modal.kind = "user" => modal'.roles = c.ans.people[c.id])
  <2>1. CASE modal.kind # "user"
    BY <1>1, <2>1, ModalStays DEF Refreshed, EditedAgain, StaysOpen, Typed, TypeInv
  <2>2. CASE modal.kind = "user"
    <3>1. PICK x, k, b : /\ x = c.id /\ k = c.ans.people[c.id]
                         /\ b = (modal.crossed \/ Foreign(c, "user"))
      OBVIOUS
    <3>2. b \in BOOLEAN /\ x \in User /\ k \in Roles /\ x \in Ids
      BY <1>2, <3>1, NoneIsNoRow
    <3>3. modal' = [modal EXCEPT !.editing = x, !.roles = k, !.crossed = b]
      BY <1>1, <2>2, <3>1 DEF Refreshed
    <3>4. modal' \in ModalSet /\ modal'.kind = modal.kind /\ modal'.no = modal.no
          /\ modal'.id = modal.id /\ modal'.editing = x /\ modal'.roles = k
          /\ modal'.crossed = b /\ modal'.mixed = modal.mixed
      BY <3>2, <3>3 DEF Typed, TypeInv, ModalOK, ModalSet
    <3>5. ModalOK'
      BY <2>2, <3>2, <3>4 DEF ModalOK, Typed, TypeInv
    <3> QED BY <2>2, <3>1, <3>4, <3>5 DEF EditedAgain
  <2> QED BY <2>1, <2>2
<1> QED BY <1>3, <1>4, AnswerOf DEF UserRefreshed

-----------------------------------------------------------------------------
(* The steps there are                                                     *)

Served(c, d) == Effect(c, d) /\ c.st = "asked" /\ UNCHANGED <<pageVars, turns, behind>>
DomainOpened(x, r) ==
  /\ Opened("domain", x, "domains") /\ modal'.catchall = rows[x].catchall
  /\ Asks(r, "aliases", x, opened') /\ calls' = calls \cup {r}
UserOpened(u) == Opened("user", u, "users") /\ modal'.roles = people[u] /\ calls' = calls
Cancelled ==
  /\ modal' = Closed
  /\ UNCHANGED <<serverVars, tab, loading, rows, people, shown, opened, calls, turns, behind>>
Ticked ==
  /\ StaysOpen /\ modal'.crossed = modal.crossed /\ modal'.mixed = modal.mixed
  /\ modal.kind = "domain" /\ Turn
  /\ UNCHANGED <<serverVars, tab, loading, rows, people, shown, opened, calls, behind>>

PageStep ==
  \/ UNCHANGED vars \/ Cancelled \/ Ticked
  \/ \E t \in Lists : \E r \in CallSet : TabSelected(t, r)
  \/ \E x \in Domain : \E r \in CallSet : DomainOpened(x, r)
  \/ \E u \in User : UserOpened(u)
  \/ \E e \in CallSet : Clicked(e)
CallStep(c) ==
  \/ \E d \in CallSet : Served(c, d) \/ Failed(c, d)
  \/ Dropped(c) \/ ListLoaded(c) \/ AliasesCame(c) \/ UserRefreshed(c)
  \/ \E r \in CallSet : AliasesAsked(c, r) \/ MembersAsked(c, r) \/ CatchallKnown(c, r)
  \/ \E list \in Lists : \E r \in CallSet : RowSaved(c, r, list)

LEMMA AnswerSteps ==
  ASSUME Typed, NEW c \in calls, Answer(c)
  PROVE  CallStep(c)
<1>1. c.op \in Op /\ c.st \in {"ok", "failed"}
  BY AnswerOf, CallFields DEF Typed, TypeInv, CallsOK, CallOK
<1>2. CASE c.op \in Lists
  BY <1>2, LoadedShape DEF CallStep
<1>3. CASE c.op = "aliases"
  BY <1>3, SetAliasesShape DEF CallStep
<1>4. CASE c.op \notin Lists \cup {"aliases"} /\ c.st = "failed"
  BY <1>4, DroppedShape DEF CallStep
<1>5. CASE c.op \notin Lists \cup {"aliases"} /\ c.st = "ok"
  <2>1. CASE c.op \in OnAliases
    BY <1>5, <2>1, AliasChangedShape DEF CallStep
  <2>2. CASE c.op \in OnMembers
    BY <1>5, <2>2, MemberChangedShape DEF CallStep
  <2>3. CASE c.op = "catchall"
    BY <1>5, <2>3, CatchallChangedShape DEF CallStep
  <2>4. CASE c.op \in {"toggle", "save domain", "save user"}
    BY <1>5, <2>4, SavedShape DEF CallStep
  <2>5. CASE c.op = "refresh"
    BY <1>5, <2>5, RefreshedShape DEF CallStep
  <2> QED BY <1>1, <1>5, <2>1, <2>2, <2>3, <2>4, <2>5
          DEF Op, Reading, OnAliases, OnMembers
<1> QED BY <1>1, <1>2, <1>3, <1>4, <1>5

LEMMA Steps ==
  ASSUME Typed, [Next]_vars
  PROVE  PageStep \/ \E c \in calls : CallStep(c)
<1>1. CASE UNCHANGED vars
  BY <1>1 DEF PageStep
<1>2. CASE SelectTab("domains") \/ SelectTab("users")
  BY <1>2, SelectShape DEF Lists, PageStep
<1>3. CASE \E d \in Domain : OpenDomain(d)
  <2>1. PICK x \in Domain : OpenDomain(x)
    BY <1>3
  <2>2. \E r \in CallSet : DomainOpened(x, r)
    BY <2>1, OpenDomainShape DEF DomainOpened
  <2> QED BY <2>2 DEF PageStep
<1>4. CASE \E u \in User : OpenUser(u)
  BY <1>4, OpenUserShape DEF PageStep, UserOpened
<1>5. CASE Cancel
  BY <1>5 DEF Cancel, Cancelled, PageStep
<1>6. CASE CheckActive
  BY <1>6, CheckShape DEF Ticked, PageStep
<1>7. CASE Click
  BY <1>7, ClickShape DEF PageStep
<1>8. CASE \E c \in calls : Serve(c)
  <2>1. PICK c \in calls : Serve(c)
    BY <1>8
  <2>2. /\ \E d \in CallSet : Effect(c, d)
        /\ UNCHANGED <<pageVars, turns, behind>> /\ c.st = "asked"
    BY <2>1, ServeShape DEF Typed
  <2> QED BY <2>2 DEF CallStep, Served
<1>9. CASE \E c \in calls : Fail(c)
  BY <1>9, FailShape DEF CallStep
<1>10. CASE \E c \in calls : Answer(c)
  BY <1>10, AnswerSteps
<1>11. CASE Next
  <2>1. \/ SelectTab("domains") \/ SelectTab("users")
        \/ \E d \in Domain : ToggleDomain(d) \/ OpenDomain(d)
        \/ \E u \in User : OpenUser(u)
        \/ Cancel \/ AddAlias \/ CheckActive \/ SaveDomain \/ SaveUser
        \/ \E a \in Alias : RemoveAlias(a)
        \/ \E u \in User \cup {None} : ChangeCatchall(u)
        \/ \E d \in Domain, role \in Role \cup {"none"} : ChangeMember(d, role)
        \/ \E c \in calls : Serve(c) \/ Fail(c) \/ Answer(c)
    BY <1>11 DEF Next
  <2>2. CASE \E d \in Domain : ToggleDomain(d) \/ OpenDomain(d)
    BY <1>3, <1>7, <2>2 DEF Click
  <2>3. CASE \E c \in calls : Serve(c) \/ Fail(c) \/ Answer(c)
    BY <1>8, <1>9, <1>10, <2>3
  <2> QED BY <1>2, <1>4, <1>5, <1>6, <1>7, <2>1, <2>2, <2>3 DEF Click
<1> QED BY <1>1, <1>11

-----------------------------------------------------------------------------
(* Types, step by step                                                     *)

LEMMA PageStays ==
  ASSUME TypeInv, Alias \subseteq Alias', UNCHANGED <<tab, rows, people, shown>>,
         loading' \in BOOLEAN
  PROVE  PageOK'
BY DEF TypeInv, PageOK

LEMMA InitTypes == Init => Typed
<1> SUFFICES ASSUME Init
             PROVE  Typed
  OBVIOUS
<1>1. PICK x \in Domain : aliases = <<[domain |-> x, gone |-> FALSE]>>
  BY DEF Init
<1>2. aliases \in Seq(AliasSet) /\ Len(aliases) = 1
  BY <1>1 DEF AliasSet
<1>3. ServerOK
  BY <1>2, Blanks, AdminAssumption DEF Init, ServerOK
<1>4. PageOK
  BY Blanks DEF Init, PageOK, Lists
<1>5. ModalOK
  <2>1. Closed \in ModalSet
    BY Blanks DEF Closed, ModalSet, Ids
  <2>2. Closed = [Closed EXCEPT !.mixed = Closed.mixed, !.crossed = Closed.crossed]
    BY DEF Closed
  <2>3. Closed.kind = "none"
    BY DEF Closed
  <2> QED BY <2>1, <2>2, <2>3 DEF Init, ModalOK
<1>6. CallsOK
  <2>1. PICK r : r = Read("domains", None, 0)
    OBVIOUS
  <2>2. "domains" \in Op /\ None \in Ids
    BY NoneIsNoRow DEF Op, Reading, Lists
  <2>3. r \in CallSet /\ r.op = "domains" /\ r.no = 0 /\ r.alias = 0 /\ r.ans = NoAnswer
    BY <2>1, <2>2, ReadTyped
  <2>4. CallOK(r)
    BY <2>3, Blanks DEF Init, CallOK, OfDomain, OfUser
  <2> QED BY <2>1, <2>4 DEF Init, CallsOK
<1>7. CountsOK /\ NumberInv
  BY AdminAssumption DEF Init, CountsOK, NumberInv, Closed
<1> QED BY <1>3, <1>4, <1>5, <1>6, <1>7 DEF Typed, TypeInv

LEMMA PageStepTypes ==
  ASSUME Typed, PageStep
  PROVE  Typed'
<1>0. TypeInv /\ NumberInv /\ ModalOK /\ CallsOK /\ opened \in Nat /\ loading \in BOOLEAN
      /\ behind \subseteq Lists /\ opened <= opened
  BY NumbersOK DEF Typed, TypeInv, PageOK, CountsOK
<1>1. ServerOK' /\ Alias' = Alias
  <2>1. UNCHANGED serverVars
    BY DEF PageStep, vars, Cancelled, Ticked, TabSelected, DomainOpened, UserOpened, Opened, Clicked
  <2> QED BY <1>0, <2>1, ServerStays
<1>2. CASE UNCHANGED vars
  <2>1. PageOK' /\ ModalOK' /\ CountsOK' /\ NumberInv'
    BY <1>0, <1>1, <1>2, PageStays, ModalStays, CountsStay DEF vars, pageVars, NumberInv
  <2>2. CallsOK'
    BY <1>0, <1>1, <1>2, NoMore DEF vars, pageVars
  <2> QED BY <1>1, <2>1, <2>2 DEF Typed, TypeInv
<1>3. CASE Cancelled
  <2>1. PageOK' /\ CountsOK'
    BY <1>0, <1>1, <1>3, PageStays, CountsStay DEF Cancelled
  <2>2. ModalOK' /\ NumberInv'
    BY <1>0, <1>3, ClosedOK DEF Cancelled, NumberInv
  <2>3. CallsOK'
    BY <1>0, <1>1, <1>3, NoMore DEF Cancelled
  <2> QED BY <1>1, <2>1, <2>2, <2>3 DEF Typed, TypeInv
<1>4. CASE Ticked
  <2>1. PageOK' /\ CountsOK'
    BY <1>0, <1>1, <1>4, PageStays, CountsStay DEF Ticked
  <2>2. ModalOK' /\ NumberInv'
    BY <1>0, <1>4 DEF Ticked, NumberInv, StaysOpen
  <2>3. CallsOK'
    BY <1>0, <1>1, <1>4, NoMore DEF Ticked
  <2> QED BY <1>1, <2>1, <2>2, <2>3 DEF Typed, TypeInv
<1>5. ASSUME NEW t \in Lists, NEW r \in CallSet, TabSelected(t, r)
      PROVE  Typed'
  <2>1. PageOK'
    BY <1>0, <1>1, <1>5 DEF TabSelected, PageOK, TypeInv
  <2>2. CountsOK'
    BY <1>0, <1>5, FetchTyped, CountsStay DEF TabSelected
  <2>3. ModalOK' /\ NumberInv'
    BY <1>0, <1>5, ModalStays DEF TabSelected, NumberInv
  <2>4. CallsOK'
    BY <1>0, <1>1, <1>5, OneMore DEF TabSelected, Asks
  <2> QED BY <1>1, <2>1, <2>2, <2>3, <2>4 DEF Typed, TypeInv
<1>6. ASSUME NEW kind, NEW x, NEW list, Opened(kind, x, list), CallsOK'
      PROVE  Typed'
  <2>1. PageOK'
    BY <1>0, <1>1, <1>6, PageStays DEF Opened
  <2>2. CountsOK'
    BY <1>0, <1>6, NumbersOK DEF Opened, CountsOK
  <2>3. ModalOK' /\ NumberInv'
    BY <1>0, <1>6 DEF Opened, NumberInv
  <2> QED BY <1>1, <1>6, <2>1, <2>2, <2>3 DEF Typed, TypeInv
<1>7. ASSUME NEW x \in Domain, NEW r \in CallSet, DomainOpened(x, r)
      PROVE  Typed'
  <2>1. opened' \in Nat /\ opened <= opened'
    BY <1>0, <1>7 DEF DomainOpened, Opened
  <2>2. CallsOK'
    BY <1>0, <1>1, <1>7, <2>1, OneMore DEF DomainOpened, Asks
  <2> QED BY <1>6, <1>7, <2>2 DEF DomainOpened
<1>8. ASSUME NEW u \in User, UserOpened(u)
      PROVE  Typed'
  <2>1. opened' \in Nat /\ opened <= opened'
    BY <1>0, <1>8 DEF UserOpened, Opened
  <2>2. CallsOK'
    BY <1>0, <1>1, <1>8, <2>1, NoMore DEF UserOpened
  <2> QED BY <1>6, <1>8, <2>2 DEF UserOpened
<1>9. ASSUME NEW e \in CallSet, Clicked(e)
      PROVE  Typed'
  <2>1. PageOK' /\ CountsOK'
    BY <1>0, <1>1, <1>9, PageStays, CountsStay DEF Clicked
  <2>2. ModalOK' /\ NumberInv'
    BY <1>0, <1>9 DEF Clicked, NumberInv, StaysOpen
  <2>3. CallsOK'
    BY <1>0, <1>1, <1>9, OneMore DEF Clicked
  <2> QED BY <1>1, <2>1, <2>2, <2>3 DEF Typed, TypeInv
<1> QED BY <1>2, <1>3, <1>4, <1>5, <1>7, <1>8, <1>9 DEF PageStep

LEMMA CallStepTypes ==
  ASSUME Typed, NEW c \in calls, CallStep(c)
  PROVE  Typed'
<1>0. /\ TypeInv /\ NumberInv /\ ModalOK /\ CallsOK /\ opened \in Nat /\ loading \in BOOLEAN
      /\ behind \subseteq Lists /\ opened <= opened /\ CallOK(c) /\ c \in CallSet
      /\ rows \in RowSet /\ people \in [User -> Roles] /\ shown \subseteq Alias
  BY NumbersOK DEF Typed, TypeInv, PageOK, CountsOK, CallsOK, CallOK
<1>1. ASSUME UNCHANGED serverVars
      PROVE  ServerOK' /\ Alias' = Alias
  BY <1>0, <1>1, ServerStays
<1>2. ASSUME StaysOpen, opened' = opened
      PROVE  ModalOK' /\ NumberInv'
  BY <1>0, <1>2 DEF NumberInv, StaysOpen
<1>3. ASSUME NEW d \in CallSet, Served(c, d)
      PROVE  Typed'
  <2>1. ServerOK' /\ Alias \subseteq Alias' /\ AliasesOf(c.id) \subseteq Alias
    BY <1>3, AliasesOfIn DEF Served, Effect
  <2>2. UNCHANGED <<tab, loading, rows, people, shown, modal, opened, turns, behind>>
    BY <1>3 DEF Served, pageVars
  <2>3. PageOK' /\ CountsOK' /\ ModalOK' /\ NumberInv'
    BY <1>0, <2>1, <2>2, PageStays, CountsStay, ModalStays DEF NumberInv
  <2>4. CallOK(d)'
    <3>1. Same(c, d) /\ d.ans.aliases \subseteq Alias'
      BY <1>3, <2>1 DEF Served, Effect
    <3> QED BY <1>0, <2>1, <2>2, <3>1 DEF CallOK, Same
  <2>5. CallsOK'
    BY <1>0, <1>3, <2>1, <2>2, <2>4, OneMore DEF Served, Effect
  <2> QED BY <2>1, <2>3, <2>5 DEF Typed, TypeInv
<1>4. ASSUME NEW d \in CallSet, Failed(c, d)
      PROVE  Typed'
  <2>1. ServerOK' /\ Alias' = Alias
    BY <1>1, <1>4 DEF Failed
  <2>2. PageOK' /\ CountsOK'
    BY <1>0, <1>4, <2>1, PageStays, CountsStay DEF Failed
  <2>3. ModalOK' /\ NumberInv'
    BY <1>2, <1>4 DEF Failed
  <2>4. CallOK(d)'
    BY <1>0, <1>4, <2>1, Blanks DEF CallOK, Same, Failed
  <2>5. CallsOK'
    BY <1>0, <1>4, <2>1, <2>4, OneMore DEF Failed
  <2> QED BY <2>1, <2>2, <2>3, <2>5 DEF Typed, TypeInv
<1>5. CASE Dropped(c)
  <2>1. ServerOK' /\ Alias' = Alias
    BY <1>1, <1>5 DEF Dropped
  <2>2. PageOK' /\ CountsOK' /\ ModalOK' /\ NumberInv'
    BY <1>0, <1>5, <2>1, PageStays, CountsStay, ModalStays DEF Dropped, pageVars, NumberInv
  <2>3. CallsOK'
    BY <1>0, <1>5, <2>1, NoMore DEF Dropped, pageVars
  <2> QED BY <2>1, <2>2, <2>3 DEF Typed, TypeInv
<1>6. CASE ListLoaded(c)
  <2>1. ServerOK' /\ Alias' = Alias
    BY <1>1, <1>6 DEF ListLoaded
  <2>2. CountsOK' /\ ModalOK' /\ NumberInv'
    BY <1>0, <1>6, CountsStay, ModalStays DEF ListLoaded, NumberInv
  <2>3. PageOK'
    <3>1. c.ans.rows \in RowSet /\ c.ans.people \in [User -> Roles]
      BY <1>0, CallFields
    <3>2. loading' \in BOOLEAN
      BY <1>0, <1>6 DEF ListLoaded
    <3>3. rows' \in RowSet /\ people' \in [User -> Roles]
      BY <1>0, <1>6, <3>1 DEF ListLoaded
    <3> QED BY <1>0, <1>6, <2>1, <3>2, <3>3 DEF ListLoaded, PageOK, TypeInv
  <2>4. CallsOK'
    BY <1>0, <1>6, <2>1, NoMore DEF ListLoaded
  <2> QED BY <2>1, <2>2, <2>3, <2>4 DEF Typed, TypeInv
<1>7. CASE AliasesCame(c)
  <2>1. ServerOK' /\ Alias' = Alias
    BY <1>1, <1>7 DEF AliasesCame
  <2>2. CountsOK' /\ ModalOK' /\ NumberInv'
    BY <1>0, <1>2, <1>7, CountsStay DEF AliasesCame
  <2>3. PageOK'
    BY <1>0, <1>7, <2>1 DEF AliasesCame, PageOK, TypeInv, CallOK
  <2>4. CallsOK'
    BY <1>0, <1>7, <2>1, NoMore DEF AliasesCame
  <2> QED BY <2>1, <2>2, <2>3, <2>4 DEF Typed, TypeInv
<1>8. CASE UserRefreshed(c)
  <2>1. ServerOK' /\ Alias' = Alias
    BY <1>1, <1>8 DEF UserRefreshed
  <2>2. CountsOK' /\ ModalOK' /\ NumberInv'
    BY <1>0, <1>8, CountsStay DEF UserRefreshed, EditedAgain, NumberInv
  <2>3. PageOK'
    <3>1. c.ans.people \in [User -> Roles]
      BY <1>0, CallFields
    <3> QED BY <1>0, <1>8, <2>1, <3>1 DEF UserRefreshed, PageOK, TypeInv
  <2>4. CallsOK'
    BY <1>0, <1>8, <2>1, NoMore DEF UserRefreshed
  <2> QED BY <2>1, <2>2, <2>3, <2>4 DEF Typed, TypeInv
<1>9. ASSUME NEW r \in CallSet, NEW op, NEW id, NEW no, Follows(c, r, op, id, no),
             loading' \in BOOLEAN, behind' \subseteq Lists, ModalOK', NumberInv'
      PROVE  Typed'
  <2>1. ServerOK' /\ Alias' = Alias
    BY <1>1, <1>9 DEF Follows
  <2>2. PageOK' /\ CountsOK'
    BY <1>0, <1>9, <2>1, PageStays, CountsStay DEF Follows
  <2>3. CallsOK'
    BY <1>0, <1>9, <2>1, OneMore DEF Follows, Asks
  <2> QED BY <1>9, <2>1, <2>2, <2>3 DEF Typed, TypeInv
<1>10. ASSUME NEW r \in CallSet, AliasesAsked(c, r)
       PROVE  Typed'
  BY <1>0, <1>2, <1>9, <1>10 DEF AliasesAsked, Follows
<1>11. ASSUME NEW r \in CallSet, MembersAsked(c, r)
       PROVE  Typed'
  <2>1. behind' \subseteq Lists /\ loading' \in BOOLEAN
    BY <1>0, <1>11, FetchTyped DEF MembersAsked, Lists
  <2>2. ModalOK' /\ NumberInv'
    BY <1>2, <1>11 DEF MembersAsked, Follows
  <2> QED BY <1>9, <1>11, <2>1, <2>2 DEF MembersAsked
<1>12. ASSUME NEW r \in CallSet, CatchallKnown(c, r)
       PROVE  Typed'
  <2>1. behind' \subseteq Lists /\ loading' \in BOOLEAN
    BY <1>0, <1>12, FetchTyped DEF CatchallKnown, Lists
  <2>2. ModalOK' /\ NumberInv'
    BY <1>0, <1>12 DEF CatchallKnown, Follows, EditedAgain, NumberInv
  <2> QED BY <1>9, <1>12, <2>1, <2>2 DEF CatchallKnown
<1>13. ASSUME NEW list \in Lists, NEW r \in CallSet, RowSaved(c, r, list)
       PROVE  Typed'
  <2>1. behind' \subseteq Lists /\ loading' \in BOOLEAN
    BY <1>0, <1>13, FetchTyped DEF RowSaved
  <2>2. ModalOK' /\ NumberInv'
    <3>1. opened' = opened /\ (modal' = Closed \/ modal' = modal)
      BY <1>13 DEF RowSaved, Follows
    <3>2. CASE modal' = Closed
      <4>1. ModalOK' /\ modal'.no = 0
        BY <3>2, ClosedOK
      <4> QED BY <1>0, <3>1, <4>1 DEF NumberInv
    <3>3. CASE modal' = modal
      BY <1>0, <3>1, <3>3, ModalStays DEF NumberInv
    <3> QED BY <3>1, <3>2, <3>3
  <2> QED BY <1>9, <1>13, <2>1, <2>2 DEF RowSaved
<1> QED BY <1>3, <1>4, <1>5, <1>6, <1>7, <1>8, <1>10, <1>11, <1>12, <1>13 DEF CallStep

LEMMA StepTypes ==
  ASSUME Typed, [Next]_vars
  PROVE  Typed'
BY Steps, PageStepTypes, CallStepTypes

LEMMA TypedIsTypeOK == Typed => TypeOK
<1> SUFFICES ASSUME Typed
             PROVE  TypeOK
  OBVIOUS
<1>1. \/ modal = [Closed EXCEPT !.mixed = modal.mixed, !.crossed = modal.crossed]
      \/ /\ modal.kind = "domain" /\ {modal.id, modal.editing} \subseteq Domain
         /\ modal.catchall \in User \cup {None}
      \/ modal.kind = "user" /\ {modal.id, modal.editing} \subseteq User /\ modal.roles \in Roles
  BY ModalFields DEF Typed, TypeInv, ModalOK
<1>2. \A c \in calls : /\ c.op \in Op /\ c.st \in {"asked", "ok", "failed"}
                       /\ c.no \in 0..opened /\ c.alias \in {0} \cup Alias
  <2> SUFFICES ASSUME NEW c \in calls
               PROVE  /\ c.op \in Op /\ c.st \in {"asked", "ok", "failed"}
                      /\ c.no \in 0..opened /\ c.alias \in {0} \cup Alias
    OBVIOUS
  <2>1. CallOK(c) /\ c \in CallSet
    BY DEF Typed, TypeInv, CallsOK, CallOK
  <2>2. c.op \in Op /\ c.st \in {"asked", "ok", "failed"} /\ c.no \in Nat
    BY <2>1 DEF CallSet
  <2>3. opened \in Nat
    BY NumbersOK DEF Typed
  <2> QED BY <2>1, <2>2, <2>3 DEF CallOK
<1>3. opened \in 0..MaxTurns /\ turns \in 0..MaxTurns
  BY NumbersOK DEF Typed
<1> QED BY <1>1, <1>2, <1>3 DEF Typed, TypeInv, ServerOK, PageOK, CountsOK, TypeOK, AliasSet

(* Every variable keeps its type: what the page shows and what is asked    *)
(* for refers to rows there are, and a dialog that is closed leaves        *)
(* nothing of the row it was open for (Admin.jsx, the state of the page).  *)
THEOREM AdminTypeCorrect == Spec => []TypeOK
<1>1. Typed /\ [Next]_vars => Typed'
  BY StepTypes
<1> QED BY InitTypes, <1>1, TypedIsTypeOK, PTL DEF Spec

-----------------------------------------------------------------------------
(* What is asked for in a dialog is about its row                          *)

LEMMA InitActs == Init => ActsInv
<1> SUFFICES ASSUME Init
             PROVE  ActsInv
  OBVIOUS
<1>1. modal.kind = "none"
  BY DEF Init, Closed
<1>2. ASSUME NEW c \in calls
      PROVE  c.op = "domains"
  <2>1. "domains" \in Op /\ None \in Ids
    BY NoneIsNoRow DEF Op, Reading, Lists
  <2>2. Read("domains", None, 0).op = "domains"
    BY <2>1, ReadTyped
  <2> QED BY <1>2, <2>2 DEF Init
<1> QED BY <1>1, <1>2 DEF ActsInv, HomeInv, AnswersInv, ShownInv, ActsOnOpen

(* The aliases of a domain stay its own.                                   *)
LEMMA OwnStay ==
  ASSUME NEW s, s \subseteq Alias, NEW d, \A a \in Alias : aliases'[a].domain = aliases[a].domain,
         OwnAliases(s, d)
  PROVE  OwnAliases(s, d)'
BY DEF OwnAliases

Dialogs == {"create", "catchall", "add", "member", "save domain", "save user"}
Acts(c) ==
  /\ c.op \in Dialogs => c.id = c.shows \/ c.crossed
  /\ c.op = "remove" => aliases[c.alias].domain = c.shows \/ c.crossed \/ c.early

(* Steps that ask for nothing in a dialog.  What is under way is what it   *)
(* was, answered or not, or a read.                                        *)
Descends(e) ==
  \/ e \in calls
  \/ \E c \in calls : Same(c, e) /\ (e.op = "aliases" => OwnAliases(e.ans.aliases, e.id)')
  \/ /\ e.op \in Reading /\ e.ans = NoAnswer
     /\ e.no = 0 \/ \E c \in calls : e.no = c.no /\ e.id = c.id

LEMMA ActsStay ==
  ASSUME Typed, ActsInv, \A a \in Alias : aliases'[a].domain = aliases[a].domain,
         \A e \in calls' : Descends(e)
  PROVE  AnswersInv' /\ ActsOnOpen'
<1>1. \A c \in calls : Acts(c) /\ CallOK(c)
  BY DEF ActsInv, ActsOnOpen, Acts, Dialogs, Typed, TypeInv, CallsOK
<1>2. ASSUME NEW e \in calls'
      PROVE  Acts(e)'
  <2>1. CASE e \in calls
    BY <1>1, <2>1 DEF Acts, CallOK
  <2>2. ASSUME NEW c \in calls, Same(c, e)
        PROVE  Acts(e)'
    BY <1>1, <2>2 DEF Acts, CallOK, Same
  <2>3. CASE e.op \in Reading
    BY <2>3 DEF Acts, Reading, Lists, Dialogs
  <2>4. Descends(e)
    BY <1>2
  <2> QED BY <2>1, <2>2, <2>3, <2>4 DEF Descends
<1>3. ASSUME NEW e \in calls', e.op = "aliases"
      PROVE  OwnAliases(e.ans.aliases, e.id)'
  <2>1. CASE e \in calls
    <3>1. e.ans.aliases \subseteq Alias /\ OwnAliases(e.ans.aliases, e.id)
      BY <1>1, <1>3, <2>1 DEF CallOK, ActsInv, AnswersInv
    <3> QED BY <3>1, OwnStay
  <2>2. CASE e.ans = NoAnswer
    BY <2>2, Blanks DEF OwnAliases
  <2>3. Descends(e)
    BY <1>3
  <2> QED BY <1>3, <2>1, <2>2, <2>3 DEF Descends
<1>4. AnswersInv'
  BY <1>3 DEF AnswersInv
<1>5. ActsOnOpen'
  BY <1>2 DEF ActsOnOpen, Acts, Dialogs
<1> QED BY <1>4, <1>5

(* The dialog that is open stays open: what is under way is still about    *)
(* its row.                                                                *)
LEMMA HomeStays ==
  ASSUME Typed, HomeInv, modal'.kind = modal.kind, modal'.no = modal.no, modal'.id = modal.id,
         opened' = opened, modal.crossed => modal'.crossed,
         modal'.kind # "none" => modal'.editing = modal'.id \/ modal'.crossed,
         \A e \in calls' : Descends(e)
  PROVE  HomeInv'
<1> SUFFICES ASSUME modal'.kind # "none"
             PROVE  /\ modal'.no = opened' /\ opened' > 0
                    /\ modal'.editing = modal'.id \/ modal'.crossed
                    /\ \A e \in calls' : e.no = modal'.no => e.id = modal'.id \/ modal'.crossed
  BY DEF HomeInv
<1>1. modal'.no = opened' /\ opened' > 0
  BY DEF HomeInv
<1>2. ASSUME NEW e \in calls', e.no = modal'.no
      PROVE  e.id = modal'.id \/ modal'.crossed
  <2>1. Descends(e) /\ e.no # 0 /\ opened \in Nat
    BY <1>1, <1>2, NumbersOK DEF Typed
  <2>2. PICK c \in calls : e.no = c.no /\ e.id = c.id
    BY <2>1 DEF Descends, Same
  <2> QED BY <1>2, <2>2 DEF HomeInv
<1> QED BY <1>1, <1>2

LEMMA ShownStays ==
  ASSUME Typed, ShownInv, modal'.kind = modal.kind, modal'.no = modal.no, modal'.id = modal.id,
         modal.crossed => modal'.crossed, shown' = shown,
         \A a \in Alias : aliases'[a].domain = aliases[a].domain,
         \A c \in calls : c.op = "aliases" => \E e \in calls' : e.op = "aliases" /\ e.no = c.no
  PROVE  ShownInv'
<1> SUFFICES ASSUME modal'.kind = "domain"
             PROVE  OwnAliases(shown, modal.id)' \/ modal'.crossed \/ Early'
  BY DEF ShownInv
<1>1. OwnAliases(shown, modal.id) \/ modal.crossed \/ Early
  BY DEF ShownInv
<1>2. CASE OwnAliases(shown, modal.id)
  BY <1>2, OwnStay DEF OwnAliases, Typed, TypeInv, PageOK
<1>3. CASE modal.crossed
  BY <1>3
<1>4. CASE Early
  BY <1>4 DEF Early
<1> QED BY <1>1, <1>2, <1>3, <1>4

(* What is asked for in a dialog concerns the row of the dialog.           *)
LEMMA ClickActs ==
  ASSUME Typed, ActsInv, NEW e \in CallSet, Clicked(e)
  PROVE  ActsInv'
<1>1. /\ modal'.kind = modal.kind /\ modal'.no = modal.no /\ modal'.id = modal.id
      /\ modal'.editing = modal.editing /\ modal'.crossed = modal.crossed
      /\ opened' = opened /\ shown' = shown /\ aliases' = aliases
      /\ calls' = calls \cup {e} /\ CallOK(e)' /\ About(e)
      /\ e.no = modal.no /\ e.shows = modal.id /\ e.crossed = modal.crossed
  BY DEF Clicked, StaysOpen, serverVars
<1>2. /\ modal.kind # "none" =>
           /\ modal.no = opened /\ opened > 0
           /\ modal.editing = modal.id \/ modal.crossed
           /\ \A c \in calls : c.no = modal.no => c.id = modal.id \/ modal.crossed
      /\ modal.kind = "domain" => OwnAliases(shown, modal.id) \/ modal.crossed \/ Early
  BY DEF ActsInv, HomeInv, ShownInv
<1>3. e.op # "aliases" /\ e.op \notin Reading
  BY <1>1 DEF About, OnMembers, Reading, Lists
<1>4. HomeInv'
  <2>1. modal.kind # "none" => e.id = modal.id \/ modal.crossed
    BY <1>1, <1>2 DEF About
  <2> QED BY <1>1, <1>2, <2>1 DEF HomeInv
<1>5. AnswersInv'
  BY <1>1, <1>3 DEF AnswersInv, ActsInv, OwnAliases
<1>6. ShownInv'
  BY <1>1, ShownStays DEF ActsInv
<1>7. ActsOnOpen'
  <2>1. e.op \in Dialogs => e.id = e.shows \/ e.crossed
    BY <1>1, <1>2 DEF About, Dialogs, OnMembers
  <2>2. e.op = "remove" => aliases[e.alias].domain = e.shows \/ e.crossed \/ e.early
    <3> SUFFICES ASSUME e.op = "remove"
                 PROVE  aliases[e.alias].domain = e.shows \/ e.crossed \/ e.early
      OBVIOUS
    <3>1. modal.kind = "domain" /\ e.alias \in shown /\ e.early = Early
      BY <1>1 DEF About, OnMembers
    <3>2. CASE OwnAliases(shown, modal.id)
      BY <1>1, <3>1, <3>2 DEF OwnAliases
    <3>3. CASE modal.crossed
      BY <1>1, <3>3
    <3>4. CASE Early
      BY <3>1, <3>4
    <3> QED BY <1>2, <3>1, <3>2, <3>3, <3>4
  <2>3. \A c \in calls : Acts(c)
    BY DEF ActsInv, ActsOnOpen, Acts, Dialogs
  <2> QED BY <1>1, <2>1, <2>2, <2>3 DEF ActsOnOpen, Acts, Dialogs
<1> QED BY <1>4, <1>5, <1>6, <1>7 DEF ActsInv

(* A dialog that is opened starts with nothing of another one.             *)
LEMMA OpenActs ==
  ASSUME Typed, ActsInv, NEW kind, NEW x, NEW list, Opened(kind, x, list), CallsOK',
         \A e \in calls' : e \in calls \/ (e.op = "aliases" /\ e.id = x /\ e.ans = NoAnswer),
         kind = "domain" => \E e \in calls' : e.op = "aliases" /\ e.no = opened'
  PROVE  ActsInv'
<1>1. /\ modal'.no = opened' /\ opened' = opened + 1 /\ opened \in Nat /\ modal'.id = x
      /\ modal'.editing = x /\ modal'.kind = kind /\ aliases' = aliases
  BY NumbersOK DEF Opened, Typed, serverVars
<1>2. \A c \in calls : c.no \in Nat /\ c.no <= opened
  BY DEF Typed, TypeInv, CallsOK, CallOK, CallSet
<1>3. HomeInv'
  <2> SUFFICES ASSUME NEW e \in calls', e.no = modal'.no
               PROVE  e.id = modal'.id
    BY <1>1 DEF HomeInv
  <2> QED BY <1>1, <1>2
<1>4. ShownInv'
  BY <1>1 DEF ShownInv, Early
<1>5. AnswersInv'
  BY <1>1, Blanks DEF ActsInv, AnswersInv, OwnAliases
<1>6. ActsOnOpen'
  BY <1>1 DEF ActsInv, ActsOnOpen
<1> QED BY <1>3, <1>4, <1>5, <1>6 DEF ActsInv

LEMMA PageStepActs ==
  ASSUME Typed, ActsInv, PageStep
  PROVE  ActsInv'
<1>0. Typed'
  BY PageStepTypes
<1>1. CASE UNCHANGED vars
  BY <1>1 DEF vars, serverVars, pageVars, ActsInv, HomeInv, AnswersInv, ShownInv, ActsOnOpen,
              OwnAliases, Early
<1>2. CASE Cancelled
  <2>1. modal'.kind = "none" /\ aliases' = aliases /\ calls' = calls
    BY <1>2, ClosedOK DEF Cancelled, serverVars
  <2> QED BY <2>1 DEF ActsInv, HomeInv, AnswersInv, ShownInv, ActsOnOpen, OwnAliases
<1>3. CASE Ticked
  <2>1. /\ modal'.kind = modal.kind /\ aliases' = aliases /\ calls' = calls
        /\ modal'.no = modal.no /\ modal'.id = modal.id /\ modal'.editing = modal.editing
        /\ modal'.crossed = modal.crossed /\ opened' = opened /\ shown' = shown
    BY <1>3 DEF Ticked, StaysOpen, serverVars
  <2> QED BY <2>1 DEF ActsInv, HomeInv, AnswersInv, ShownInv, ActsOnOpen, OwnAliases, Early
<1>4. ASSUME NEW t \in Lists, NEW r \in CallSet, TabSelected(t, r)
      PROVE  ActsInv'
  <2>1. /\ modal' = modal /\ modal.kind = "none" /\ aliases' = aliases /\ calls' = calls \cup {r}
        /\ r.op \in Lists
    BY <1>4 DEF TabSelected, Asks, serverVars
  <2> QED BY <2>1 DEF ActsInv, HomeInv, AnswersInv, ShownInv, ActsOnOpen, OwnAliases, Lists
<1>5. ASSUME NEW x \in Domain, NEW r \in CallSet, DomainOpened(x, r)
      PROVE  ActsInv'
  <2>1. Opened("domain", x, "domains") /\ calls' = calls \cup {r} /\ r.op = "aliases"
        /\ r.id = x /\ r.ans = NoAnswer /\ r.no = opened'
    BY <1>5 DEF DomainOpened, Asks
  <2> QED BY <1>0, <2>1, OpenActs DEF Typed, TypeInv
<1>6. ASSUME NEW u \in User, UserOpened(u)
      PROVE  ActsInv'
  BY <1>0, <1>6, OpenActs DEF UserOpened, Typed, TypeInv
<1>7. ASSUME NEW e \in CallSet, Clicked(e)
      PROVE  ActsInv'
  BY <1>7, ClickActs
<1> QED BY <1>1, <1>2, <1>3, <1>4, <1>5, <1>6, <1>7 DEF PageStep

(* Other steps than those of the administrator.                            *)
LEMMA CallActs ==
  ASSUME Typed, ActsInv, NEW c \in calls,
         \A a \in Alias : aliases'[a].domain = aliases[a].domain,
         modal'.kind = modal.kind, modal'.no = modal.no, modal'.id = modal.id,
         opened' = opened, modal.crossed => modal'.crossed,
         modal'.editing = modal.editing \/ modal'.editing = modal'.id \/ modal'.crossed,
         shown' = shown, \A e \in calls' : Descends(e),
         \A b \in calls : b.op = "aliases" => \E e \in calls' : e.op = "aliases" /\ e.no = b.no
  PROVE  ActsInv'
<1>1. AnswersInv' /\ ActsOnOpen'
  BY ActsStay
<1>2. HomeInv'
  <2>1. modal'.kind # "none" => modal'.editing = modal'.id \/ modal'.crossed
    BY DEF ActsInv, HomeInv
  <2> QED BY <2>1, HomeStays DEF ActsInv
<1>3. ShownInv'
  BY ShownStays DEF ActsInv
<1> QED BY <1>1, <1>2, <1>3 DEF ActsInv

(* A row that was edited at the click of a dialog, and not of this one.    *)
LEMMA EditedActs ==
  ASSUME Typed, ActsInv, NEW c \in calls, NEW kind \in {"domain", "user"}, EditedAgain(c, kind)
  PROVE  /\ modal.crossed => modal'.crossed
         /\ modal'.editing = modal.editing \/ modal'.editing = modal'.id \/ modal'.crossed
<1>1. CASE modal.kind # kind
  BY <1>1 DEF EditedAgain, StaysOpen
<1>2. CASE modal.kind = kind
  <2>1. modal'.editing = c.id /\ modal'.crossed = (modal.crossed \/ Foreign(c, kind))
        /\ modal'.id = modal.id
    BY <1>2 DEF EditedAgain
  <2>2. CASE c.no = modal.no
    BY <1>2, <2>1, <2>2 DEF ActsInv, HomeInv
  <2>3. CASE c.no # modal.no /\ c.id # modal.id
    BY <1>2, <2>1, <2>3 DEF Foreign
  <2> QED BY <2>1, <2>2, <2>3
<1> QED BY <1>1, <1>2

LEMMA CallStepActs ==
  ASSUME Typed, ActsInv, NEW c \in calls, CallStep(c)
  PROVE  ActsInv'
<1>1. ASSUME NEW d \in CallSet, Served(c, d)
      PROVE  ActsInv'
  <2>1. /\ calls' = (calls \ {c}) \cup {d} /\ Same(c, d)
        /\ \A a \in Alias : aliases'[a].domain = aliases[a].domain
        /\ UNCHANGED <<shown, modal, opened>>
        /\ d.ans.aliases = IF c.op = "aliases" THEN AliasesOf(c.id) ELSE {}
    BY <1>1 DEF Served, Effect, pageVars
  <2>2. d.op = "aliases" => OwnAliases(d.ans.aliases, d.id)'
    <3>1. AliasesOf(c.id) \subseteq Alias /\ OwnAliases(AliasesOf(c.id), c.id)
      BY AliasesOfIn
    <3>2. (d.op = "aliases" /\ OwnAliases(AliasesOf(c.id), c.id))
             => OwnAliases(d.ans.aliases, d.id)
      BY <2>1 DEF Same
    <3>3. d.op = "aliases" => d.ans.aliases \subseteq Alias
      BY <2>1, <3>1 DEF Same
    <3> QED BY <2>1, <3>1, <3>2, <3>3, OwnStay
  <2>3. \A e \in calls' : Descends(e)
    BY <2>1, <2>2 DEF Descends
  <2>4. \A b \in calls : b.op = "aliases" => \E e \in calls' : e.op = "aliases" /\ e.no = b.no
    BY <2>1 DEF Same
  <2> QED BY <2>1, <2>3, <2>4, CallActs
<1>2. ASSUME NEW d \in CallSet, Failed(c, d)
      PROVE  ActsInv'
  <2>1. /\ calls' = (calls \ {c}) \cup {d} /\ Same(c, d) /\ d.ans = NoAnswer
        /\ aliases' = aliases /\ shown' = shown /\ opened' = opened /\ StaysOpen
        /\ modal'.crossed = modal.crossed
    BY <1>2 DEF Failed, serverVars
  <2>2. OwnAliases(d.ans.aliases, d.id)'
    BY <2>1, Blanks DEF OwnAliases
  <2>3. \A e \in calls' : Descends(e)
    BY <2>1, <2>2 DEF Descends
  <2>4. \A b \in calls : b.op = "aliases" => \E e \in calls' : e.op = "aliases" /\ e.no = b.no
    BY <2>1 DEF Same
  <2> QED BY <2>1, <2>3, <2>4, CallActs DEF StaysOpen
<1>3. CASE Dropped(c)
  <2>1. /\ calls' = calls \ {c} /\ c.op # "aliases"
        /\ aliases' = aliases /\ UNCHANGED <<shown, modal, opened>>
    BY <1>3 DEF Dropped, serverVars, pageVars
  <2> QED BY <2>1, CallActs DEF Descends
<1>4. CASE ListLoaded(c)
  <2>1. /\ calls' = calls \ {c} /\ c.op # "aliases"
        /\ aliases' = aliases /\ UNCHANGED <<shown, modal, opened>>
    BY <1>4 DEF ListLoaded, serverVars, Lists
  <2> QED BY <2>1, CallActs DEF Descends
<1>5. CASE AliasesCame(c)
  <2>1. /\ calls' = calls \ {c} /\ c.op = "aliases" /\ shown' = c.ans.aliases
        /\ aliases' = aliases /\ opened' = opened /\ StaysOpen
        /\ modal'.crossed = (modal.crossed \/ Foreign(c, "domain"))
    BY <1>5 DEF AliasesCame, serverVars
  <2>2. \A e \in calls' : Descends(e)
    BY <2>1 DEF Descends
  <2>3. AnswersInv' /\ ActsOnOpen'
    BY <2>1, <2>2, ActsStay
  <2>4. HomeInv'
    <3>1. modal'.kind # "none" => modal'.editing = modal'.id \/ modal'.crossed
      BY <2>1 DEF ActsInv, HomeInv, StaysOpen
    <3> QED BY <2>1, <2>2, <3>1, HomeStays DEF ActsInv, StaysOpen
  <2>5. ShownInv'
    <3> SUFFICES ASSUME modal'.kind = "domain"
                 PROVE  OwnAliases(shown, modal.id)' \/ modal'.crossed
      BY DEF ShownInv
    <3>1. OwnAliases(c.ans.aliases, c.id)
      BY <2>1 DEF ActsInv, AnswersInv
    <3>2. CASE c.id = modal.id
      BY <2>1, <3>1, <3>2 DEF StaysOpen, OwnAliases
    <3>3. CASE c.id # modal.id /\ c.no = modal.no
      BY <2>1, <3>3 DEF ActsInv, HomeInv, StaysOpen
    <3>4. CASE c.id # modal.id /\ c.no # modal.no
      BY <2>1, <3>4 DEF Foreign, StaysOpen
    <3> QED BY <3>2, <3>3, <3>4
  <2> QED BY <2>3, <2>4, <2>5 DEF ActsInv
<1>6. CASE UserRefreshed(c)
  <2>1. /\ calls' = calls \ {c} /\ c.op = "refresh" /\ shown' = shown
        /\ aliases' = aliases /\ opened' = opened /\ EditedAgain(c, "user")
        /\ modal'.kind = modal.kind /\ modal'.no = modal.no /\ modal'.id = modal.id
    BY <1>6 DEF UserRefreshed, serverVars, EditedAgain
  <2>2. /\ modal.crossed => modal'.crossed
        /\ modal'.editing = modal.editing \/ modal'.editing = modal'.id \/ modal'.crossed
    BY <2>1, EditedActs
  <2> QED BY <2>1, <2>2, CallActs DEF Descends
<1>7. ASSUME NEW r \in CallSet, NEW op \in Reading, NEW id, NEW no, Follows(c, r, op, id, no),
             no = 0 \/ (no = c.no /\ id = c.id), c.op # "aliases"
      PROVE  /\ \A e \in calls' : Descends(e)
             /\ \A b \in calls : b.op = "aliases" =>
                  \E e \in calls' : e.op = "aliases" /\ e.no = b.no
             /\ aliases' = aliases /\ shown' = shown /\ opened' = opened
  BY <1>7 DEF Follows, Asks, Descends, serverVars
<1>8. ASSUME NEW r \in CallSet, AliasesAsked(c, r)
      PROVE  ActsInv'
  <2>1. "aliases" \in Reading /\ c.op # "aliases" /\ Follows(c, r, "aliases", c.id, c.no)
        /\ StaysOpen /\ modal'.crossed = modal.crossed
    BY <1>8 DEF AliasesAsked, Reading, OnAliases
  <2> QED BY <1>7, <2>1, CallActs DEF StaysOpen
<1>9. ASSUME NEW r \in CallSet, MembersAsked(c, r)
      PROVE  ActsInv'
  <2>1. "refresh" \in Reading /\ c.op # "aliases" /\ Follows(c, r, "refresh", c.id, c.no)
        /\ StaysOpen /\ modal'.crossed = modal.crossed
    BY <1>9 DEF MembersAsked, Reading, OnMembers
  <2> QED BY <1>7, <2>1, CallActs DEF StaysOpen
<1>10. ASSUME NEW r \in CallSet, CatchallKnown(c, r)
       PROVE  ActsInv'
  <2>1. "domains" \in Reading /\ c.op # "aliases" /\ Follows(c, r, "domains", None, 0)
        /\ EditedAgain(c, "domain")
        /\ modal'.kind = modal.kind /\ modal'.no = modal.no /\ modal'.id = modal.id
    BY <1>10 DEF CatchallKnown, Reading, Lists, EditedAgain
  <2>2. /\ modal.crossed => modal'.crossed
        /\ modal'.editing = modal.editing \/ modal'.editing = modal'.id \/ modal'.crossed
    BY <2>1, EditedActs
  <2> QED BY <1>7, <2>1, <2>2, CallActs
<1>11. ASSUME NEW list \in Lists, NEW r \in CallSet, RowSaved(c, r, list)
       PROVE  ActsInv'
  <2>1. list \in Reading /\ c.op # "aliases" /\ Follows(c, r, list, None, 0)
        /\ (modal' = Closed \/ modal' = modal)
    BY <1>11 DEF RowSaved, Reading
  <2>2. CASE modal' = modal
    BY <1>7, <2>1, <2>2, CallActs
  <2>3. CASE modal' = Closed
    <3>1. AnswersInv' /\ ActsOnOpen'
      BY <1>7, <2>1, ActsStay
    <3>2. modal'.kind = "none"
      BY <2>3, ClosedOK
    <3> QED BY <3>1, <3>2 DEF ActsInv, HomeInv, ShownInv
  <2> QED BY <2>1, <2>2, <2>3
<1> QED BY <1>1, <1>2, <1>3, <1>4, <1>5, <1>6, <1>8, <1>9, <1>10, <1>11 DEF CallStep

LEMMA StepActs ==
  ASSUME Typed, ActsInv, [Next]_vars
  PROVE  ActsInv'
BY Steps, PageStepActs, CallStepActs

(* What is asked for in a dialog is about the row the dialog was opened    *)
(* for, whichever answers come in between, unless the answer of an earlier *)
(* dialog came while it was open or the alias was removed before its own   *)
(* aliases had come (addAlias, removeAlias, changeCatchall, saveDomain,    *)
(* saveUser and the memberships in Admin.jsx).                             *)
THEOREM DialogsActOnTheirRow == Spec => []ActsOnOpen
<1>1. Init => Typed /\ ActsInv
  BY InitTypes, InitActs
<1>2. Typed /\ ActsInv /\ [Next]_vars => (Typed /\ ActsInv)'
  BY StepTypes, StepActs
<1>3. ActsInv => ActsOnOpen
  BY DEF ActsInv
<1> QED BY <1>1, <1>2, <1>3, PTL DEF Spec

-----------------------------------------------------------------------------
(* A list is loading while it is read                                      *)

LEMMA LoadingStays ==
  ASSUME LoadingInv, tab' = tab, loading' => loading \/ InProgress(tab)',
         \A c \in calls : c.op = tab => \E e \in calls' : e.op = tab
  PROVE  LoadingInv'
BY DEF LoadingInv, InProgress

LEMMA PageStepLoading ==
  ASSUME Typed, LoadingInv, PageStep
  PROVE  LoadingInv'
<1>1. CASE UNCHANGED vars
  BY <1>1 DEF vars, pageVars, LoadingInv, InProgress
<1>2. CASE Cancelled \/ Ticked
  BY <1>2 DEF Cancelled, Ticked, LoadingInv, InProgress
<1>3. ASSUME NEW t \in Lists, NEW r \in CallSet, TabSelected(t, r)
      PROVE  LoadingInv'
  BY <1>3 DEF TabSelected, Asks, LoadingInv, InProgress
<1>4. ASSUME NEW x \in Domain, NEW r \in CallSet, DomainOpened(x, r)
      PROVE  LoadingInv'
  BY <1>4, LoadingStays DEF DomainOpened, Opened
<1>5. ASSUME NEW u \in User, UserOpened(u)
      PROVE  LoadingInv'
  BY <1>5, LoadingStays DEF UserOpened, Opened
<1>6. ASSUME NEW e \in CallSet, Clicked(e)
      PROVE  LoadingInv'
  BY <1>6, LoadingStays DEF Clicked
<1> QED BY <1>1, <1>2, <1>3, <1>4, <1>5, <1>6 DEF PageStep

LEMMA CallStepLoading ==
  ASSUME Typed, LoadingInv, NEW c \in calls, CallStep(c)
  PROVE  LoadingInv'
<1>0. tab \in Lists
  BY DEF Typed, TypeInv, PageOK
<1>1. ASSUME NEW d \in CallSet, Served(c, d) \/ Failed(c, d)
      PROVE  LoadingInv'
  <2>1. calls' = (calls \ {c}) \cup {d} /\ d.op = c.op /\ tab' = tab /\ loading' = loading
    BY <1>1 DEF Served, Failed, Effect, Same, pageVars
  <2> QED BY <2>1, LoadingStays
<1>2. CASE Dropped(c)
  BY <1>0, <1>2, LoadingStays DEF Dropped, pageVars
<1>3. CASE ListLoaded(c)
  <2>1. tab' = tab /\ calls' = calls \ {c} /\ loading' = (loading /\ c.op # tab)
    BY <1>3 DEF ListLoaded
  <2>2. CASE c.op # tab
    BY <2>1, <2>2, LoadingStays
  <2>3. CASE c.op = tab
    BY <2>1, <2>3 DEF LoadingInv
  <2> QED BY <2>2, <2>3
<1>4. CASE AliasesCame(c)
  BY <1>0, <1>4, LoadingStays DEF AliasesCame, Lists
<1>5. CASE UserRefreshed(c)
  BY <1>0, <1>5, LoadingStays DEF UserRefreshed, Lists
<1>6. ASSUME NEW r \in CallSet, AliasesAsked(c, r) \/ MembersAsked(c, r)
      PROVE  LoadingInv'
  BY <1>0, <1>6, LoadingStays DEF AliasesAsked, MembersAsked, Follows, Lists, OnAliases, OnMembers
<1>7. ASSUME NEW r \in CallSet, NEW list, Follows(c, r, list, None, 0), c.op \notin Lists,
             loading' = (loading \/ tab = list)
      PROVE  LoadingInv'
  <2>1. tab' = tab /\ calls' = (calls \ {c}) \cup {r} /\ r.op = list
    BY <1>7 DEF Follows, Asks
  <2>2. loading' => loading \/ InProgress(tab)'
    BY <1>7, <2>1 DEF InProgress
  <2> QED BY <1>0, <1>7, <2>1, <2>2, LoadingStays
<1>8. ASSUME NEW r \in CallSet, CatchallKnown(c, r)
      PROVE  LoadingInv'
  BY <1>7, <1>8 DEF CatchallKnown, Lists
<1>9. ASSUME NEW list \in Lists, NEW r \in CallSet, RowSaved(c, r, list)
      PROVE  LoadingInv'
  BY <1>7, <1>9 DEF RowSaved, Lists
<1> QED BY <1>1, <1>2, <1>3, <1>4, <1>5, <1>6, <1>8, <1>9 DEF CallStep

-----------------------------------------------------------------------------
(* A list that missed nothing tells what is stored                         *)

(* Nothing happens to the list of domains.                                 *)
LEMMA RowsStay ==
  ASSUME RowsInv, "domains" \notin behind' => "domains" \notin behind,
         domains' = domains, rows' = rows,
         \A e \in calls' : e \in calls \/ e.op # "domains",
         \A c \in calls : c.op = "domains" \/ (c.op \in OnRows /\ c.st = "ok") => c \in calls'
  PROVE  RowsInv'
<1> SUFFICES ASSUME "domains" \notin behind'
             PROVE  RowsInv'
  BY DEF RowsInv
<1>1. /\ \A b, c \in calls : b.op = "domains" /\ c.op = "domains" => b = c
      /\ \A c \in calls : c.op = "domains" =>
           c.st = "asked" \/ (c.st = "ok" /\ (c.ans.rows = domains \/ Changed(OnRows)))
      /\ rows = domains \/ Changed(OnRows) \/ \E c \in calls : c.op = "domains"
  BY DEF RowsInv, Alone, InProgress
<1>2. Changed(OnRows) => Changed(OnRows)'
  BY DEF Changed, OnRows
<1>3. Alone({"domains"})'
  BY <1>1 DEF Alone
<1>4. \A e \in calls' : e.op = "domains" =>
        e.st = "asked" \/ (e.st = "ok" /\ (e.ans.rows = domains' \/ Changed(OnRows)'))
  BY <1>1, <1>2
<1>5. rows' = domains' \/ Changed(OnRows)' \/ InProgress("domains")'
  BY <1>1, <1>2 DEF InProgress
<1> QED BY <1>3, <1>4, <1>5 DEF RowsInv

(* It is read, and by nobody else.                                         *)
LEMMA RowsAsked ==
  ASSUME "domains" \notin behind' => ~InProgress("domains"), NEW r \in calls',
         r.op = "domains", r.st = "asked", calls' \subseteq calls \cup {r}
  PROVE  RowsInv'
<1> SUFFICES ASSUME "domains" \notin behind'
             PROVE  RowsInv'
  BY DEF RowsInv
<1>1. \A e \in calls' : e.op = "domains" => e = r
  BY DEF InProgress
<1> QED BY <1>1 DEF RowsInv, Alone, InProgress

LEMMA RowsServed ==
  ASSUME Typed, RowsInv, NEW c \in calls, NEW d \in CallSet, Served(c, d)
  PROVE  RowsInv'
<1> SUFFICES ASSUME "domains" \notin behind'
             PROVE  RowsInv'
  BY DEF RowsInv
<1>1. /\ calls' = (calls \ {c}) \cup {d} /\ d.op = c.op /\ c.st = "asked"
      /\ c.op = "domains" => d.st = "ok" /\ d.ans.rows = domains'
      /\ domains' = domains \/ (c.op \in OnRows /\ d.st = "ok")
      /\ rows' = rows /\ behind' = behind
  BY DEF Served, Effect, Same, pageVars, Reading, Lists, serverVars
<1>2. /\ \A a, b \in calls : a.op = "domains" /\ b.op = "domains" => a = b
      /\ \A b \in calls : b.op = "domains" =>
           b.st = "asked" \/ (b.st = "ok" /\ (b.ans.rows = domains \/ Changed(OnRows)))
      /\ rows = domains \/ Changed(OnRows) \/ \E b \in calls : b.op = "domains"
  BY <1>1 DEF RowsInv, Alone, InProgress
<1>3. Changed(OnRows) => Changed(OnRows)'
  BY <1>1 DEF Changed
<1>4. domains' = domains \/ Changed(OnRows)'
  BY <1>1 DEF Changed
<1>5. Alone({"domains"})'
  BY <1>1, <1>2 DEF Alone
<1>6. \A e \in calls' : e.op = "domains" =>
        e.st = "asked" \/ (e.st = "ok" /\ (e.ans.rows = domains' \/ Changed(OnRows)'))
  BY <1>1, <1>2, <1>3, <1>4
<1>7. rows' = domains' \/ Changed(OnRows)' \/ InProgress("domains")'
  BY <1>1, <1>2, <1>3, <1>4 DEF InProgress
<1> QED BY <1>5, <1>6, <1>7 DEF RowsInv

LEMMA RowsLoaded ==
  ASSUME Typed, RowsInv, NEW c \in calls, ListLoaded(c)
  PROVE  RowsInv'
<1> SUFFICES ASSUME "domains" \notin behind'
             PROVE  RowsInv'
  BY DEF RowsInv
<1>1. /\ calls' = calls \ {c} /\ c.op \in Lists /\ c.st \in {"ok", "failed"}
      /\ rows' = IF c.op = "domains" /\ c.st = "ok" THEN c.ans.rows ELSE rows
      /\ domains' = domains /\ behind' = behind
  BY DEF ListLoaded, serverVars
<1>2. CASE c.op = "users"
  BY <1>1, <1>2, RowsStay DEF OnRows
<1>3. CASE c.op = "domains"
  <2>1. /\ \A b \in calls : b.op = "domains" => b = c
        /\ c.st = "ok" /\ (c.ans.rows = domains \/ Changed(OnRows))
    BY <1>1, <1>3 DEF RowsInv, Alone
  <2>2. Changed(OnRows) => Changed(OnRows)'
    BY <1>1, <1>3 DEF Changed, OnRows
  <2>3. \A e \in calls' : e.op # "domains"
    BY <1>1, <2>1
  <2> QED BY <1>1, <1>3, <2>1, <2>2, <2>3 DEF RowsInv, Alone
<1> QED BY <1>1, <1>2, <1>3 DEF Lists

LEMMA PageStepRows ==
  ASSUME Typed, RowsInv, PageStep
  PROVE  RowsInv'
<1>1. CASE UNCHANGED vars
  BY <1>1, RowsStay DEF vars, pageVars, serverVars
<1>2. CASE Cancelled \/ Ticked
  BY <1>2, RowsStay DEF Cancelled, Ticked, serverVars
<1>3. ASSUME NEW t \in Lists, NEW r \in CallSet, TabSelected(t, r)
      PROVE  RowsInv'
  <2>1. /\ calls' = calls \cup {r} /\ r.op = t /\ r.st = "asked" /\ Fetch(t)
        /\ domains' = domains /\ rows' = rows
    BY <1>3 DEF TabSelected, Asks, serverVars
  <2>2. CASE t = "domains"
    BY <2>1, <2>2, FetchDomains, RowsAsked
  <2>3. CASE t = "users"
    BY <2>1, <2>3, FetchUsers, RowsStay
  <2> QED BY <2>2, <2>3 DEF Lists
<1>4. ASSUME NEW x \in Domain, NEW r \in CallSet, DomainOpened(x, r)
      PROVE  RowsInv'
  BY <1>4, RowsStay DEF DomainOpened, Opened, Asks, serverVars
<1>5. ASSUME NEW u \in User, UserOpened(u)
      PROVE  RowsInv'
  BY <1>5, RowsStay DEF UserOpened, Opened, serverVars
<1>6. ASSUME NEW e \in CallSet, Clicked(e)
      PROVE  RowsInv'
  <2>1. e.op # "domains"
    BY <1>6 DEF Clicked, About, OnMembers
  <2> QED BY <1>6, <2>1, RowsStay DEF Clicked, serverVars
<1> QED BY <1>1, <1>2, <1>3, <1>4, <1>5, <1>6 DEF PageStep

LEMMA CallStepRows ==
  ASSUME Typed, RowsInv, NEW c \in calls, CallStep(c)
  PROVE  RowsInv'
<1>1. ASSUME NEW d \in CallSet, Served(c, d) \/ Failed(c, d)
      PROVE  RowsInv'
  BY <1>1, RowsServed DEF Failed, RowsInv, Lists
<1>2. CASE Dropped(c)
  BY <1>2, RowsStay DEF Dropped, pageVars, serverVars, Lists
<1>3. CASE ListLoaded(c)
  BY <1>3, RowsLoaded
<1>4. CASE AliasesCame(c)
  BY <1>4, RowsStay DEF AliasesCame, serverVars, OnRows
<1>5. CASE UserRefreshed(c)
  BY <1>5, RowsStay DEF UserRefreshed, serverVars, OnRows
<1>6. ASSUME NEW r \in CallSet, AliasesAsked(c, r)
      PROVE  RowsInv'
  BY <1>6, RowsStay DEF AliasesAsked, Follows, Asks, serverVars, OnAliases, OnRows
<1>7. ASSUME NEW r \in CallSet, MembersAsked(c, r)
      PROVE  RowsInv'
  BY <1>7, RowsStay, FetchUsers DEF MembersAsked, Follows, Asks, serverVars, OnMembers, OnRows
<1>8. ASSUME NEW r \in CallSet, CatchallKnown(c, r)
      PROVE  RowsInv'
  BY <1>8, RowsAsked, FetchDomains DEF CatchallKnown, Follows, Asks
<1>9. ASSUME NEW list \in Lists, NEW r \in CallSet, RowSaved(c, r, list)
      PROVE  RowsInv'
  <2>1. /\ calls' = (calls \ {c}) \cup {r} /\ r.op = list /\ r.st = "asked" /\ Fetch(list)
        /\ domains' = domains /\ rows' = rows
        /\ (list = "users" => c.op = "save user")
    BY <1>9 DEF RowSaved, Follows, Asks, serverVars
  <2>2. CASE list = "domains"
    BY <2>1, <2>2, FetchDomains, RowsAsked
  <2>3. CASE list = "users"
    BY <2>1, <2>3, FetchUsers, RowsStay DEF OnRows
  <2> QED BY <2>2, <2>3 DEF Lists
<1> QED BY <1>1, <1>2, <1>3, <1>4, <1>5, <1>6, <1>7, <1>8, <1>9 DEF CallStep

(* The same for the list of users, which two kinds of requests read.       *)
OfPeople == {"users", "refresh"}

LEMMA PeopleStay ==
  ASSUME PeopleInv, "users" \notin behind' => "users" \notin behind,
         members' = members, people' = people,
         \A e \in calls' : e \in calls \/ e.op \notin OfPeople,
         \A c \in calls : c.op \in OfPeople \/ (c.op \in OnMembers /\ c.st = "ok") => c \in calls'
  PROVE  PeopleInv'
<1> SUFFICES ASSUME "users" \notin behind'
             PROVE  PeopleInv'
  BY DEF PeopleInv
<1>1. /\ \A b, c \in calls : b.op \in OfPeople /\ c.op \in OfPeople => b = c
      /\ \A c \in calls : c.op \in OfPeople =>
           c.st = "asked" \/ (c.st = "ok" /\ (c.ans.people = members \/ Changed(OnMembers)))
      /\ people = members \/ Changed(OnMembers) \/ \E c \in calls : c.op \in OfPeople
  BY DEF PeopleInv, Alone, OfPeople
<1>2. Changed(OnMembers) => Changed(OnMembers)'
  BY DEF Changed
<1>3. Alone(OfPeople)'
  BY <1>1 DEF Alone
<1>4. \A e \in calls' : e.op \in OfPeople =>
        e.st = "asked" \/ (e.st = "ok" /\ (e.ans.people = members' \/ Changed(OnMembers)'))
  BY <1>1, <1>2
<1>5. people' = members' \/ Changed(OnMembers)' \/ \E e \in calls' : e.op \in OfPeople
  BY <1>1, <1>2
<1> QED BY <1>3, <1>4, <1>5 DEF PeopleInv, OfPeople

LEMMA PeopleAsked ==
  ASSUME "users" \notin behind' => ~InProgress("users") /\ ~InProgress("refresh"),
         NEW r \in calls', r.op \in OfPeople, r.st = "asked", calls' \subseteq calls \cup {r}
  PROVE  PeopleInv'
<1> SUFFICES ASSUME "users" \notin behind'
             PROVE  PeopleInv'
  BY DEF PeopleInv
<1>1. \A e \in calls' : e.op \in {"users", "refresh"} => e = r
  BY DEF InProgress, OfPeople
<1> QED BY <1>1 DEF PeopleInv, Alone, OfPeople

LEMMA PeopleServed ==
  ASSUME Typed, PeopleInv, NEW c \in calls, NEW d \in CallSet, Served(c, d)
  PROVE  PeopleInv'
<1> SUFFICES ASSUME "users" \notin behind'
             PROVE  PeopleInv'
  BY DEF PeopleInv
<1>1. /\ calls' = (calls \ {c}) \cup {d} /\ d.op = c.op /\ c.st = "asked"
      /\ c.op \in OfPeople => d.st = "ok" /\ d.ans.people = members'
      /\ members' = members \/ (c.op \in OnMembers /\ d.st = "ok")
      /\ people' = people /\ behind' = behind
  BY DEF Served, Effect, Same, pageVars, Reading, Lists, serverVars, OfPeople
<1>2. /\ \A a, b \in calls : a.op \in OfPeople /\ b.op \in OfPeople => a = b
      /\ \A b \in calls : b.op \in OfPeople =>
           b.st = "asked" \/ (b.st = "ok" /\ (b.ans.people = members \/ Changed(OnMembers)))
      /\ people = members \/ Changed(OnMembers) \/ \E b \in calls : b.op \in OfPeople
  BY <1>1 DEF PeopleInv, Alone, OfPeople
<1>3. Changed(OnMembers) => Changed(OnMembers)'
  BY <1>1 DEF Changed
<1>4. members' = members \/ Changed(OnMembers)'
  BY <1>1 DEF Changed
<1>5. Alone(OfPeople)'
  BY <1>1, <1>2 DEF Alone
<1>6. \A e \in calls' : e.op \in OfPeople =>
        e.st = "asked" \/ (e.st = "ok" /\ (e.ans.people = members' \/ Changed(OnMembers)'))
  BY <1>1, <1>2, <1>3, <1>4
<1>7. people' = members' \/ Changed(OnMembers)' \/ \E e \in calls' : e.op \in OfPeople
  BY <1>1, <1>2, <1>3, <1>4
<1> QED BY <1>5, <1>6, <1>7 DEF PeopleInv, OfPeople

(* The list is read, and the answer shown.                                 *)
LEMMA PeopleLoaded ==
  ASSUME Typed, PeopleInv, NEW c \in calls, c.op \in OfPeople, c.st # "asked",
         calls' = calls \ {c}, members' = members, behind' = behind,
         c.st = "ok" => people' = c.ans.people
  PROVE  PeopleInv'
<1> SUFFICES ASSUME "users" \notin behind'
             PROVE  PeopleInv'
  BY DEF PeopleInv
<1>1. /\ \A b \in calls : b.op \in OfPeople => b = c
      /\ c.st = "ok" /\ (c.ans.people = members \/ Changed(OnMembers))
  BY DEF PeopleInv, Alone, OfPeople
<1>2. Changed(OnMembers) => Changed(OnMembers)'
  BY DEF Changed, OnMembers, OfPeople
<1>3. \A e \in calls' : e.op \notin {"users", "refresh"}
  BY <1>1 DEF OfPeople
<1> QED BY <1>1, <1>2, <1>3 DEF PeopleInv, Alone

LEMMA PageStepPeople ==
  ASSUME Typed, PeopleInv, PageStep
  PROVE  PeopleInv'
<1>1. CASE UNCHANGED vars
  BY <1>1, PeopleStay DEF vars, pageVars, serverVars
<1>2. CASE Cancelled \/ Ticked
  BY <1>2, PeopleStay DEF Cancelled, Ticked, serverVars
<1>3. ASSUME NEW t \in Lists, NEW r \in CallSet, TabSelected(t, r)
      PROVE  PeopleInv'
  <2>1. /\ calls' = calls \cup {r} /\ r.op = t /\ r.st = "asked" /\ Fetch(t)
        /\ members' = members /\ people' = people
    BY <1>3 DEF TabSelected, Asks, serverVars
  <2>2. CASE t = "users"
    BY <2>1, <2>2, FetchUsers, PeopleAsked DEF OfPeople
  <2>3. CASE t = "domains"
    BY <2>1, <2>3, FetchDomains, PeopleStay DEF OfPeople
  <2> QED BY <2>2, <2>3 DEF Lists
<1>4. ASSUME NEW x \in Domain, NEW r \in CallSet, DomainOpened(x, r)
      PROVE  PeopleInv'
  BY <1>4, PeopleStay DEF DomainOpened, Opened, Asks, serverVars, OfPeople
<1>5. ASSUME NEW u \in User, UserOpened(u)
      PROVE  PeopleInv'
  BY <1>5, PeopleStay DEF UserOpened, Opened, serverVars
<1>6. ASSUME NEW e \in CallSet, Clicked(e)
      PROVE  PeopleInv'
  <2>1. e.op \notin OfPeople
    BY <1>6 DEF Clicked, About, OnMembers, OfPeople
  <2> QED BY <1>6, <2>1, PeopleStay DEF Clicked, serverVars
<1> QED BY <1>1, <1>2, <1>3, <1>4, <1>5, <1>6 DEF PageStep

LEMMA CallStepPeople ==
  ASSUME Typed, PeopleInv, NEW c \in calls, CallStep(c)
  PROVE  PeopleInv'
<1>1. ASSUME NEW d \in CallSet, Served(c, d) \/ Failed(c, d)
      PROVE  PeopleInv'
  BY <1>1, PeopleServed DEF Failed, PeopleInv, Lists
<1>2. CASE Dropped(c)
  <2>1. /\ calls' = calls \ {c} /\ c.st = "failed" /\ members' = members /\ people' = people
        /\ behind' = behind
    BY <1>2 DEF Dropped, pageVars, serverVars
  <2>2. CASE c.op = "refresh"
    BY <2>1, <2>2, PeopleLoaded DEF OfPeople
  <2>3. CASE c.op # "refresh"
    <3>1. c.op \notin OfPeople
      BY <1>2, <2>3 DEF Dropped, Lists, OfPeople
    <3> QED BY <2>1, <3>1, PeopleStay
  <2> QED BY <2>2, <2>3
<1>3. CASE ListLoaded(c)
  <2>1. CASE c.op = "users"
    BY <1>3, <2>1, PeopleLoaded DEF ListLoaded, OfPeople, serverVars
  <2>2. CASE c.op = "domains"
    BY <1>3, <2>2, PeopleStay DEF ListLoaded, OfPeople, OnMembers, serverVars
  <2> QED BY <1>3, <2>1, <2>2 DEF ListLoaded, Lists
<1>4. CASE AliasesCame(c)
  BY <1>4, PeopleStay DEF AliasesCame, serverVars, OnMembers, OfPeople
<1>5. CASE UserRefreshed(c)
  BY <1>5, PeopleLoaded DEF UserRefreshed, serverVars, OfPeople
<1>6. ASSUME NEW r \in CallSet, AliasesAsked(c, r)
      PROVE  PeopleInv'
  BY <1>6, PeopleStay DEF AliasesAsked, Follows, Asks, serverVars, OnAliases, OnMembers, OfPeople
<1>7. ASSUME NEW r \in CallSet, MembersAsked(c, r)
      PROVE  PeopleInv'
  BY <1>7, PeopleAsked, FetchUsers DEF MembersAsked, Follows, Asks, OfPeople
<1>8. ASSUME NEW r \in CallSet, CatchallKnown(c, r)
      PROVE  PeopleInv'
  BY <1>8, PeopleStay, FetchDomains
     DEF CatchallKnown, Follows, Asks, serverVars, OnMembers, OfPeople
<1>9. ASSUME NEW list \in Lists, NEW r \in CallSet, RowSaved(c, r, list)
      PROVE  PeopleInv'
  <2>1. /\ calls' = (calls \ {c}) \cup {r} /\ r.op = list /\ r.st = "asked" /\ Fetch(list)
        /\ members' = members /\ people' = people
        /\ c.op \in {"toggle", "save domain", "save user"}
    BY <1>9 DEF RowSaved, Follows, Asks, serverVars
  <2>2. CASE list = "users"
    BY <2>1, <2>2, FetchUsers, PeopleAsked DEF OfPeople
  <2>3. CASE list = "domains"
    BY <2>1, <2>3, FetchDomains, PeopleStay DEF OfPeople, OnMembers
  <2> QED BY <2>2, <2>3 DEF Lists
<1> QED BY <1>1, <1>2, <1>3, <1>4, <1>5, <1>6, <1>7, <1>8, <1>9 DEF CallStep

-----------------------------------------------------------------------------
(* A dialog of a domain that is not mixed up tells what is stored          *)

DialogInv == DomainInv /\ AliasesInv /\ CatchallInv

(* There is no such dialog.                                                *)
LEMMA NoDialog ==
  ASSUME modal'.mixed \/ modal'.kind # "domain"
  PROVE  DialogInv'
BY DEF DialogInv, DomainInv, AliasesInv, CatchallInv

LEMMA DomainStays ==
  ASSUME DomainInv, modal'.kind = modal.kind, modal'.id = modal.id,
         modal'.editing \in {modal.editing, modal.id}, modal.mixed => modal'.mixed,
         \A e \in calls' : \/ e \in calls
                           \/ \E c \in calls : Same(c, e)
                           \/ /\ ~modal.mixed /\ modal.kind = "domain"
                              /\ e.op \in DomainOps /\ (e.op # "domains" => e.id = modal.id)
  PROVE  DomainInv'
BY DEF DomainInv, Same

(* Nothing happens to the aliases, the catch-all user.                     *)
LEMMA AliasesStay ==
  ASSUME AliasesInv, modal'.kind = modal.kind, modal'.id = modal.id,
         modal.mixed => modal'.mixed, shown' = shown, aliases' = aliases,
         \A e \in calls' : e \in calls \/ e.op # "aliases",
         \A c \in calls : c.op = "aliases" \/ (c.op \in OnAliases /\ c.st = "ok") => c \in calls'
  PROVE  AliasesInv'
<1> SUFFICES ASSUME ~modal'.mixed, modal'.kind = "domain"
             PROVE  AliasesInv'
  BY DEF AliasesInv
<1>0. AliasesOf(modal.id)' = AliasesOf(modal.id)
  BY DEF AliasesOf, Alias
<1>1. /\ \A b, c \in calls : b.op = "aliases" /\ c.op = "aliases" => b = c
      /\ \A c \in calls : c.op = "aliases" =>
           \/ c.st = "asked"
           \/ c.st = "ok" /\ (c.ans.aliases = AliasesOf(modal.id) \/ Changed(OnAliases))
      /\ shown = AliasesOf(modal.id) \/ Changed(OnAliases) \/ \E c \in calls : c.op = "aliases"
  BY DEF AliasesInv, Alone, InProgress
<1>2. Changed(OnAliases) => Changed(OnAliases)'
  BY DEF Changed
<1>3. Alone({"aliases"})'
  BY <1>1 DEF Alone
<1>4. \A e \in calls' : e.op = "aliases" =>
        \/ e.st = "asked"
        \/ e.st = "ok" /\ (e.ans.aliases = AliasesOf(modal.id)' \/ Changed(OnAliases)')
  BY <1>0, <1>1, <1>2
<1>5. shown' = AliasesOf(modal.id)' \/ Changed(OnAliases)' \/ InProgress("aliases")'
  BY <1>0, <1>1, <1>2 DEF InProgress
<1> QED BY <1>3, <1>4, <1>5 DEF AliasesInv

LEMMA CatchallStays ==
  ASSUME CatchallInv, modal'.kind = modal.kind, modal'.id = modal.id,
         modal.mixed => modal'.mixed, modal'.catchall = modal.catchall,
         modal.kind = "domain" => domains'[modal.id].catchall = domains[modal.id].catchall,
         \A e \in calls' : e \in calls \/ e.op # "catchall",
         \A c \in calls : c.op = "catchall" /\ c.st = "ok" => c \in calls'
  PROVE  CatchallInv'
<1> SUFFICES ASSUME ~modal'.mixed, modal'.kind = "domain"
             PROVE  CatchallInv'
  BY DEF CatchallInv
<1>1. /\ \A b, c \in calls : b.op = "catchall" /\ c.op = "catchall" => b = c
      /\ \A c \in calls : c.op = "catchall" =>
           c.st = "asked" \/ (c.st = "ok" /\ c.arg = domains[modal.id].catchall)
      /\ modal.catchall = domains[modal.id].catchall \/ Changed({"catchall"})
  BY DEF CatchallInv, Alone
<1>2. Changed({"catchall"}) => Changed({"catchall"})'
  BY DEF Changed
<1>3. Alone({"catchall"})'
  BY <1>1 DEF Alone
<1> QED BY <1>1, <1>2, <1>3 DEF CatchallInv

(* The aliases are read, and by nobody else.                               *)
LEMMA AliasesAlone ==
  ASSUME ~modal'.mixed => ~InProgress("aliases"), NEW r \in calls',
         r.op = "aliases", r.st = "asked", calls' \subseteq calls \cup {r}
  PROVE  AliasesInv'
<1> SUFFICES ASSUME ~modal'.mixed
             PROVE  AliasesInv'
  BY DEF AliasesInv
<1>1. \A e \in calls' : e.op = "aliases" => e = r
  BY DEF InProgress
<1> QED BY <1>1 DEF AliasesInv, Alone, InProgress

(* A list that missed nothing is right when nothing is under way.          *)
LEMMA ListsAtRest ==
  ASSUME calls = {}
  PROVE  /\ RowsInv /\ "domains" \notin behind => rows = domains
         /\ PeopleInv /\ "users" \notin behind => people = members
BY DEF RowsInv, PeopleInv, Changed, InProgress

LEMMA DomainOpenedTells ==
  ASSUME Typed, RowsInv, NEW x \in Domain, NEW r \in CallSet, DomainOpened(x, r)
  PROVE  DialogInv'
<1> SUFFICES ASSUME ~modal'.mixed
             PROVE  DialogInv'
  BY NoDialog
<1>1. /\ modal'.id = x /\ modal'.editing = x /\ modal'.catchall = rows[x].catchall
      /\ modal'.mixed = (calls # {} \/ "domains" \in behind)
      /\ calls' = calls \cup {r} /\ domains' = domains
      /\ r.op = "aliases" /\ r.id = x /\ r.st = "asked"
  BY DEF DomainOpened, Opened, Asks, serverVars
<1>2. calls = {} /\ "domains" \notin behind
  BY <1>1
<1>3. rows = domains
  BY <1>2, ListsAtRest
<1>4. DomainInv'
  BY <1>1, <1>2 DEF DomainInv, DomainOps
<1>5. AliasesInv'
  BY <1>1, <1>2, AliasesAlone DEF InProgress
<1>6. CatchallInv'
  BY <1>1, <1>2, <1>3 DEF CatchallInv, Alone
<1> QED BY <1>4, <1>5, <1>6 DEF DialogInv

LEMMA ClickTells ==
  ASSUME Typed, DialogInv, NEW e \in CallSet, Clicked(e)
  PROVE  DialogInv'
<1> SUFFICES ASSUME ~modal'.mixed, modal'.kind = "domain"
             PROVE  DialogInv'
  BY NoDialog
<1>1. /\ modal'.kind = modal.kind /\ modal'.id = modal.id /\ modal'.editing = modal.editing
      /\ modal'.catchall = modal.catchall /\ ~modal.mixed /\ modal.kind = "domain"
      /\ calls' = calls \cup {e} /\ e.st = "asked" /\ About(e)
      /\ shown' = shown /\ aliases' = aliases /\ domains' = domains
  BY DEF Clicked, StaysOpen, serverVars
<1>2. /\ e.op \in {"create", "remove", "catchall", "save domain"} /\ e.id = modal.id
      /\ e.op = "catchall" => ~InProgress("catchall")
  BY <1>1 DEF About, DialogInv, DomainInv
<1>3. DomainInv'
  BY <1>1, <1>2, DomainStays DEF DialogInv, DomainOps
<1>4. AliasesInv'
  BY <1>1, <1>2, AliasesStay DEF DialogInv
<1>5. CatchallInv'
  <2>1. CASE e.op # "catchall"
    BY <1>1, <2>1, CatchallStays DEF DialogInv
  <2>2. CASE e.op = "catchall"
    <3>1. \A b \in calls : b.op # "catchall"
      BY <1>2, <2>2 DEF InProgress
    <3>2. modal.catchall = domains[modal.id].catchall
      BY <1>1, <3>1 DEF DialogInv, CatchallInv, Changed
    <3>3. \A b \in calls' : b.op = "catchall" => b = e
      BY <1>1, <3>1
    <3> QED BY <1>1, <3>2, <3>3 DEF CatchallInv, Alone
  <2> QED BY <2>1, <2>2
<1> QED BY <1>3, <1>4, <1>5 DEF DialogInv

LEMMA ServedTells ==
  ASSUME Typed, DialogInv, NEW c \in calls, NEW d \in CallSet, Served(c, d)
  PROVE  DialogInv'
<1> SUFFICES ASSUME ~modal'.mixed, modal'.kind = "domain"
             PROVE  DialogInv'
  BY NoDialog
<1>1. /\ modal' = modal /\ shown' = shown /\ ~modal.mixed /\ modal.kind = "domain"
      /\ calls' = (calls \ {c}) \cup {d} /\ Same(c, d) /\ d.op = c.op /\ c.st = "asked"
      /\ d.arg = c.arg
      /\ c.op = "aliases" => d.st = "ok" /\ aliases' = aliases /\ d.ans.aliases = AliasesOf(c.id)
      /\ aliases' = aliases \/ (c.op \in OnAliases /\ d.st = "ok")
      /\ c.op # "catchall" =>
           \A x \in Domain : domains'[x].catchall = domains[x].catchall
      /\ c.op = "catchall" => d.st = "ok" /\ domains'[c.id].catchall = c.arg
  BY DEF Served, Effect, Same, pageVars, serverVars, Reading
<1>2. /\ c.op # "domains" => c.id = modal.id
      /\ modal.id \in Domain
  BY <1>1, ModalFields DEF DialogInv, DomainInv, Typed, TypeInv
<1>3. DomainInv'
  BY <1>1, DomainStays DEF DialogInv
<1>4. AliasesInv'
  <2>1. /\ \A a, b \in calls : a.op = "aliases" /\ b.op = "aliases" => a = b
        /\ \A b \in calls : b.op = "aliases" =>
             \/ b.st = "asked"
             \/ b.st = "ok" /\ (b.ans.aliases = AliasesOf(modal.id) \/ Changed(OnAliases))
        /\ shown = AliasesOf(modal.id) \/ Changed(OnAliases) \/ \E b \in calls : b.op = "aliases"
    BY <1>1 DEF DialogInv, AliasesInv, Alone, InProgress
  <2>2. Changed(OnAliases) => Changed(OnAliases)'
    BY <1>1 DEF Changed
  <2>3. AliasesOf(modal.id)' = AliasesOf(modal.id) \/ Changed(OnAliases)'
    <3>1. CASE aliases' = aliases
      BY <1>1, <3>1 DEF AliasesOf, Alias
    <3>2. CASE c.op \in OnAliases /\ d.st = "ok"
      BY <1>1, <3>2 DEF Changed
    <3> QED BY <1>1, <3>1, <3>2
  <2>4. c.op = "aliases" => d.st = "ok" /\ d.ans.aliases = AliasesOf(modal.id)'
    BY <1>1, <1>2 DEF AliasesOf, Alias
  <2>5. Alone({"aliases"})'
    BY <1>1, <2>1 DEF Alone
  <2>6. \A e \in calls' : e.op = "aliases" =>
          \/ e.st = "asked"
          \/ e.st = "ok" /\ (e.ans.aliases = AliasesOf(modal.id)' \/ Changed(OnAliases)')
    BY <1>1, <2>1, <2>2, <2>3, <2>4
  <2>7. shown' = AliasesOf(modal.id)' \/ Changed(OnAliases)' \/ InProgress("aliases")'
    BY <1>1, <2>1, <2>2, <2>3 DEF InProgress
  <2> QED BY <2>5, <2>6, <2>7 DEF AliasesInv
<1>5. CatchallInv'
  <2>1. CASE c.op # "catchall"
    BY <1>1, <1>2, <2>1, CatchallStays DEF DialogInv
  <2>2. CASE c.op = "catchall"
    <3>1. \A b \in calls' : b.op = "catchall" => b = d
      BY <1>1, <2>2 DEF DialogInv, CatchallInv, Alone
    <3>2. d.st = "ok" /\ d.arg = domains'[modal.id].catchall /\ d \in calls'
      BY <1>1, <1>2, <2>2
    <3> QED BY <1>1, <2>2, <3>1, <3>2 DEF CatchallInv, Alone, Changed
  <2> QED BY <2>1, <2>2
<1> QED BY <1>3, <1>4, <1>5 DEF DialogInv

LEMMA AliasesCameTells ==
  ASSUME Typed, DialogInv, NEW c \in calls, AliasesCame(c)
  PROVE  DialogInv'
<1> SUFFICES ASSUME ~modal'.mixed, modal'.kind = "domain"
             PROVE  DialogInv'
  BY NoDialog
<1>1. /\ calls' = calls \ {c} /\ c.op = "aliases" /\ c.st \in {"ok", "failed"}
      /\ shown' = c.ans.aliases /\ aliases' = aliases /\ domains' = domains
      /\ modal'.kind = modal.kind /\ modal'.id = modal.id /\ modal'.editing = modal.editing
      /\ modal'.catchall = modal.catchall /\ ~modal.mixed /\ modal.kind = "domain"
  BY DEF AliasesCame, StaysOpen, serverVars
<1>2. DomainInv' /\ CatchallInv'
  BY <1>1, DomainStays, CatchallStays DEF DialogInv
<1>3. AliasesInv'
  <2>1. /\ \A b \in calls : b.op = "aliases" => b = c
        /\ c.st = "ok" /\ (c.ans.aliases = AliasesOf(modal.id) \/ Changed(OnAliases))
    BY <1>1 DEF DialogInv, AliasesInv, Alone
  <2>2. Changed(OnAliases) => Changed(OnAliases)'
    BY <1>1 DEF Changed, OnAliases
  <2>3. \A e \in calls' : e.op # "aliases"
    BY <1>1, <2>1
  <2>4. AliasesOf(modal.id)' = AliasesOf(modal.id)
    BY <1>1 DEF AliasesOf, Alias
  <2> QED BY <1>1, <2>1, <2>2, <2>3, <2>4 DEF AliasesInv, Alone
<1> QED BY <1>2, <1>3 DEF DialogInv

LEMMA CatchallKnownTells ==
  ASSUME Typed, DialogInv, NEW c \in calls, NEW r \in CallSet, CatchallKnown(c, r)
  PROVE  DialogInv'
<1> SUFFICES ASSUME ~modal'.mixed, modal'.kind = "domain"
             PROVE  DialogInv'
  BY NoDialog
<1>1. /\ modal'.kind = modal.kind /\ modal'.id = modal.id /\ ~modal.mixed
      /\ modal.kind = "domain" /\ modal'.editing = c.id /\ modal'.catchall = c.arg
      /\ calls' = (calls \ {c}) \cup {r} /\ c.op = "catchall" /\ c.st = "ok"
      /\ r.op = "domains" /\ shown' = shown /\ aliases' = aliases /\ domains' = domains
  BY DEF CatchallKnown, EditedAgain, Follows, Asks, serverVars
<1>2. c.id = modal.id
  BY <1>1 DEF DialogInv, DomainInv
<1>3. DomainInv'
  BY <1>1, <1>2, DomainStays DEF DialogInv, DomainOps
<1>4. AliasesInv'
  BY <1>1, AliasesStay DEF DialogInv, OnAliases
<1>5. CatchallInv'
  <2>1. /\ \A b \in calls : b.op = "catchall" => b = c
        /\ c.arg = domains[modal.id].catchall
    BY <1>1 DEF DialogInv, CatchallInv, Alone
  <2>2. \A e \in calls' : e.op # "catchall"
    BY <1>1, <2>1
  <2> QED BY <1>1, <2>1, <2>2 DEF CatchallInv, Alone
<1> QED BY <1>3, <1>4, <1>5 DEF DialogInv

LEMMA PageStepDialog ==
  ASSUME Typed, RowsInv, DialogInv, PageStep
  PROVE  DialogInv'
<1>1. CASE UNCHANGED vars
  BY <1>1, DomainStays, AliasesStay, CatchallStays DEF vars, pageVars, serverVars, DialogInv
<1>2. CASE Cancelled
  BY <1>2, ClosedOK, NoDialog DEF Cancelled
<1>3. CASE Ticked
  BY <1>3, DomainStays, AliasesStay, CatchallStays DEF Ticked, StaysOpen, serverVars, DialogInv
<1>4. ASSUME NEW t \in Lists, NEW r \in CallSet, TabSelected(t, r)
      PROVE  DialogInv'
  BY <1>4, NoDialog DEF TabSelected
<1>5. ASSUME NEW x \in Domain, NEW r \in CallSet, DomainOpened(x, r)
      PROVE  DialogInv'
  BY <1>5, DomainOpenedTells
<1>6. ASSUME NEW u \in User, UserOpened(u)
      PROVE  DialogInv'
  BY <1>6, NoDialog DEF UserOpened, Opened
<1>7. ASSUME NEW e \in CallSet, Clicked(e)
      PROVE  DialogInv'
  BY <1>7, ClickTells
<1> QED BY <1>1, <1>2, <1>3, <1>4, <1>5, <1>6, <1>7 DEF PageStep

LEMMA CallStepDialog ==
  ASSUME Typed, DialogInv, NEW c \in calls, CallStep(c)
  PROVE  DialogInv'
<1>1. ASSUME NEW d \in CallSet, Served(c, d) \/ Failed(c, d)
      PROVE  DialogInv'
  BY <1>1, ServedTells, NoDialog DEF Failed
<1>2. CASE Dropped(c)
  BY <1>2, DomainStays, AliasesStay, CatchallStays
     DEF Dropped, pageVars, serverVars, DialogInv
<1>3. CASE ListLoaded(c)
  BY <1>3, DomainStays, AliasesStay, CatchallStays
     DEF ListLoaded, serverVars, DialogInv, Lists, OnAliases
<1>4. CASE AliasesCame(c)
  BY <1>4, AliasesCameTells
<1>5. CASE UserRefreshed(c)
  <2>1. modal'.mixed \/ modal'.kind # "domain"
    BY <1>5 DEF UserRefreshed, EditedAgain, DialogInv, DomainInv, DomainOps
  <2> QED BY <2>1, NoDialog
<1>6. ASSUME NEW r \in CallSet, AliasesAsked(c, r)
      PROVE  DialogInv'
  <2> SUFFICES ASSUME ~modal'.mixed, modal'.kind = "domain"
               PROVE  DialogInv'
    BY NoDialog
  <2>1. /\ modal'.kind = modal.kind /\ modal'.id = modal.id /\ modal'.editing = modal.editing
        /\ modal'.catchall = modal.catchall /\ ~modal.mixed /\ modal.kind = "domain"
        /\ ~InProgress("aliases") /\ domains' = domains
        /\ calls' = (calls \ {c}) \cup {r} /\ r.op = "aliases" /\ r.id = c.id /\ r.st = "asked"
        /\ c.op \in OnAliases
    BY <1>6 DEF AliasesAsked, StaysOpen, Follows, Asks, serverVars
  <2>2. DomainInv'
    BY <2>1, DomainStays DEF DialogInv, DomainInv, DomainOps, OnAliases
  <2>3. AliasesInv'
    BY <2>1, AliasesAlone
  <2>4. CatchallInv'
    BY <2>1, CatchallStays DEF DialogInv, OnAliases
  <2> QED BY <2>2, <2>3, <2>4 DEF DialogInv
<1>7. ASSUME NEW r \in CallSet, MembersAsked(c, r)
      PROVE  DialogInv'
  <2>1. modal'.mixed \/ modal'.kind # "domain"
    BY <1>7 DEF MembersAsked, StaysOpen, DialogInv, DomainInv, DomainOps, OnMembers
  <2> QED BY <2>1, NoDialog
<1>8. ASSUME NEW r \in CallSet, CatchallKnown(c, r)
      PROVE  DialogInv'
  BY <1>8, CatchallKnownTells
<1>9. ASSUME NEW list \in Lists, NEW r \in CallSet, RowSaved(c, r, list)
      PROVE  DialogInv'
  <2>1. /\ calls' = (calls \ {c}) \cup {r} /\ r.op = list
        /\ list = IF c.op = "save user" THEN "users" ELSE "domains"
        /\ c.op \in {"toggle", "save domain", "save user"}
        /\ shown' = shown /\ aliases' = aliases /\ domains' = domains
        /\ (modal' = Closed \/ modal' = modal)
    BY <1>9 DEF RowSaved, Follows, Asks, serverVars
  <2>2. CASE modal' = Closed
    BY <2>2, ClosedOK, NoDialog
  <2>3. CASE modal' = modal
    <3> SUFFICES ASSUME ~modal.mixed, modal.kind = "domain"
                 PROVE  DialogInv'
      BY <2>3, NoDialog
    <3>1. list = "domains"
      BY <2>1 DEF DialogInv, DomainInv, DomainOps
    <3>2. DomainInv'
      BY <2>1, <2>3, <3>1, DomainStays DEF DialogInv, DomainOps
    <3>3. AliasesInv'
      BY <2>1, <2>3, <3>1, AliasesStay DEF DialogInv, OnAliases
    <3>4. CatchallInv'
      BY <2>1, <2>3, <3>1, CatchallStays DEF DialogInv
    <3> QED BY <3>2, <3>3, <3>4 DEF DialogInv
  <2> QED BY <2>1, <2>2, <2>3
<1> QED BY <1>1, <1>2, <1>3, <1>4, <1>5, <1>6, <1>7, <1>8, <1>9 DEF CallStep

-----------------------------------------------------------------------------
(* A dialog of a user that is not mixed up tells what is stored            *)

MembersInv == UserInv /\ RolesInv

LEMMA NoUserDialog ==
  ASSUME modal'.mixed \/ modal'.kind # "user"
  PROVE  MembersInv'
BY DEF MembersInv, UserInv, RolesInv

LEMMA UserStays ==
  ASSUME UserInv, modal'.kind = modal.kind, modal'.id = modal.id,
         modal'.editing \in {modal.editing, modal.id}, modal.mixed => modal'.mixed,
         \A e \in calls' : \/ e \in calls
                           \/ \E c \in calls : Same(c, e)
                           \/ /\ ~modal.mixed /\ modal.kind = "user"
                              /\ e.op \in OfUser /\ e.id = modal.id
  PROVE  UserInv'
BY DEF UserInv, Same

LEMMA RolesStay ==
  ASSUME RolesInv, modal'.kind = modal.kind, modal'.id = modal.id,
         modal.mixed => modal'.mixed, modal'.roles = modal.roles, members' = members,
         \A e \in calls' : e \in calls \/ e.op # "refresh",
         \A c \in calls : c.op = "refresh" \/ (c.op \in OnMembers /\ c.st = "ok") => c \in calls'
  PROVE  RolesInv'
<1> SUFFICES ASSUME ~modal'.mixed, modal'.kind = "user"
             PROVE  RolesInv'
  BY DEF RolesInv
<1>1. /\ \A b, c \in calls : b.op = "refresh" /\ c.op = "refresh" => b = c
      /\ \A c \in calls : c.op = "refresh" =>
           \/ c.st = "asked"
           \/ c.st = "ok" /\ (c.ans.people[modal.id] = members[modal.id] \/ Changed(OnMembers))
      /\ \/ modal.roles = members[modal.id] \/ Changed(OnMembers)
         \/ \E c \in calls : c.op = "refresh"
  BY DEF RolesInv, Alone, InProgress
<1>2. Changed(OnMembers) => Changed(OnMembers)'
  BY DEF Changed
<1>3. Alone({"refresh"})'
  BY <1>1 DEF Alone
<1>4. \A e \in calls' : e.op = "refresh" =>
        \/ e.st = "asked"
        \/ e.st = "ok" /\ (e.ans.people[modal'.id] = members'[modal'.id] \/ Changed(OnMembers)')
  BY <1>1, <1>2
<1>5. modal'.roles = members'[modal'.id] \/ Changed(OnMembers)' \/ InProgress("refresh")'
  BY <1>1, <1>2 DEF InProgress
<1> QED BY <1>3, <1>4, <1>5 DEF RolesInv

LEMMA UserOpenedTells ==
  ASSUME Typed, PeopleInv, NEW u \in User, UserOpened(u)
  PROVE  MembersInv'
<1> SUFFICES ASSUME ~modal'.mixed
             PROVE  MembersInv'
  BY NoUserDialog
<1>1. /\ modal'.id = u /\ modal'.editing = u /\ modal'.roles = people[u]
      /\ modal'.mixed = (calls # {} \/ "users" \in behind)
      /\ calls' = calls /\ members' = members
  BY DEF UserOpened, Opened, serverVars
<1>2. calls = {} /\ "users" \notin behind
  BY <1>1
<1>3. people = members
  BY <1>2, ListsAtRest
<1>4. UserInv'
  BY <1>1, <1>2 DEF UserInv
<1>5. RolesInv'
  BY <1>1, <1>2, <1>3 DEF RolesInv, Alone
<1> QED BY <1>4, <1>5 DEF MembersInv

LEMMA MemberClickTells ==
  ASSUME Typed, MembersInv, NEW e \in CallSet, Clicked(e)
  PROVE  MembersInv'
<1> SUFFICES ASSUME ~modal'.mixed, modal'.kind = "user"
             PROVE  MembersInv'
  BY NoUserDialog
<1>1. /\ modal'.kind = modal.kind /\ modal'.id = modal.id /\ modal'.editing = modal.editing
      /\ modal'.roles = modal.roles /\ ~modal.mixed /\ modal.kind = "user"
      /\ calls' = calls \cup {e} /\ e.st = "asked" /\ About(e) /\ members' = members
  BY DEF Clicked, StaysOpen, serverVars
<1>2. /\ e.op \in {"add", "member", "save user"} /\ e.id = modal.id
  BY <1>1 DEF About, MembersInv, UserInv, OnMembers
<1>3. UserInv'
  BY <1>1, <1>2, UserStays DEF MembersInv, OfUser
<1>4. RolesInv'
  BY <1>1, <1>2, RolesStay DEF MembersInv
<1> QED BY <1>3, <1>4 DEF MembersInv

LEMMA MemberServedTells ==
  ASSUME Typed, MembersInv, NEW c \in calls, NEW d \in CallSet, Served(c, d)
  PROVE  MembersInv'
<1> SUFFICES ASSUME ~modal'.mixed, modal'.kind = "user"
             PROVE  MembersInv'
  BY NoUserDialog
<1>1. /\ modal' = modal /\ ~modal.mixed /\ modal.kind = "user"
      /\ calls' = (calls \ {c}) \cup {d} /\ Same(c, d) /\ d.op = c.op /\ c.st = "asked"
      /\ c.op = "refresh" => d.st = "ok" /\ members' = members /\ d.ans.people = members
      /\ members' = members \/ (c.op \in OnMembers /\ d.st = "ok")
  BY DEF Served, Effect, Same, pageVars, serverVars, Reading
<1>2. UserInv'
  BY <1>1, UserStays DEF MembersInv
<1>3. RolesInv'
  <2>1. /\ \A a, b \in calls : a.op = "refresh" /\ b.op = "refresh" => a = b
        /\ \A b \in calls : b.op = "refresh" =>
             \/ b.st = "asked"
             \/ b.st = "ok" /\ (b.ans.people[modal.id] = members[modal.id] \/ Changed(OnMembers))
        /\ \/ modal.roles = members[modal.id] \/ Changed(OnMembers)
           \/ \E b \in calls : b.op = "refresh"
    BY <1>1 DEF MembersInv, RolesInv, Alone, InProgress
  <2>2. Changed(OnMembers) => Changed(OnMembers)'
    BY <1>1 DEF Changed
  <2>3. members' = members \/ Changed(OnMembers)'
    BY <1>1 DEF Changed
  <2>4. Alone({"refresh"})'
    BY <1>1, <2>1 DEF Alone
  <2>5. \A e \in calls' : e.op = "refresh" =>
          \/ e.st = "asked"
          \/ e.st = "ok" /\ (e.ans.people[modal'.id] = members'[modal'.id] \/ Changed(OnMembers)')
    BY <1>1, <2>1, <2>2, <2>3
  <2>6. modal'.roles = members'[modal'.id] \/ Changed(OnMembers)' \/ InProgress("refresh")'
    BY <1>1, <2>1, <2>2, <2>3 DEF InProgress
  <2> QED BY <2>4, <2>5, <2>6 DEF RolesInv
<1> QED BY <1>2, <1>3 DEF MembersInv

LEMMA PageStepMembers ==
  ASSUME Typed, PeopleInv, MembersInv, PageStep
  PROVE  MembersInv'
<1>1. CASE UNCHANGED vars
  BY <1>1, UserStays, RolesStay DEF vars, pageVars, serverVars, MembersInv
<1>2. CASE Cancelled
  BY <1>2, ClosedOK, NoUserDialog DEF Cancelled
<1>3. CASE Ticked
  BY <1>3, NoUserDialog DEF Ticked, StaysOpen
<1>4. ASSUME NEW t \in Lists, NEW r \in CallSet, TabSelected(t, r)
      PROVE  MembersInv'
  BY <1>4, NoUserDialog DEF TabSelected
<1>5. ASSUME NEW x \in Domain, NEW r \in CallSet, DomainOpened(x, r)
      PROVE  MembersInv'
  BY <1>5, NoUserDialog DEF DomainOpened, Opened
<1>6. ASSUME NEW u \in User, UserOpened(u)
      PROVE  MembersInv'
  BY <1>6, UserOpenedTells
<1>7. ASSUME NEW e \in CallSet, Clicked(e)
      PROVE  MembersInv'
  BY <1>7, MemberClickTells
<1> QED BY <1>1, <1>2, <1>3, <1>4, <1>5, <1>6, <1>7 DEF PageStep

LEMMA CallStepMembers ==
  ASSUME Typed, MembersInv, NEW c \in calls, CallStep(c)
  PROVE  MembersInv'
<1>0. ASSUME ~modal.mixed, modal.kind = "user"
      PROVE  c.op \in OfUser /\ c.id = modal.id
  BY <1>0 DEF MembersInv, UserInv
<1>1. ASSUME NEW d \in CallSet, Served(c, d) \/ Failed(c, d)
      PROVE  MembersInv'
  BY <1>1, MemberServedTells, NoUserDialog DEF Failed
<1>2. CASE Dropped(c)
  <2>1. /\ calls' = calls \ {c} /\ c.st = "failed" /\ modal' = modal /\ members' = members
    BY <1>2 DEF Dropped, pageVars, serverVars
  <2>2. ~modal.mixed /\ modal.kind = "user" => c.op # "refresh"
    BY <2>1 DEF MembersInv, RolesInv
  <2>3. CASE modal.mixed \/ modal.kind # "user"
    BY <2>1, <2>3, NoUserDialog
  <2>4. CASE c.op # "refresh"
    BY <2>1, <2>4, UserStays, RolesStay DEF MembersInv
  <2> QED BY <2>2, <2>3, <2>4
<1>3. CASE ListLoaded(c)
  <2>1. modal'.mixed \/ modal'.kind # "user"
    BY <1>0, <1>3 DEF ListLoaded, Lists, OfUser
  <2> QED BY <2>1, NoUserDialog
<1>4. CASE AliasesCame(c)
  <2>1. modal'.mixed \/ modal'.kind # "user"
    BY <1>0, <1>4 DEF AliasesCame, StaysOpen, OfUser
  <2> QED BY <2>1, NoUserDialog
<1>5. CASE UserRefreshed(c)
  <2> SUFFICES ASSUME ~modal'.mixed, modal'.kind = "user"
               PROVE  MembersInv'
    BY NoUserDialog
  <2>1. /\ calls' = calls \ {c} /\ c.op = "refresh" /\ c.st = "ok" /\ members' = members
        /\ modal'.kind = modal.kind /\ modal'.id = modal.id /\ ~modal.mixed
        /\ modal.kind = "user" /\ modal'.editing = c.id
        /\ modal'.roles = c.ans.people[c.id]
    BY <1>5 DEF UserRefreshed, EditedAgain, serverVars
  <2>2. c.id = modal.id
    BY <1>0, <2>1
  <2>3. UserInv'
    BY <2>1, <2>2, UserStays DEF MembersInv
  <2>4. /\ \A b \in calls : b.op = "refresh" => b = c
        /\ c.ans.people[modal.id] = members[modal.id] \/ Changed(OnMembers)
    BY <2>1 DEF MembersInv, RolesInv, Alone
  <2>5. Changed(OnMembers) => Changed(OnMembers)'
    BY <2>1 DEF Changed, OnMembers
  <2>6. \A e \in calls' : e.op # "refresh"
    BY <2>1, <2>4
  <2>7. RolesInv'
    BY <2>1, <2>2, <2>4, <2>5, <2>6 DEF RolesInv, Alone
  <2> QED BY <2>3, <2>7 DEF MembersInv
<1>6. ASSUME NEW r \in CallSet, AliasesAsked(c, r)
      PROVE  MembersInv'
  <2>1. modal'.mixed \/ modal'.kind # "user"
    BY <1>0, <1>6 DEF AliasesAsked, StaysOpen, OnAliases, OfUser
  <2> QED BY <2>1, NoUserDialog
<1>7. ASSUME NEW r \in CallSet, MembersAsked(c, r)
      PROVE  MembersInv'
  <2> SUFFICES ASSUME ~modal'.mixed, modal'.kind = "user"
               PROVE  MembersInv'
    BY NoUserDialog
  <2>1. /\ modal'.kind = modal.kind /\ modal'.id = modal.id /\ modal'.editing = modal.editing
        /\ ~modal.mixed /\ modal.kind = "user" /\ ~InProgress("refresh")
        /\ calls' = (calls \ {c}) \cup {r} /\ r.op = "refresh" /\ r.id = c.id /\ r.st = "asked"
    BY <1>7 DEF MembersAsked, StaysOpen, Follows, Asks
  <2>2. UserInv'
    BY <1>0, <2>1, UserStays DEF MembersInv, OfUser
  <2>3. \A e \in calls' : e.op = "refresh" => e = r
    BY <2>1 DEF InProgress
  <2>4. r \in calls'
    BY <2>1
  <2>5. RolesInv'
    BY <2>1, <2>3, <2>4 DEF RolesInv, Alone, InProgress
  <2> QED BY <2>2, <2>5 DEF MembersInv
<1>8. ASSUME NEW r \in CallSet, CatchallKnown(c, r)
      PROVE  MembersInv'
  <2>1. modal'.mixed \/ modal'.kind # "user"
    BY <1>0, <1>8 DEF CatchallKnown, EditedAgain, OfUser
  <2> QED BY <2>1, NoUserDialog
<1>9. ASSUME NEW list \in Lists, NEW r \in CallSet, RowSaved(c, r, list)
      PROVE  MembersInv'
  <2>1. /\ c.op \in {"toggle", "save domain", "save user"}
        /\ (modal' = Closed \/ modal' = modal)
        /\ modal.kind = "user" /\ c.op = "save user" => modal' = Closed
    BY <1>9 DEF RowSaved
  <2>2. CASE modal' = Closed
    BY <2>2, ClosedOK, NoUserDialog
  <2>3. CASE modal' = modal /\ modal' # Closed
    <3>1. modal.mixed \/ modal.kind # "user"
      BY <1>0, <2>1, <2>3 DEF OfUser
    <3> QED BY <2>3, <3>1, NoUserDialog
  <2> QED BY <2>1, <2>2, <2>3
<1> QED BY <1>1, <1>2, <1>3, <1>4, <1>5, <1>6, <1>7, <1>8, <1>9 DEF CallStep

-----------------------------------------------------------------------------
(* Lists and dialogs at rest                                               *)

LEMMA InitTells == Init => TellsInv
<1> SUFFICES ASSUME Init
             PROVE  TellsInv
  OBVIOUS
<1>1. modal.kind = "none" /\ tab = "domains" /\ rows = domains /\ people = members
  BY DEF Init, Closed
<1>2. PICK r : r = Read("domains", None, 0)
  OBVIOUS
<1>3. calls = {r} /\ r.op = "domains" /\ r.st = "asked"
  <2>1. "domains" \in Op /\ None \in Ids
    BY NoneIsNoRow DEF Op, Reading, Lists
  <2> QED BY <1>2, <2>1, ReadTyped DEF Init
<1>4. LoadingInv /\ RowsInv /\ PeopleInv
  BY <1>1, <1>3 DEF LoadingInv, RowsInv, PeopleInv, InProgress, Alone
<1>5. DomainInv /\ AliasesInv /\ CatchallInv /\ UserInv /\ RolesInv
  BY <1>1 DEF DomainInv, AliasesInv, CatchallInv, UserInv, RolesInv
<1> QED BY <1>4, <1>5 DEF TellsInv

LEMMA StepTells ==
  ASSUME Typed, TellsInv, [Next]_vars
  PROVE  TellsInv'
<1>1. LoadingInv /\ RowsInv /\ PeopleInv /\ DialogInv /\ MembersInv
  BY DEF TellsInv, DialogInv, MembersInv
<1>2. CASE PageStep
  <2>1. LoadingInv' /\ RowsInv' /\ PeopleInv' /\ DialogInv' /\ MembersInv'
    BY <1>1, <1>2, PageStepLoading, PageStepRows, PageStepPeople, PageStepDialog, PageStepMembers
  <2> QED BY <2>1 DEF TellsInv, DialogInv, MembersInv
<1>3. ASSUME NEW c \in calls, CallStep(c)
      PROVE  TellsInv'
  <2>1. LoadingInv' /\ RowsInv' /\ PeopleInv' /\ DialogInv' /\ MembersInv'
    BY <1>1, <1>3, CallStepLoading, CallStepRows, CallStepPeople, CallStepDialog, CallStepMembers
  <2> QED BY <2>1 DEF TellsInv, DialogInv, MembersInv
<1> QED BY <1>2, <1>3, Steps

LEMMA TellsAtRest == Typed /\ TellsInv => ModalTells
<1> SUFFICES ASSUME Typed, TellsInv, calls = {}
             PROVE  /\ ~loading
                    /\ tab \notin behind =>
                         IF tab = "domains" THEN rows = domains ELSE people = members
                    /\ ~modal.mixed /\ modal.kind = "domain" =>
                         /\ shown = AliasesOf(modal.id)
                         /\ modal.catchall = domains[modal.id].catchall
                    /\ ~modal.mixed /\ modal.kind = "user" => modal.roles = members[modal.id]
  BY DEF ModalTells
<1>1. ~loading
  BY DEF TellsInv, LoadingInv, InProgress
<1>2. tab \notin behind => IF tab = "domains" THEN rows = domains ELSE people = members
  <2>1. tab \in Lists
    BY DEF Typed, TypeInv, PageOK
  <2> QED BY <2>1, ListsAtRest DEF TellsInv, Lists
<1>3. ~modal.mixed /\ modal.kind = "domain" =>
        shown = AliasesOf(modal.id) /\ modal.catchall = domains[modal.id].catchall
  BY DEF TellsInv, AliasesInv, CatchallInv, Changed, InProgress
<1>4. ~modal.mixed /\ modal.kind = "user" => modal.roles = members[modal.id]
  BY DEF TellsInv, RolesInv, Changed, InProgress
<1> QED BY <1>1, <1>2, <1>3, <1>4

(* When nothing is under way the lists and the open dialog show what is    *)
(* stored, unless a request failed, reads of one thing overlapped or the   *)
(* dialog was opened while something was under way (fetchDomains,          *)
(* fetchUsers, refreshAliases, refreshEditingUser in Admin.jsx).           *)
THEOREM DialogsAtRestTell == Spec => []ModalTells
<1>1. Init => Typed /\ TellsInv
  BY InitTypes, InitTells
<1>2. Typed /\ TellsInv /\ [Next]_vars => (Typed /\ TellsInv)'
  BY StepTypes, StepTells
<1> QED BY <1>1, <1>2, TellsAtRest, PTL DEF Spec
=============================================================================
