-------------------------------- MODULE Admin --------------------------------
(***************************************************************************)
(* The lists and dialogs of the administration page (Admin.jsx) and the    *)
(* handlers of the administration API they call: domains with their        *)
(* aliases and their catch-all user, and users with their memberships.     *)
(*                                                                         *)
(* A dialog is opened on a row of a list.  The page keeps what the dialog  *)
(* was opened for (domainModal, userModal) apart from what it edits        *)
(* (editingDomain, editingUser) and from the aliases it shows, and every   *)
(* answer sets one of the last two without asking which dialog is open.    *)
(* While a dialog is open it covers the rest of the page.                  *)
(*                                                                         *)
(* Left out: what a form holds beside the active flag, the dialogs that    *)
(* create a row, the deletion of rows, the dialog that sets a password and *)
(* the tabs without a dialog (module Tls has one of them).                 *)
(***************************************************************************)
EXTENDS Naturals, Sequences, FiniteSets

CONSTANTS
  Domain, User,   \* the rows there are
  None,           \* no domain, no user
  MaxAliases,     \* bound: aliases created
  MaxCalls,       \* bound: requests in progress at one time
  MaxTurns        \* bound: clicks and faults

ASSUME AdminAssumption ==
  /\ None \notin Domain \cup User /\ Domain \cap User = {}
  /\ MaxAliases \in Nat \ {0} /\ MaxCalls \in Nat /\ MaxTurns \in Nat

VARIABLES
  \* the server
  aliases,   \* the rows of aliases in the order of creation; ids are places
  domains,   \* the rows of domains
  members,   \* the role of a user in a domain
  \* the page
  tab,       \* the tab that is shown
  loading,   \* the list of the tab is being loaded, and hidden
  rows,      \* the rows of domains the page has
  people,    \* the rows of users the page has, with their memberships
  shown,     \* the aliases the page has
  modal,     \* the dialog that is open
  opened,    \* how many were opened
  calls,     \* requests made and not yet handled by the page's code
  \* the environment and history
  turns,     \* turns so far
  behind     \* the lists that may have missed a change

serverVars == <<aliases, domains, members>>
pageVars == <<tab, loading, rows, people, shown, modal, opened>>
vars == <<serverVars, pageVars, calls, turns, behind>>

Role == {"user", "admin"}
Alias == 1..Len(aliases)
AliasesOf(d) == {a \in Alias : aliases[a].domain = d /\ ~aliases[a].gone}

NoRows == [d \in Domain |-> [active |-> TRUE, catchall |-> None]]
Nowhere == [d \in Domain |-> "none"]
NoPeople == [u \in User |-> Nowhere]
NoAnswer == [aliases |-> {}, rows |-> NoRows, people |-> NoPeople]

Closed == [kind |-> "none", no |-> 0, id |-> None, editing |-> None, catchall |-> None,
           active |-> TRUE, roles |-> Nowhere, crossed |-> FALSE, mixed |-> FALSE]

(* The requests: "domains", "users", "aliases" and "refresh" read, the     *)
(* last one for the dialog of a user; the others change.                   *)
Lists == {"domains", "users"}
Reading == Lists \cup {"aliases", "refresh"}
Op == Reading \cup {"toggle", "save domain", "create", "remove", "catchall",
                    "save user", "add", "member"}

(* A request with what it is about, and with the dialog it is made in: its *)
(* number, the row it was opened for, whether the answer of another dialog *)
(* came while it was open, and whether its aliases are yet to come.        *)
Early == \E c \in calls : c.op = "aliases" /\ c.no = modal.no
Call(op, id, arg, to) ==
  [op |-> op, id |-> id, arg |-> arg, to |-> to, alias |-> 0, no |-> modal.no,
   shows |-> modal.id, crossed |-> modal.crossed, early |-> FALSE, st |-> "asked",
   ans |-> NoAnswer]
Read(op, id, no) ==
  [op |-> op, id |-> id, arg |-> None, to |-> "", alias |-> 0, no |-> no, shows |-> None,
   crossed |-> FALSE, early |-> FALSE, st |-> "asked", ans |-> NoAnswer]

Init ==
  /\ \E d \in Domain : aliases = <<[domain |-> d, gone |-> FALSE]>>
  /\ domains = NoRows /\ members = NoPeople
  /\ tab = "domains" /\ loading = TRUE
  /\ rows = NoRows /\ people = NoPeople /\ shown = {}
  /\ modal = Closed /\ opened = 0
  /\ calls = {Read("domains", None, 0)}
  /\ turns = 0 /\ behind = {}

Turn == turns < MaxTurns /\ turns' = turns + 1
InProgress(op) == \E c \in calls : c.op = op
Bounded(cs) == Cardinality(cs) <= MaxCalls
Ask(c) == c \notin calls /\ calls' = calls \cup {c} /\ Bounded(calls')

-----------------------------------------------------------------------------
(* The administrator                                                       *)

(* Rows can be clicked when they are there and no dialog covers them.      *)
Reachable(t) == tab = t /\ ~loading /\ modal.kind = "none"

(* A list is read: alone, or while it is being read already.               *)
Fetch(list) ==
  LET readers == {list} \cup IF list = "users" THEN {"refresh"} ELSE {} IN
  behind' = IF \E op \in readers : InProgress(op) THEN behind \cup {list} ELSE behind \ {list}

SelectTab(t) ==
  /\ Turn
  /\ modal.kind = "none" /\ t # tab
  /\ tab' = t /\ loading' = TRUE
  /\ Ask(Read(t, None, 0)) /\ Fetch(t)
  /\ UNCHANGED <<serverVars, rows, people, shown, modal, opened>>

ToggleDomain(d) ==
  /\ Turn
  /\ Reachable("domains")
  /\ Ask(Call("toggle", d, None, IF rows[d].active THEN "off" ELSE "on"))
  /\ UNCHANGED <<serverVars, pageVars, behind>>

(* openDomainModal: the aliases of the last dialog are shown until those   *)
(* of this one come.                                                       *)
OpenDomain(d) ==
  /\ Turn
  /\ Reachable("domains")
  /\ opened' = opened + 1
  /\ modal' = [Closed EXCEPT !.kind = "domain", !.no = opened', !.id = d, !.editing = d,
                             !.catchall = rows[d].catchall, !.active = rows[d].active,
                             !.mixed = calls # {} \/ "domains" \in behind]
  /\ Ask(Read("aliases", d, opened'))
  /\ UNCHANGED <<serverVars, tab, loading, rows, people, shown, behind>>

OpenUser(u) ==
  /\ Turn
  /\ Reachable("users")
  /\ opened' = opened + 1
  /\ modal' = [Closed EXCEPT !.kind = "user", !.no = opened', !.id = u, !.editing = u,
                             !.roles = people[u], !.mixed = calls # {} \/ "users" \in behind]
  /\ UNCHANGED <<serverVars, tab, loading, rows, people, shown, calls, behind>>

(* A mutant: the dialog disappears, and its row stays.                     *)
CancelHiding ==
  /\ modal.kind # "none" /\ modal' = [modal EXCEPT !.kind = "none"]
  /\ UNCHANGED <<serverVars, tab, loading, rows, people, shown, opened, calls, turns, behind>>

Cancel ==
  /\ modal.kind # "none" /\ modal' = Closed
  /\ UNCHANGED <<serverVars, tab, loading, rows, people, shown, opened, calls, turns, behind>>

(* What is done in a dialog.                                               *)
InModal(kind) == Turn /\ modal.kind = kind /\ UNCHANGED <<serverVars, behind>>
Leave == UNCHANGED pageVars
Mix(b) ==
  /\ modal' = [modal EXCEPT !.mixed = @ \/ b]
  /\ UNCHANGED <<tab, loading, rows, people, shown, opened>>

AddAlias ==
  /\ InModal("domain") /\ Leave
  /\ Ask(Call("create", modal.editing, None, ""))
RemoveAlias(a) ==
  /\ InModal("domain") /\ Leave
  /\ a \in shown
  /\ Ask([Call("remove", modal.editing, None, "") EXCEPT !.alias = a, !.early = Early])
ChangeCatchall(u) ==
  /\ InModal("domain") /\ Mix(InProgress("catchall"))
  /\ u # modal.catchall
  /\ Ask(Call("catchall", modal.editing, u, ""))
CheckActive ==
  /\ InModal("domain")
  /\ modal' = [modal EXCEPT !.active = ~@]
  /\ UNCHANGED <<tab, loading, rows, people, shown, opened, calls>>
SaveDomain ==
  /\ InModal("domain") /\ Leave
  /\ Ask(Call("save domain", modal.id, None, IF modal.active THEN "on" ELSE "off"))

(* addMembership, changeMembershipRole, removeMembership.                  *)
ChangeMember(d, role) ==
  /\ InModal("user") /\ Leave
  /\ role # modal.roles[d]
  /\ Ask(Call(IF modal.roles[d] = "none" THEN "add" ELSE "member", modal.editing, d, role))
SaveUser ==
  /\ InModal("user") /\ Leave
  /\ Ask(Call("save user", modal.id, None, ""))

-----------------------------------------------------------------------------
(* The server                                                              *)

Reply(c, ans) == calls' = (calls \ {c}) \cup {[c EXCEPT !.st = "ok", !.ans = ans]}
Refuse(c) == calls' = (calls \ {c}) \cup {[c EXCEPT !.st = "failed", !.ans = NoAnswer]}
Done(c) == Reply(c, NoAnswer)

ListDomains(c) == Reply(c, [NoAnswer EXCEPT !.rows = domains]) /\ UNCHANGED serverVars
ListUsers(c) == Reply(c, [NoAnswer EXCEPT !.people = members]) /\ UNCHANGED serverVars
ListAliases(c) == Reply(c, [NoAnswer EXCEPT !.aliases = AliasesOf(c.id)]) /\ UNCHANGED serverVars

CreateAlias(c) ==
  /\ Len(aliases) < MaxAliases
  /\ aliases' = Append(aliases, [domain |-> c.id, gone |-> FALSE])
  /\ Done(c) /\ UNCHANGED <<domains, members>>
DeleteAlias(c) ==
  /\ aliases' = [aliases EXCEPT ![c.alias].gone = TRUE]
  /\ IF aliases[c.alias].gone THEN Refuse(c) ELSE Done(c)
  /\ UNCHANGED <<domains, members>>
SetDomainCatchall(c) ==
  /\ domains' = [domains EXCEPT ![c.id].catchall = c.arg]
  /\ Done(c) /\ UNCHANGED <<aliases, members>>
(* UpdateDomain and ToggleDomainActive.                                    *)
SetActive(c) ==
  /\ domains' = [domains EXCEPT ![c.id].active = c.to = "on"]
  /\ Done(c) /\ UNCHANGED <<aliases, members>>

(* A membership is added where there is none, and changed or removed where *)
(* there is one.                                                           *)
SetMember(c) ==
  /\ IF (members[c.id][c.arg] = "none") = (c.op = "add")
       THEN members' = [members EXCEPT ![c.id][c.arg] = c.to] /\ Done(c)
       ELSE members' = members /\ Refuse(c)
  /\ UNCHANGED <<aliases, domains>>

Serve(c) ==
  /\ c.st = "asked"
  /\ CASE c.op = "domains" -> ListDomains(c)
       [] c.op \in {"users", "refresh"} -> ListUsers(c)
       [] c.op = "aliases" -> ListAliases(c)
       [] c.op = "create" -> CreateAlias(c)
       [] c.op = "remove" -> DeleteAlias(c)
       [] c.op = "catchall" -> SetDomainCatchall(c)
       [] c.op \in {"toggle", "save domain"} -> SetActive(c)
       [] c.op \in {"add", "member"} -> SetMember(c)
       [] c.op = "save user" -> Done(c) /\ UNCHANGED serverVars
  /\ UNCHANGED <<pageVars, turns, behind>>

(* The request fails before it has an effect, or the answer is lost.       *)
Fail(c) ==
  /\ Turn
  /\ c.st \in {"asked", "ok"}
  /\ Refuse(c)
  /\ behind' = Lists
  /\ Mix(TRUE)
  /\ UNCHANGED serverVars

-----------------------------------------------------------------------------
(* The answers                                                             *)

Then(c, cs) == calls' = (calls \ {c}) \cup cs
Kept(c) == Then(c, {}) /\ UNCHANGED pageVars /\ behind' = behind

(* fetchDomains, fetchUsers.                                               *)
Loaded(c) ==
  /\ c.op \in {"domains", "users"}
  /\ Then(c, {})
  /\ loading' = (loading /\ c.op # tab)
  /\ rows' = IF c.op = "domains" /\ c.st = "ok" THEN c.ans.rows ELSE rows
  /\ people' = IF c.op = "users" /\ c.st = "ok" THEN c.ans.people ELSE people
  /\ UNCHANGED <<tab, shown, modal, opened, behind>>

(* The answer of a dialog that is gone reaches one that is open for        *)
(* another row.                                                            *)
Foreign(c, kind) == modal.kind = kind /\ c.no # modal.no /\ c.id # modal.id

(* A mutant: aliases that cannot be read stay as they are.                 *)
SetAliasesOnly(c) ==
  /\ c.op = "aliases"
  /\ Then(c, {})
  /\ shown' = IF c.st = "ok" THEN c.ans.aliases ELSE shown
  /\ modal' = [modal EXCEPT !.crossed = @ \/ Foreign(c, "domain")]
  /\ UNCHANGED <<tab, loading, rows, people, opened, behind>>

SetAliases(c) ==
  /\ c.op = "aliases"
  /\ Then(c, {})
  /\ shown' = c.ans.aliases
  /\ modal' = [modal EXCEPT !.crossed = @ \/ Foreign(c, "domain")]
  /\ UNCHANGED <<tab, loading, rows, people, opened, behind>>

(* A mutant: the aliases are read again only after a removal.              *)
AliasRemoved(c) ==
  /\ c.op \in {"create", "remove"}
  /\ IF c.st = "failed" \/ c.op = "create" THEN Kept(c)
     ELSE /\ Then(c, {Read("aliases", c.id, c.no)})
          /\ Mix(InProgress("aliases"))
          /\ behind' = behind

(* refreshAliases, for the domain that was edited at the click.            *)
AliasChanged(c) ==
  /\ c.op \in {"create", "remove"}
  /\ IF c.st = "failed" THEN Kept(c)
     ELSE /\ Then(c, {Read("aliases", c.id, c.no)})
          /\ Mix(InProgress("aliases"))
          /\ behind' = behind

(* The domain that was edited at the click is edited again.                *)
CatchallChanged(c) ==
  /\ c.op = "catchall"
  /\ IF c.st = "failed" THEN Kept(c)
     ELSE /\ Then(c, {Read("domains", None, 0)}) /\ Fetch("domains")
          /\ loading' = (loading \/ tab = "domains")
          /\ modal' = IF modal.kind = "domain"
                        THEN [modal EXCEPT !.editing = c.id, !.catchall = c.arg,
                                           !.crossed = @ \/ Foreign(c, "domain")]
                        ELSE modal
          /\ UNCHANGED <<tab, rows, people, shown, opened>>

(* A saved row closes the dialog of its kind, whichever row it is open for.*)
Saved(c) ==
  /\ c.op \in {"toggle", "save domain", "save user"}
  /\ LET list == IF c.op = "save user" THEN "users" ELSE "domains"
         kind == CASE c.op = "save user" -> "user" [] c.op = "save domain" -> "domain"
                   [] OTHER -> "row" IN
     IF c.st = "failed" THEN Kept(c)
     ELSE /\ Then(c, {Read(list, None, 0)}) /\ Fetch(list)
          /\ loading' = (loading \/ tab = list)
          /\ modal' = IF modal.kind = kind THEN Closed ELSE modal
          /\ UNCHANGED <<tab, rows, people, shown, opened>>

(* refreshEditingUser, for the user that was edited at the click.          *)
MemberChanged(c) ==
  /\ c.op \in {"add", "member"}
  /\ IF c.st = "failed" THEN Kept(c)
     ELSE /\ Then(c, {Read("refresh", c.id, c.no)}) /\ Fetch("users")
          /\ Mix(InProgress("refresh"))
Refreshed(c) ==
  /\ c.op = "refresh"
  /\ IF c.st = "failed" THEN Kept(c)
     ELSE /\ Then(c, {})
          /\ people' = c.ans.people
          /\ modal' = IF modal.kind = "user"
                        THEN [modal EXCEPT !.editing = c.id, !.roles = c.ans.people[c.id],
                                           !.crossed = @ \/ Foreign(c, "user")]
                        ELSE modal
          /\ UNCHANGED <<tab, loading, rows, shown, opened, behind>>

Answer(c) ==
  /\ c.st \in {"ok", "failed"}
  /\ \/ Loaded(c) \/ SetAliases(c) \/ AliasChanged(c) \/ CatchallChanged(c) \/ Saved(c)
     \/ MemberChanged(c) \/ Refreshed(c)
  /\ UNCHANGED <<serverVars, turns>>

Next ==
  \/ SelectTab("domains") \/ SelectTab("users")
  \/ \E d \in Domain : ToggleDomain(d) \/ OpenDomain(d)
  \/ \E u \in User : OpenUser(u)
  \/ Cancel \/ AddAlias \/ CheckActive \/ SaveDomain \/ SaveUser
  \/ \E a \in Alias : RemoveAlias(a)
  \/ \E u \in User \cup {None} : ChangeCatchall(u)
  \/ \E d \in Domain, role \in Role \cup {"none"} : ChangeMember(d, role)
  \/ \E c \in calls : Serve(c) \/ Fail(c) \/ Answer(c)

Spec == Init /\ [][Next]_vars

-----------------------------------------------------------------------------
RowSet == [Domain -> [active : BOOLEAN, catchall : User \cup {None}]]
Roles == [Domain -> Role \cup {"none"}]

(* What is shown refers to rows there are, and a dialog that is closed     *)
(* leaves nothing.                                                         *)
TypeOK ==
  /\ aliases \in Seq([domain : Domain, gone : BOOLEAN]) /\ Len(aliases) <= MaxAliases
  /\ domains \in RowSet /\ members \in [User -> Roles]
  /\ tab \in Lists /\ loading \in BOOLEAN
  /\ rows \in RowSet /\ people \in [User -> Roles] /\ shown \subseteq Alias
  /\ opened \in 0..MaxTurns
  /\ \/ modal = [Closed EXCEPT !.mixed = modal.mixed, !.crossed = modal.crossed]
     \/ /\ modal.kind = "domain" /\ {modal.id, modal.editing} \subseteq Domain
        /\ modal.catchall \in User \cup {None}
     \/ modal.kind = "user" /\ {modal.id, modal.editing} \subseteq User /\ modal.roles \in Roles
  /\ \A c \in calls : /\ c.op \in Op /\ c.st \in {"asked", "ok", "failed"}
                      /\ c.no \in 0..opened /\ c.alias \in {0} \cup Alias
  /\ turns \in 0..MaxTurns /\ behind \subseteq Lists

(* What is asked for in a dialog is about the row the dialog was opened    *)
(* for: aliases are created and removed, the catch-all user set and        *)
(* memberships changed there and nowhere else.  Unless the answer of an    *)
(* earlier dialog came while this one was open, or the alias was removed   *)
(* before the aliases of this one had come.                                *)
ActsOnOpen ==
  \A c \in calls :
    /\ c.op \in {"create", "catchall", "add", "member", "save domain", "save user"} =>
         c.id = c.shows \/ c.crossed
    /\ c.op = "remove" => aliases[c.alias].domain = c.shows \/ c.crossed \/ c.early

(* When nothing is under way the list shows the rows there are, and the    *)
(* dialog the aliases, the catch-all user and the memberships there are:   *)
(* unless a request failed, reads of one thing overlapped, or the dialog   *)
(* was opened while something was under way.                               *)
ModalTells ==
  calls = {} =>
    /\ ~loading
    /\ tab \notin behind => IF tab = "domains" THEN rows = domains ELSE people = members
    /\ ~modal.mixed /\ modal.kind = "domain" =>
         shown = AliasesOf(modal.id) /\ modal.catchall = domains[modal.id].catchall
    /\ ~modal.mixed /\ modal.kind = "user" => modal.roles = members[modal.id]
=============================================================================
