--------------------------- MODULE OutboundProofs ---------------------------
(***************************************************************************)
(* Proofs about Outbound, for any drafts, requests, workers, reports and   *)
(* disruptions.                                                            *)
(***************************************************************************)
EXTENDS Outbound, FiniteSetTheorems, TLAPS

USE OutboundAssumption

-----------------------------------------------------------------------------
(* The inductive invariant.                                                *)

(* The parts of TypeOK: tables, jobs, workers and the rest.                *)
Statuses == {"none", "sent", "delivered", "bounced"}

TablesOK ==
  /\ unsent \subseteq rows /\ rows \subseteq Draft
  /\ mails \in Seq(Draft)
  /\ log \in [Mail -> Statuses]
  /\ bounces \subseteq Mail /\ unmarked \subseteq Mail
  /\ reported \subseteq Mail \X Reports /\ missed \subseteq Mail \X Reports

WorkersOK ==
  /\ pc \in [Worker -> {"idle"} \cup Sending \cup Reporting]
  /\ hand \in [Worker -> SendJob \cup ReportJob \cup {None}]
  /\ mid \in [Worker -> Nat]
  /\ \A w \in Worker :
       /\ pc[w] = "idle" => hand[w] = None
       /\ pc[w] \in Sending => hand[w] \in SendJob
       /\ pc[w] \in Reporting => hand[w] \in ReportJob /\ hand[w].of \in Mail
       /\ pc[w] \in {"mark", "log"} => mid[w] \in Mail /\ mails[mid[w]] = hand[w].of

QueueOK ==
  /\ queue \subseteq SendJob \cup ReportJob
  /\ \A j \in queue : j.kind # "send" => j.of \in Mail
  /\ made \in Nat

RestOK ==
  /\ asking \in [Browser -> Draft \cup {None}]
  /\ clicks \in 0..MaxClicks /\ disrupted \in 0..MaxDisruptions
  /\ overlaps \in [Draft -> Nat]

LEMMA TypeParts == TypeOK <=> TablesOK /\ WorkersOK /\ QueueOK /\ RestOK
BY DEF TypeOK, TablesOK, WorkersOK, QueueOK, RestOK, Statuses

(* Whoever is about to log a mail has marked its draft.                    *)
LogMarked == \A w \in Worker : pc[w] = "log" => hand[w].of \notin unsent

(* The mails of draft d whose send did not end before its mark, and the    *)
(* workers about to add one.                                               *)
Counted(d) == MailsOf(d) \ unmarked
Mailing(d) == {w \in Worker : pc[w] = "mail" /\ hand[w].of = d}

SendsEarned ==
  \A d \in Draft :
    Cardinality(Counted(d)) + Cardinality(Mailing(d)) <= 1 + overlaps[d]

OutboundInv == TypeOK /\ MailedMarked /\ LoggedIsSent /\ LogMarked /\ SendsEarned

-----------------------------------------------------------------------------
(* What steps do to mails.                                                 *)

(* A processor of this kind sends a mail, and no other step touches mails. *)
Mails(w) ==
  /\ pc[w] = "mail" /\ Accept(hand[w].of)

LEMMA Grow ==
  ASSUME TypeOK, NEW d \in Draft, Accept(d)
  PROVE  /\ mails' \in Seq(Draft) /\ Len(mails') = Len(mails) + 1
         /\ Mail' = Mail \cup {Len(mails) + 1}
         /\ Len(mails) + 1 \notin Mail
         /\ \A m \in Mail : mails'[m] = mails[m] /\ log'[m] = log[m]
         /\ mails'[Len(mails) + 1] = d /\ log'[Len(mails) + 1] = "none"
         /\ log' \in [Mail' -> Statuses]
<1>1. mails \in Seq(Draft) /\ Len(mails) \in Nat /\ log \in [Mail -> Statuses]
  BY DEF TypeOK, Statuses
<1>2. mails' \in Seq(Draft) /\ Len(mails') = Len(mails) + 1
  BY <1>1 DEF Accept
<1>3. Mail' = Mail \cup {Len(mails) + 1} /\ Len(mails) + 1 \notin Mail
  BY <1>1, <1>2 DEF Mail
<1>4. \A m \in Mail : mails'[m] = mails[m]
  BY <1>1 DEF Accept, Mail
<1>5. mails'[Len(mails) + 1] = d
  BY <1>1 DEF Accept
<1>6. \A m \in Mail' : log'[m] = IF m \in Mail THEN log[m] ELSE "none"
  BY <1>1, <1>2 DEF Accept, Mail
<1>7. log' \in [Mail' -> Statuses]
  BY <1>1, <1>2 DEF Accept, Mail, Statuses
<1> QED BY <1>2, <1>3, <1>4, <1>5, <1>6, <1>7

-----------------------------------------------------------------------------
(* Type correctness.                                                       *)

LEMMA TypeInit == Init => TypeOK
<1> SUFFICES ASSUME Init PROVE TypeOK
  OBVIOUS
<1>1. mails = <<>> /\ Mail = {}
  BY DEF Init, Mail
<1>2. TablesOK
  BY <1>1 DEF Init, TablesOK
<1>3. WorkersOK
  BY DEF Init, WorkersOK, Sending, Reporting
<1>4. QueueOK /\ RestOK
  BY DEF Init, QueueOK, RestOK
<1> QED BY <1>2, <1>3, <1>4, TypeParts

(* A step that adds no mail.                                               *)
LEMMA TablesKeep ==
  ASSUME TablesOK, mails' = mails,
         unsent' \subseteq rows', rows' \subseteq Draft,
         log' \in [Mail -> Statuses],
         bounces' \subseteq Mail, unmarked' \subseteq Mail,
         reported' \subseteq Mail \X Reports, missed' \subseteq Mail \X Reports
  PROVE  TablesOK'
<1>1. Mail' = Mail
  BY DEF Mail
<1> QED BY <1>1 DEF TablesOK

LEMMA TablesStep ==
  ASSUME TypeOK, [Next]_vars
  PROVE  TablesOK'
<1> USE DEF dbVars, goVars, history
<1>0. TablesOK /\ WorkersOK /\ QueueOK
  BY TypeParts
<1>1. ASSUME NEW b \in Browser, (\E d \in Draft : Ask(b, d)) \/ Submit(b) \/ SubmitFails(b)
      PROVE  TablesOK'
  BY <1>0, <1>1 DEF Ask, Submit, SubmitFails, TablesOK, Mail
<1>2. ASSUME NEW d \in Draft, Delete(d)
      PROVE  TablesOK'
  BY <1>0, <1>2 DEF Delete, TablesOK, Mail, Statuses
<1>3. ASSUME NEW w \in Worker,
             \/ Take(w) \/ Load(w) \/ LoadFails(w) \/ Fail(w)
      PROVE  TablesOK'
  BY <1>0, <1>3 DEF Take, Load, LoadFails, Fail, TablesOK, Mail
<1>4. ASSUME NEW w \in Worker, pc[w] = "mail", Accept(hand[w].of),
             UNCHANGED <<rows, unsent, bounces, reported, missed>>,
             unmarked' \subseteq unmarked \cup {Len(mails) + 1}
      PROVE  TablesOK'
  <2>1. hand[w].of \in Draft
    BY <1>0, <1>4 DEF WorkersOK, Sending, SendJob
  <2>2. /\ mails' \in Seq(Draft) /\ log' \in [Mail' -> Statuses]
        /\ Mail' = Mail \cup {Len(mails) + 1}
    BY <1>4, <2>1, Grow
  <2> QED BY <1>0, <1>4, <2>2 DEF TablesOK
<1>5. ASSUME NEW w \in Worker, Send(w) \/ SendFails(w)
      PROVE  TablesOK'
  <2>1. CASE Accept(hand[w].of)
    BY <1>4, <1>5, <2>1 DEF Send, SendFails
  <2>2. CASE UNCHANGED <<mails, log, unmarked>>
    BY <1>0, <1>5, <2>2 DEF Send, SendFails, TablesOK, Mail
  <2> QED BY <1>5, <2>1, <2>2 DEF Send, SendFails
<1>6. ASSUME NEW w \in Worker, Mark(w) \/ MarkFails(w)
      PROVE  TablesOK'
  <2>1. mid[w] \in Mail
    BY <1>0, <1>6 DEF Mark, MarkFails, WorkersOK
  <2> QED BY <1>0, <1>6, <2>1 DEF Mark, MarkFails, TablesOK, Mail
<1>7. ASSUME NEW w \in Worker, Log(w) \/ LogFails(w)
      PROVE  TablesOK'
  <2>1. mid[w] \in Mail
    BY <1>0, <1>7 DEF Log, LogFails, WorkersOK
  <2>2. log' \in [Mail -> Statuses]
    BY <1>0, <1>7, <2>1 DEF Log, LogFails, TablesOK, Statuses
  <2>3. missed' \subseteq Mail \X Reports
    BY <1>0, <1>7, <2>1 DEF Log, LogFails, TablesOK
  <2>4. UNCHANGED <<rows, unsent, bounces, mails, unmarked, reported>>
    BY <1>7 DEF Log, LogFails
  <2> QED BY <1>0, <2>2, <2>3, <2>4, TablesKeep DEF TablesOK
<1>8. ASSUME NEW w \in Worker, Status(w) \/ StatusFails(w) \/ Event(w) \/ EventFails(w)
      PROVE  TablesOK'
  <2>1. hand[w].of \in Mail /\ hand[w].kind \in Reports
    BY <1>0, <1>8 DEF Status, StatusFails, Event, EventFails, WorkersOK, Reporting, ReportJob
  <2>2. log' \in [Mail -> Statuses]
    BY <1>0, <1>8, <2>1 DEF Status, StatusFails, Event, EventFails, TablesOK, Statuses,
         Result
  <2>3. missed' \subseteq Mail \X Reports
    BY <1>0, <1>8, <2>1 DEF Status, StatusFails, Event, EventFails, TablesOK, Report
  <2>4. bounces' \subseteq Mail
    BY <1>0, <1>8, <2>1 DEF Status, StatusFails, Event, EventFails, TablesOK
  <2>5. UNCHANGED <<rows, unsent, mails, unmarked, reported>>
    BY <1>8 DEF Status, StatusFails, Event, EventFails
  <2> QED BY <1>0, <2>2, <2>3, <2>4, <2>5, TablesKeep DEF TablesOK
<1>9. ASSUME NEW m \in Mail, NEW k \in Reports, Notify(m, k)
      PROVE  TablesOK'
  BY <1>0, <1>9 DEF Notify, TablesOK, Mail
<1>10. ASSUME NEW j \in queue, PromoteTwice(j)
       PROVE  TablesOK'
  BY <1>0, <1>10 DEF PromoteTwice, TablesOK, Mail
<1>11. CASE Crash
  <2>1. \A w \in Worker : pc[w] \in {"mark", "log"} => mid[w] \in Mail
    BY <1>0 DEF WorkersOK
  <2>2. \A w \in Worker : pc[w] \in Reporting => Report(w) \in Mail \X Reports
    BY <1>0 DEF WorkersOK, Report, ReportJob
  <2>3. unmarked' \subseteq Mail
    BY <1>0, <1>11, <2>1 DEF Crash, TablesOK
  <2>4. missed' \subseteq Mail \X Reports
    BY <1>0, <1>11, <2>1, <2>2 DEF Crash, TablesOK
  <2>5. UNCHANGED <<dbVars, mails, reported>>
    BY <1>11 DEF Crash
  <2> QED BY <1>0, <2>3, <2>4, <2>5, TablesKeep DEF TablesOK
<1>12. CASE UNCHANGED vars
  BY <1>0, <1>12 DEF vars, TablesOK, Mail
<1> QED
  BY <1>1, <1>2, <1>3, <1>5, <1>6, <1>7, <1>8, <1>9, <1>10, <1>11, <1>12 DEF Next, Step

(* Mails stay what they are.                                               *)
LEMMA MailsStay ==
  ASSUME TypeOK, [Next]_vars
  PROVE  Mail \subseteq Mail' /\ \A m \in Mail : mails'[m] = mails[m]
<1>1. CASE mails' = mails
  BY <1>1 DEF Mail
<1>2. ASSUME NEW w \in Worker, pc[w] = "mail", Accept(hand[w].of)
      PROVE  Mail \subseteq Mail' /\ \A m \in Mail : mails'[m] = mails[m]
  <2>1. hand[w].of \in Draft
    BY <1>2, TypeParts DEF WorkersOK, Sending, SendJob
  <2> QED BY <1>2, <2>1, Grow
<1>3. ASSUME NEW w \in Worker, Send(w) \/ SendFails(w)
      PROVE  Mail \subseteq Mail' /\ \A m \in Mail : mails'[m] = mails[m]
  BY <1>1, <1>2, <1>3 DEF Send, SendFails
<1>4. ASSUME NEW w \in Worker, Step(w), ~(Send(w) \/ SendFails(w))
      PROVE  mails' = mails
  BY <1>4 DEF Step, Take, Load, LoadFails, Mark, MarkFails, Log, LogFails, Fail, Status,
     StatusFails, Event, EventFails
<1>5. CASE \/ \E b \in Browser : (\E d \in Draft : Ask(b, d)) \/ Submit(b) \/ SubmitFails(b)
           \/ \E d \in Draft : Delete(d)
           \/ Crash \/ UNCHANGED vars
  BY <1>1, <1>5 DEF Ask, Submit, SubmitFails, Delete, Crash, vars
<1>6. CASE \/ \E m \in Mail, k \in Reports : Notify(m, k)
           \/ \E j \in queue : PromoteTwice(j)
  BY <1>1, <1>6 DEF Notify, PromoteTwice
<1> QED BY <1>1, <1>3, <1>4, <1>5, <1>6 DEF Next

(* What worker w may hold where it stands, with mails ms of ids.           *)
HoldsWell(l, j, i, ids, ms) ==
  /\ l \in {"idle"} \cup Sending \cup Reporting
  /\ j \in SendJob \cup ReportJob \cup {None} /\ i \in Nat
  /\ l = "idle" => j = None
  /\ l \in Sending => j \in SendJob
  /\ l \in Reporting => j \in ReportJob /\ j.of \in ids
  /\ l \in {"mark", "log"} => i \in ids /\ ms[i] = j.of

LEMMA WorkersMeaning ==
  WorkersOK <=>
    /\ pc \in [Worker -> {"idle"} \cup Sending \cup Reporting]
    /\ hand \in [Worker -> SendJob \cup ReportJob \cup {None}]
    /\ mid \in [Worker -> Nat]
    /\ \A w \in Worker : HoldsWell(pc[w], hand[w], mid[w], Mail, mails)
BY DEF WorkersOK, HoldsWell

(* What is well held stays so while mails are only added.                  *)
LEMMA HoldsOn ==
  ASSUME NEW l, NEW j, NEW i, HoldsWell(l, j, i, Mail, mails),
         Mail \subseteq Mail', \A m \in Mail : mails'[m] = mails[m]
  PROVE  HoldsWell(l, j, i, Mail', mails')
BY DEF HoldsWell

(* One worker moves.                                                       *)
LEMMA WorkerMoves ==
  ASSUME WorkersOK, NEW w \in Worker, NEW l, NEW j, NEW i,
         pc' = [pc EXCEPT ![w] = l], hand' = [hand EXCEPT ![w] = j],
         mid' = [mid EXCEPT ![w] = i], HoldsWell(l, j, i, Mail', mails'),
         Mail \subseteq Mail', \A m \in Mail : mails'[m] = mails[m]
  PROVE  WorkersOK'
<1>1. /\ l \in {"idle"} \cup Sending \cup Reporting
      /\ j \in SendJob \cup ReportJob \cup {None} /\ i \in Nat
  BY DEF HoldsWell
<1>2. /\ pc' \in [Worker -> {"idle"} \cup Sending \cup Reporting]
      /\ hand' \in [Worker -> SendJob \cup ReportJob \cup {None}]
      /\ mid' \in [Worker -> Nat]
  BY <1>1 DEF WorkersOK
<1>3. \A v \in Worker \ {w} : pc'[v] = pc[v] /\ hand'[v] = hand[v] /\ mid'[v] = mid[v]
  BY DEF WorkersOK
<1>4. pc'[w] = l /\ hand'[w] = j /\ mid'[w] = i
  BY DEF WorkersOK
<1>5. \A v \in Worker \ {w} : HoldsWell(pc'[v], hand'[v], mid'[v], Mail', mails')
  BY <1>3, HoldsOn, WorkersMeaning DEF HoldsWell
<1>6. \A v \in Worker : HoldsWell(pc'[v], hand'[v], mid'[v], Mail', mails')
  BY <1>4, <1>5
<1> QED BY <1>2, <1>6, WorkersMeaning DEF WorkersOK, HoldsWell

LEMMA WorkersStep ==
  ASSUME TypeOK, [Next]_vars
  PROVE  WorkersOK'
<1> USE DEF dbVars, goVars, history
<1>0. /\ TablesOK /\ WorkersOK /\ QueueOK
      /\ Mail \subseteq Mail' /\ \A m \in Mail : mails'[m] = mails[m]
  BY TypeParts, MailsStay
<1>1. CASE UNCHANGED goVars
  <2>1. \A v \in Worker : HoldsWell(pc'[v], hand'[v], mid'[v], Mail', mails')
    BY <1>0, <1>1, HoldsOn, WorkersMeaning DEF HoldsWell
  <2> QED BY <1>0, <1>1, <2>1, WorkersMeaning DEF WorkersOK, HoldsWell
<1>2. ASSUME NEW w \in Worker, Done(w)
      PROVE  WorkersOK'
  <2>1. HoldsWell("idle", None, 0, Mail', mails')
    BY DEF HoldsWell, Sending, Reporting
  <2> QED BY <1>0, <1>2, <2>1, WorkerMoves DEF Done
<1>3. ASSUME NEW w \in Worker, NEW l, GoTo(w, l), HoldsWell(l, hand[w], mid[w], Mail', mails')
      PROVE  WorkersOK'
  <2>1. hand' = [hand EXCEPT ![w] = hand[w]] /\ mid' = [mid EXCEPT ![w] = mid[w]]
    BY <1>0, <1>3 DEF GoTo, WorkersOK
  <2>2. HoldsWell(l, hand[w], mid[w], Mail', mails')
    BY <1>3
  <2> QED BY <1>0, <1>3, <2>1, <2>2, WorkerMoves DEF GoTo
<1>4. ASSUME NEW w \in Worker, Take(w)
      PROVE  WorkersOK'
  <2>1. PICK j \in queue :
          /\ hand' = [hand EXCEPT ![w] = j]
          /\ pc' = [pc EXCEPT ![w] = IF j.kind = "send" THEN "load" ELSE "status"]
    BY <1>4 DEF Take
  <2>2. mid' = [mid EXCEPT ![w] = mid[w]]
    BY <1>0, <1>4 DEF Take, WorkersOK
  <2>3. /\ j.kind = "send" => j \in SendJob
        /\ j.kind # "send" => j \in ReportJob /\ j.of \in Mail
    BY <1>0 DEF QueueOK, SendJob, ReportJob
  <2>4. HoldsWell(IF j.kind = "send" THEN "load" ELSE "status", j, mid[w], Mail, mails)
    <3>1. mid[w] \in Nat
      BY <1>0 DEF WorkersOK
    <3>2. CASE j.kind = "send"
      BY <2>3, <3>1, <3>2 DEF HoldsWell, Sending, Reporting
    <3>3. CASE j.kind # "send"
      BY <2>3, <3>1, <3>3 DEF HoldsWell, Sending, Reporting
    <3> QED BY <3>2, <3>3
  <2>5. HoldsWell(IF j.kind = "send" THEN "load" ELSE "status", j, mid[w], Mail', mails')
    BY <1>0, <2>4, HoldsOn
  <2> QED BY <1>0, <2>1, <2>2, <2>5, WorkerMoves
<1>5. ASSUME NEW w \in Worker, pc[w] \in Sending
      PROVE  hand[w] \in SendJob /\ mid[w] \in Nat
  BY <1>0, <1>5 DEF WorkersOK
<1>6. ASSUME NEW w \in Worker, pc[w] \in Sending, NEW l \in {"load", "mail", "fail"},
             GoTo(w, l)
      PROVE  WorkersOK'
  <2>1. HoldsWell(l, hand[w], mid[w], Mail', mails')
    BY <1>5, <1>6 DEF HoldsWell, GoTo, Sending, Reporting
  <2> QED BY <1>3, <1>6, <2>1
<1>7. ASSUME NEW w \in Worker, Load(w) \/ LoadFails(w) \/ SendFails(w) \/ MarkFails(w)
      PROVE  WorkersOK'
  BY <1>6, <1>7 DEF Load, LoadFails, SendFails, MarkFails, Sending
<1>8. ASSUME NEW w \in Worker, Send(w)
      PROVE  WorkersOK'
  <2>1. hand[w] \in SendJob /\ hand[w].of \in Draft /\ hand' = [hand EXCEPT ![w] = hand[w]]
    BY <1>0, <1>8 DEF Send, WorkersOK, SendJob, Sending
  <2>2. /\ Mail' = Mail \cup {Len(mails) + 1} /\ mails'[Len(mails) + 1] = hand[w].of
        /\ Len(mails) + 1 \in Nat
    BY <1>0, <1>8, <2>1, Grow DEF Send, TablesOK
  <2>3. HoldsWell("mark", hand[w], Len(mails) + 1, Mail', mails')
    BY <2>1, <2>2 DEF HoldsWell, Sending, Reporting
  <2> QED BY <1>0, <1>8, <2>1, <2>3, WorkerMoves DEF Send
<1>9. ASSUME NEW w \in Worker, Mark(w)
      PROVE  WorkersOK'
  <2>1. pc[w] = "mark" /\ GoTo(w, "log") /\ mails' = mails /\ Mail' = Mail
    BY <1>9 DEF Mark, Mail
  <2>2. HoldsWell("log", hand[w], mid[w], Mail', mails')
    BY <1>0, <2>1 DEF HoldsWell, WorkersOK, Sending, Reporting, GoTo
  <2> QED BY <1>3, <2>1, <2>2
<1>10. ASSUME NEW w \in Worker, AfterStatus(w), pc[w] = "status", mails' = mails
       PROVE  WorkersOK'
  <2>1. ASSUME GoTo(w, "event") PROVE WorkersOK'
    <3>1. HoldsWell("event", hand[w], mid[w], Mail', mails')
      BY <1>0, <1>10, <2>1 DEF HoldsWell, WorkersOK, Sending, Reporting, GoTo, Mail
    <3> QED BY <1>3, <2>1, <3>1
  <2> QED BY <1>2, <1>10, <2>1 DEF AfterStatus
<1>11. ASSUME NEW w \in Worker, Status(w) \/ StatusFails(w)
       PROVE  WorkersOK'
  BY <1>10, <1>11 DEF Status, StatusFails
<1>12. ASSUME NEW w \in Worker,
              Log(w) \/ LogFails(w) \/ Fail(w) \/ Event(w) \/ EventFails(w)
       PROVE  WorkersOK'
  BY <1>2, <1>12 DEF Log, LogFails, Fail, Event, EventFails
<1>13. CASE Crash
  BY <1>13 DEF Crash, WorkersOK, Sending, Reporting
<1>14. CASE \/ \E b \in Browser : (\E d \in Draft : Ask(b, d)) \/ Submit(b) \/ SubmitFails(b)
            \/ \E d \in Draft : Delete(d)
            \/ \E m \in Mail, k \in Reports : Notify(m, k)
            \/ \E j \in queue : PromoteTwice(j)
            \/ UNCHANGED vars
  BY <1>1, <1>14 DEF Ask, Submit, SubmitFails, Delete, Notify, PromoteTwice, vars
<1> QED
  BY <1>4, <1>7, <1>8, <1>9, <1>11, <1>12, <1>13, <1>14 DEF Next, Step

LEMMA QueueStep ==
  ASSUME TypeOK, [Next]_vars
  PROVE  QueueOK'
<1> USE DEF dbVars, goVars, history
<1>0. /\ QueueOK /\ WorkersOK /\ RestOK
      /\ Mail \subseteq Mail' /\ made \in Nat
  BY TypeParts, MailsStay DEF QueueOK
<1>1. ASSUME NEW j, j \in SendJob \/ (j \in ReportJob /\ j.of \in Mail),
             queue' \subseteq queue \cup {j}, made' \in Nat
      PROVE  QueueOK'
  <2>1. j.kind # "send" => j.of \in Mail
    BY <1>1 DEF SendJob
  <2> QED BY <1>0, <1>1, <2>1 DEF QueueOK
<1>2. CASE queue' \subseteq queue /\ made' = made
  BY <1>0, <1>2 DEF QueueOK
<1>3. ASSUME NEW b \in Browser, Submit(b)
      PROVE  QueueOK'
  <2>1. asking[b] \in Draft
    BY <1>0, <1>3 DEF Submit, RestOK
  <2>2. NewSend(asking[b]) \in SendJob
    BY <1>0, <2>1 DEF NewSend, SendJob
  <2> QED BY <1>0, <1>1, <1>3, <2>2 DEF Submit
<1>4. ASSUME NEW w \in Worker, Fail(w)
      PROVE  QueueOK'
  <2>1. hand[w] \in SendJob
    BY <1>0, <1>4 DEF Fail, WorkersOK, Sending
  <2>2. CASE /\ hand[w].attempts + 1 < MaxAttempts
             /\ queue' = queue \cup {[hand[w] EXCEPT !.attempts = @ + 1]}
    <3>1. [hand[w] EXCEPT !.attempts = @ + 1] \in SendJob
      BY <2>1, <2>2 DEF SendJob
    <3>2. made' = made
      BY <1>4 DEF Fail
    <3> QED BY <1>0, <1>1, <2>2, <3>1, <3>2
  <2>3. CASE queue' = queue
    BY <1>2, <1>4, <2>3 DEF Fail
  <2> QED BY <1>4, <2>2, <2>3 DEF Fail
<1>5. ASSUME NEW m \in Mail, NEW k \in Reports, Notify(m, k)
      PROVE  QueueOK'
  <2>1. [kind |-> k, of |-> m] \in ReportJob /\ [kind |-> k, of |-> m].of \in Mail
    BY TypeParts DEF ReportJob, Mail, TablesOK
  <2>2. made' = made /\ queue' \subseteq queue \cup {[kind |-> k, of |-> m]}
    BY <1>5 DEF Notify
  <2> QED BY <1>0, <1>1, <2>1, <2>2
<1>6. ASSUME NEW j \in queue, PromoteTwice(j)
      PROVE  QueueOK'
  <2>1. j \in SendJob
    BY <1>0, <1>6 DEF PromoteTwice, QueueOK, ReportJob
  <2>2. [j EXCEPT !.id = made] \in SendJob
    BY <1>0, <2>1 DEF SendJob
  <2> QED BY <1>0, <1>1, <1>6, <2>2 DEF PromoteTwice
<1>7. ASSUME NEW w \in Worker, Step(w), ~Fail(w)
      PROVE  QueueOK'
  BY <1>2, <1>7 DEF Step, Take, Load, LoadFails, Send, SendFails, Mark, MarkFails, Log,
     LogFails, Status, StatusFails, Event, EventFails
<1>8. CASE \/ \E b \in Browser : (\E d \in Draft : Ask(b, d)) \/ SubmitFails(b)
           \/ \E d \in Draft : Delete(d)
           \/ Crash \/ UNCHANGED vars
  BY <1>2, <1>8 DEF Ask, SubmitFails, Delete, Crash, vars
<1> QED BY <1>3, <1>4, <1>5, <1>6, <1>7, <1>8 DEF Next

LEMMA RestStep ==
  ASSUME TypeOK, [Next]_vars
  PROVE  RestOK'
<1> USE DEF dbVars, goVars, history
<1>0. RestOK /\ WorkersOK
  BY TypeParts
<1>1. CASE UNCHANGED <<asking, clicks, overlaps>>
           /\ (disrupted' = disrupted \/ \E d \in Disruptions : Disrupt(d))
  BY <1>0, <1>1 DEF RestOK, Disrupt
<1>2. ASSUME NEW b \in Browser, (\E d \in Draft : Ask(b, d)) \/ Submit(b) \/ SubmitFails(b)
      PROVE  RestOK'
  BY <1>0, <1>2 DEF RestOK, Ask, Submit, SubmitFails, Disrupt
<1>3. ASSUME NEW w \in Worker, Load(w)
      PROVE  RestOK'
  <2>1. hand[w].of \in Draft
    BY <1>0, <1>3 DEF Load, WorkersOK, Sending, SendJob
  <2> QED BY <1>0, <1>3, <2>1 DEF RestOK, Load
<1>4. ASSUME NEW w \in Worker, Step(w), ~Load(w)
      PROVE  RestOK'
  <2>1. UNCHANGED <<asking, clicks, overlaps>>
    BY <1>4 DEF Step, Take, LoadFails, Send, SendFails, Mark, MarkFails, Log, LogFails,
       Fail, Status, StatusFails, Event, EventFails
  <2>2. disrupted' = disrupted \/ \E d \in Disruptions : Disrupt(d)
    BY <1>4 DEF Step, Take, LoadFails, Send, SendFails, Mark, MarkFails, Log, LogFails,
       Fail, Status, StatusFails, Event, EventFails, Disrupt
  <2> QED BY <1>1, <2>1, <2>2
<1>5. CASE \/ \E d \in Draft : Delete(d)
           \/ \E m \in Mail, k \in Reports : Notify(m, k)
           \/ UNCHANGED vars
  BY <1>1, <1>5 DEF Delete, Notify, vars
<1>6. CASE Crash \/ \E j \in queue : PromoteTwice(j)
  BY <1>1, <1>6 DEF Crash, PromoteTwice, Disrupt
<1> QED BY <1>2, <1>3, <1>4, <1>5, <1>6 DEF Next

LEMMA TypeStep ==
  ASSUME TypeOK, [Next]_vars
  PROVE  TypeOK'
<1>1. TablesOK' /\ WorkersOK' /\ QueueOK' /\ RestOK'
  BY TablesStep, WorkersStep, QueueStep, RestStep
<1> QED BY <1>1 DEF TypeOK, TablesOK, WorkersOK, QueueOK, RestOK, Statuses

-----------------------------------------------------------------------------
(* Mails and marks.                                                        *)

(* No message becomes a draft again.                                       *)
LEMMA UnsentShrinks ==
  ASSUME [Next]_vars
  PROVE  unsent' \subseteq unsent
<1> USE DEF dbVars, goVars, history
<1>1. ASSUME NEW w \in Worker, Step(w)
      PROVE  unsent' \subseteq unsent
  <2>1. CASE Mark(w) \/ MarkFails(w)
    BY <2>1 DEF Mark, MarkFails
  <2>2. CASE ~(Mark(w) \/ MarkFails(w))
    BY <1>1, <2>2 DEF Step, Take, Load, LoadFails, Send, SendFails, Log, LogFails, Fail,
       Status, StatusFails, Event, EventFails
  <2> QED BY <2>1, <2>2
<1>2. CASE \/ \E b \in Browser : (\E d \in Draft : Ask(b, d)) \/ Submit(b) \/ SubmitFails(b)
           \/ \E d \in Draft : Delete(d)
           \/ Crash \/ UNCHANGED vars
  BY <1>2 DEF Ask, Submit, SubmitFails, Delete, Crash, vars
<1>3. CASE \/ \E m \in Mail, k \in Reports : Notify(m, k)
           \/ \E j \in queue : PromoteTwice(j)
  BY <1>3 DEF Notify, PromoteTwice
<1> QED BY <1>1, <1>2, <1>3 DEF Next

LEMMA LogMarkedStep ==
  ASSUME TypeOK, LogMarked, [Next]_vars
  PROVE  LogMarked'
<1> USE DEF dbVars, goVars, history
<1>0. WorkersOK /\ TablesOK
  BY TypeParts
<1>1. unsent' \subseteq unsent
  BY UnsentShrinks
<1>2. CASE UNCHANGED goVars
  BY <1>1, <1>2 DEF LogMarked
<1>3. ASSUME NEW w \in Worker, NEW l, l # "log", pc' = [pc EXCEPT ![w] = l],
             \A v \in Worker \ {w} : hand'[v] = hand[v]
      PROVE  LogMarked'
  BY <1>0, <1>1, <1>3 DEF LogMarked, WorkersOK
<1>4. ASSUME NEW w \in Worker, Mark(w)
      PROVE  LogMarked'
  BY <1>0, <1>1, <1>4 DEF LogMarked, WorkersOK, Mark, GoTo
<1>5. ASSUME NEW w \in Worker, Take(w)
      PROVE  LogMarked'
  <2>1. PICK j \in queue :
          /\ hand' = [hand EXCEPT ![w] = j]
          /\ pc' = [pc EXCEPT ![w] = IF j.kind = "send" THEN "load" ELSE "status"]
    BY <1>5 DEF Take
  <2>2. \A v \in Worker \ {w} : hand'[v] = hand[v]
    BY <1>0, <2>1 DEF WorkersOK
  <2>3. (IF j.kind = "send" THEN "load" ELSE "status") # "log"
    OBVIOUS
  <2> QED BY <1>3, <2>1, <2>2, <2>3
<1>6. ASSUME NEW w \in Worker, Step(w), ~Mark(w), ~Take(w)
      PROVE  LogMarked'
  <2>1. \/ Done(w) \/ (\E l \in {"mail", "event", "fail"} : GoTo(w, l))
        \/ pc' = [pc EXCEPT ![w] = "mark"] /\ hand' = hand
    BY <1>6 DEF Step, Load, LoadFails, Send, SendFails, MarkFails, Log, LogFails, Fail,
       Status, StatusFails, Event, EventFails, AfterStatus
  <2> QED BY <1>0, <1>3, <2>1 DEF Done, GoTo, WorkersOK
<1>7. CASE Crash
  BY <1>7 DEF Crash, LogMarked
<1>8. CASE \/ \E b \in Browser : (\E d \in Draft : Ask(b, d)) \/ Submit(b) \/ SubmitFails(b)
           \/ \E d \in Draft : Delete(d)
           \/ \E m \in Mail, k \in Reports : Notify(m, k)
           \/ \E j \in queue : PromoteTwice(j)
           \/ UNCHANGED vars
  BY <1>2, <1>8 DEF Ask, Submit, SubmitFails, Delete, Notify, PromoteTwice, vars
<1> QED BY <1>4, <1>5, <1>6, <1>7, <1>8 DEF Next

LEMMA LoggedStep ==
  ASSUME TypeOK, LoggedIsSent, LogMarked, [Next]_vars
  PROVE  LoggedIsSent'
<1> USE DEF dbVars, goVars, history
<1>0. WorkersOK /\ TablesOK
  BY TypeParts
<1>1. CASE UNCHANGED <<rows, log, mails>> /\ unsent' \subseteq unsent
  BY <1>1 DEF LoggedIsSent, Mail
<1>2. ASSUME NEW d \in Draft, Delete(d)
      PROVE  LoggedIsSent'
  BY <1>0, <1>2 DEF LoggedIsSent, Delete, Mail, TablesOK
<1>3. ASSUME NEW w \in Worker, pc[w] = "mail", Accept(hand[w].of), UNCHANGED <<rows, unsent>>
      PROVE  LoggedIsSent'
  <2>1. hand[w].of \in Draft
    BY <1>0, <1>3 DEF WorkersOK, Sending, SendJob
  <2>2. /\ Mail' = Mail \cup {Len(mails) + 1} /\ log'[Len(mails) + 1] = "none"
        /\ \A m \in Mail : mails'[m] = mails[m] /\ log'[m] = log[m]
    BY <1>3, <2>1, Grow
  <2> QED BY <1>3, <2>2 DEF LoggedIsSent
<1>4. ASSUME NEW w \in Worker, Log(w)
      PROVE  LoggedIsSent'
  <2>1. mails[mid[w]] \in rows \ unsent
    BY <1>0, <1>4 DEF WorkersOK, Log, LogMarked
  <2> QED BY <1>0, <1>4, <2>1 DEF LoggedIsSent, Log, Mail, TablesOK
<1>5. ASSUME NEW w \in Worker, Status(w)
      PROVE  LoggedIsSent'
  BY <1>0, <1>5 DEF LoggedIsSent, Status, Mail, TablesOK
<1>6. ASSUME NEW w \in Worker, Send(w) \/ SendFails(w)
      PROVE  LoggedIsSent'
  BY <1>1, <1>3, <1>6 DEF Send, SendFails
<1>7. ASSUME NEW w \in Worker, Step(w), ~Log(w), ~Status(w), ~Send(w), ~SendFails(w)
      PROVE  LoggedIsSent'
  BY <1>1, <1>7 DEF Step, Take, Load, LoadFails, Mark, MarkFails, LogFails, Fail,
     StatusFails, Event, EventFails
<1>8. CASE \/ \E b \in Browser : (\E d \in Draft : Ask(b, d)) \/ Submit(b) \/ SubmitFails(b)
           \/ Crash \/ UNCHANGED vars
  BY <1>1, <1>8 DEF Ask, Submit, SubmitFails, Crash, vars
<1>9. CASE \/ \E m \in Mail, k \in Reports : Notify(m, k)
           \/ \E j \in queue : PromoteTwice(j)
  BY <1>1, <1>9 DEF Notify, PromoteTwice
<1> QED BY <1>2, <1>4, <1>5, <1>6, <1>7, <1>8, <1>9 DEF Next

LEMMA MailedMarkedStep ==
  ASSUME TypeOK, MailedMarked, [Next]_vars
  PROVE  MailedMarked'
<1> USE DEF dbVars, goVars, history
<1>0. WorkersOK /\ TablesOK /\ unsent' \subseteq unsent
  BY TypeParts, UnsentShrinks
<1>1. ASSUME mails' = mails, unmarked \subseteq unmarked',
             \A v \in Worker : pc[v] = "mark" => pc'[v] = "mark" /\ mid'[v] = mid[v]
      PROVE  MailedMarked'
  BY <1>0, <1>1 DEF MailedMarked, Mail
<1>2. CASE UNCHANGED <<mails, unmarked, pc, mid>>
  BY <1>1, <1>2
<1>3. ASSUME NEW w \in Worker, pc[w] # "mark",
             UNCHANGED <<mails, unmarked>>,
             \/ Done(w)
             \/ mid' = mid /\ \E l : pc' = [pc EXCEPT ![w] = l]
      PROVE  MailedMarked'
  <2>1. \A v \in Worker \ {w} : pc'[v] = pc[v] /\ mid'[v] = mid[v]
    BY <1>0, <1>3 DEF Done, WorkersOK
  <2> QED BY <1>1, <1>3, <2>1
<1>4. ASSUME NEW w \in Worker, Take(w) \/ Load(w) \/ LoadFails(w)
      PROVE  MailedMarked'
  BY <1>3, <1>4 DEF Take, Load, LoadFails, GoTo
<1>5. ASSUME NEW w \in Worker, Log(w) \/ LogFails(w) \/ Fail(w)
      PROVE  MailedMarked'
  BY <1>3, <1>5 DEF Log, LogFails, Fail
<1>6. ASSUME NEW w \in Worker, Status(w) \/ StatusFails(w) \/ Event(w) \/ EventFails(w)
      PROVE  MailedMarked'
  BY <1>3, <1>6 DEF Status, StatusFails, Event, EventFails, AfterStatus, GoTo
<1>7. ASSUME NEW w \in Worker, pc[w] = "mail", Accept(hand[w].of)
      PROVE  /\ Mail' = Mail \cup {Len(mails) + 1}
             /\ \A m \in Mail : mails'[m] = mails[m]
  <2>1. hand[w].of \in Draft
    BY <1>0, <1>7 DEF WorkersOK, Sending, SendJob
  <2> QED BY <1>7, <2>1, Grow
<1>8. ASSUME NEW w \in Worker, Send(w)
      PROVE  MailedMarked'
  <2>1. \A v \in Worker \ {w} : pc'[v] = pc[v] /\ mid'[v] = mid[v]
    BY <1>0, <1>8 DEF Send, WorkersOK
  <2>2. pc'[w] = "mark" /\ mid'[w] = Len(mails) + 1 /\ pc[w] = "mail"
        /\ unmarked' = unmarked
    BY <1>0, <1>8 DEF Send, WorkersOK
  <2>3. /\ Mail' = Mail \cup {Len(mails) + 1}
        /\ \A m \in Mail : mails'[m] = mails[m]
    BY <1>7, <1>8 DEF Send
  <2> QED BY <1>0, <2>1, <2>2, <2>3 DEF MailedMarked
<1>9. ASSUME NEW w \in Worker, SendFails(w)
      PROVE  MailedMarked'
  <2>1. CASE UNCHANGED <<mails, log, unmarked>>
    BY <1>3, <1>9, <2>1 DEF SendFails, GoTo
  <2>2. CASE Accept(hand[w].of) /\ unmarked' = unmarked \cup {Len(mails) + 1}
    <3>1. \A v \in Worker : pc[v] = "mark" => pc'[v] = "mark" /\ mid'[v] = mid[v]
      BY <1>0, <1>9 DEF SendFails, GoTo, WorkersOK
    <3>2. /\ Mail' = Mail \cup {Len(mails) + 1}
          /\ \A m \in Mail : mails'[m] = mails[m]
      BY <1>7, <1>9, <2>2 DEF SendFails
    <3> QED BY <1>0, <2>2, <3>1, <3>2 DEF MailedMarked
  <2> QED BY <1>9, <2>1, <2>2 DEF SendFails
<1>10. ASSUME NEW w \in Worker, Mark(w) \/ MarkFails(w)
       PROVE  MailedMarked'
  <2>1. \A v \in Worker \ {w} : pc'[v] = pc[v] /\ mid'[v] = mid[v]
    BY <1>0, <1>10 DEF Mark, MarkFails, GoTo, WorkersOK
  <2>2. mails' = mails /\ Mail' = Mail /\ unmarked \subseteq unmarked'
    BY <1>10 DEF Mark, MarkFails, Mail
  <2>3. mails[mid[w]] \notin unsent' \/ mid[w] \in unmarked'
    BY <1>0, <1>10 DEF Mark, MarkFails, WorkersOK
  <2> QED BY <1>0, <2>1, <2>2, <2>3 DEF MailedMarked
<1>11. CASE Crash
  <2>1. /\ mails' = mails /\ Mail' = Mail /\ unmarked \subseteq unmarked'
        /\ \A v \in Worker : pc[v] = "mark" => mid[v] \in unmarked'
    BY <1>11 DEF Crash, Mail
  <2> QED BY <1>0, <2>1 DEF MailedMarked
<1>12. CASE \/ \E b \in Browser : (\E d \in Draft : Ask(b, d)) \/ Submit(b) \/ SubmitFails(b)
            \/ \E d \in Draft : Delete(d)
            \/ UNCHANGED vars
  BY <1>2, <1>12 DEF Ask, Submit, SubmitFails, Delete, vars
<1>13. CASE \/ \E m \in Mail, k \in Reports : Notify(m, k)
            \/ \E j \in queue : PromoteTwice(j)
  BY <1>2, <1>13 DEF Notify, PromoteTwice
<1> QED
  BY <1>4, <1>5, <1>6, <1>8, <1>9, <1>10, <1>11, <1>12, <1>13 DEF Next, Step

-----------------------------------------------------------------------------
(* Every mail is earned.                                                   *)

LEMMA CountsFinite ==
  ASSUME TypeOK, NEW d
  PROVE  /\ IsFiniteSet(Counted(d)) /\ Cardinality(Counted(d)) \in Nat
         /\ IsFiniteSet(Mailing(d)) /\ Cardinality(Mailing(d)) \in Nat
<1>1. IsFiniteSet(Mail)
  BY TypeParts, FS_Interval DEF Mail, TablesOK
<1>2. Counted(d) \subseteq Mail /\ Mailing(d) \subseteq Worker
  BY DEF Counted, MailsOf, Mailing
<1> QED BY <1>1, <1>2, FS_Subset, FS_CardinalityType

LEMMA OneLess ==
  ASSUME NEW S, NEW x \in S, IsFiniteSet(S)
  PROVE  Cardinality(S \ {x}) = Cardinality(S) - 1
BY FS_RemoveElement

LEMMA DisjointCount ==
  ASSUME NEW S, NEW T, IsFiniteSet(S), IsFiniteSet(T), S \cap T = {}
  PROVE  Cardinality(S \cup T) = Cardinality(S) + Cardinality(T)
<1>1. Cardinality(S \cap T) = 0
  BY FS_EmptySet
<1>2. Cardinality(S) \in Nat /\ Cardinality(T) \in Nat
  BY FS_CardinalityType
<1>3. Cardinality(S \cup T) = Cardinality(S) + Cardinality(T) - Cardinality(S \cap T)
  BY FS_Union
<1> QED BY <1>1, <1>2, <1>3

LEMMA SendsEarnedStep ==
  ASSUME TypeOK, MailedMarked, SendsEarned, [Next]_vars
  PROVE  SendsEarned'
<1> USE DEF dbVars, goVars, history
<1> SUFFICES ASSUME NEW d \in Draft
             PROVE  (Cardinality(Counted(d)) + Cardinality(Mailing(d)) <= 1 + overlaps[d])'
  BY DEF SendsEarned
<1> DEFINE c == Cardinality(Counted(d))
           n == Cardinality(Mailing(d))
<1>0. /\ WorkersOK /\ TablesOK /\ RestOK
      /\ c \in Nat /\ n \in Nat /\ overlaps[d] \in Nat /\ c + n <= 1 + overlaps[d]
  BY TypeParts, CountsFinite DEF SendsEarned, RestOK
<1>1. ASSUME Counted(d)' \subseteq Counted(d)
      PROVE  c' \in Nat /\ c' <= c
  BY <1>1, CountsFinite, FS_Subset, FS_CardinalityType
<1>2. ASSUME Mailing(d)' \subseteq Mailing(d)
      PROVE  n' \in Nat /\ n' <= n
  BY <1>2, CountsFinite, FS_Subset, FS_CardinalityType
<1>3. ASSUME Counted(d)' \subseteq Counted(d), Mailing(d)' \subseteq Mailing(d),
             overlaps' = overlaps
      PROVE  c' + n' <= 1 + overlaps'[d]
  BY <1>0, <1>1, <1>2, <1>3
<1>4. ASSUME mails' = mails, unmarked \subseteq unmarked'
      PROVE  Counted(d)' \subseteq Counted(d)
  BY <1>4 DEF Counted, MailsOf, Mail
<1>5. ASSUME \A v \in Worker : pc'[v] = "mail" => pc[v] = "mail" /\ hand'[v] = hand[v]
      PROVE  Mailing(d)' \subseteq Mailing(d)
  BY <1>5 DEF Mailing
<1>6. ASSUME NEW w \in Worker, Load(w)
      PROVE  c' + n' <= 1 + overlaps'[d]
  <2>1. /\ mails' = mails /\ unmarked' = unmarked /\ hand' = hand
        /\ pc[w] = "load" /\ pc' = [pc EXCEPT ![w] = "mail"]
    BY <1>6 DEF Load, GoTo
  <2>2. c' \in Nat /\ c' <= c
    BY <1>1, <1>4, <2>1
  <2>3. CASE hand[w].of # d
    <3>1. Mailing(d)' \subseteq Mailing(d)
      BY <1>0, <2>1, <2>3 DEF Mailing, WorkersOK
    <3>2. overlaps'[d] = overlaps[d]
      BY <1>0, <1>6, <2>3 DEF Load, RestOK
    <3> QED BY <1>0, <1>2, <2>2, <3>1, <3>2
  <2>4. CASE hand[w].of = d
    <3>1. Mailing(d)' = Mailing(d) \cup {w} /\ w \notin Mailing(d)
      BY <1>0, <2>1, <2>4 DEF Mailing, WorkersOK
    <3>2. n' = n + 1
      BY <3>1, CountsFinite, FS_AddElement
    <3>3. CASE \E v \in Worker : Busy(v, d)
      <4>1. overlaps'[d] = overlaps[d] + 1
        BY <1>0, <1>6, <2>4, <3>3 DEF Load, RestOK
      <4> QED BY <1>0, <2>2, <3>2, <4>1
    <3>4. CASE \A v \in Worker : ~Busy(v, d)
      <4>1. Mailing(d) = {}
        BY <3>4 DEF Mailing, Busy
      <4>2. Counted(d) = {}
        <5>1. d \in unsent
          BY <1>6, <2>4 DEF Load
        <5> SUFFICES ASSUME NEW m \in Mail, mails[m] = d, m \notin unmarked
                     PROVE  FALSE
          BY DEF Counted, MailsOf
        <5>2. PICK v \in Worker : pc[v] = "mark" /\ mid[v] = m
          BY <5>1 DEF MailedMarked
        <5>3. hand[v].of = d
          BY <1>0, <5>2 DEF WorkersOK
        <5> QED BY <3>4, <5>2, <5>3 DEF Busy
      <4>3. c = 0 /\ n = 0
        BY <4>1, <4>2, FS_EmptySet
      <4>4. overlaps'[d] = overlaps[d]
        BY <1>6, <2>4, <3>4 DEF Load
      <4> QED BY <1>0, <2>2, <3>2, <4>3, <4>4
    <3> QED BY <3>3, <3>4
  <2> QED BY <2>3, <2>4
<1>7. ASSUME NEW w \in Worker, pc[w] = "mail", Accept(hand[w].of)
      PROVE  /\ Mail' = Mail \cup {Len(mails) + 1} /\ Len(mails) + 1 \notin Mail
             /\ \A m \in Mail : mails'[m] = mails[m]
             /\ mails'[Len(mails) + 1] = hand[w].of
  <2>1. hand[w].of \in Draft
    BY <1>0, <1>7 DEF WorkersOK, Sending, SendJob
  <2> QED BY <1>7, <2>1, Grow
<1>8. ASSUME NEW w \in Worker, Send(w)
      PROVE  c' + n' <= 1 + overlaps'[d]
  <2>1. /\ Mail' = Mail \cup {Len(mails) + 1} /\ Len(mails) + 1 \notin Mail
        /\ \A m \in Mail : mails'[m] = mails[m]
        /\ mails'[Len(mails) + 1] = hand[w].of
    BY <1>7, <1>8 DEF Send
  <2>2. /\ UNCHANGED <<unmarked, overlaps, hand>>
        /\ pc[w] = "mail" /\ pc' = [pc EXCEPT ![w] = "mark"]
    BY <1>8 DEF Send
  <2>3. CASE hand[w].of # d
    <3>1. Counted(d)' \subseteq Counted(d)
      BY <2>1, <2>2, <2>3 DEF Counted, MailsOf
    <3>2. Mailing(d)' \subseteq Mailing(d)
      BY <1>0, <2>2 DEF Mailing, WorkersOK
    <3> QED BY <1>3, <2>2, <3>1, <3>2
  <2>4. CASE hand[w].of = d
    <3>1. Mailing(d)' = Mailing(d) \ {w} /\ w \in Mailing(d)
      BY <1>0, <2>2, <2>4 DEF Mailing, WorkersOK
    <3>2. n' = n - 1
      <4>1. IsFiniteSet(Mailing(d))
        BY CountsFinite
      <4>2. Cardinality(Mailing(d) \ {w}) = Cardinality(Mailing(d)) - 1
        BY <3>1, <4>1, OneLess
      <4> QED BY <3>1, <4>2
    <3>3. Counted(d)' \subseteq Counted(d) \cup {Len(mails) + 1}
      BY <2>1, <2>2 DEF Counted, MailsOf
    <3>4. Len(mails) + 1 \notin Counted(d)
      BY <2>1 DEF Counted, MailsOf
    <3>5. IsFiniteSet(Counted(d) \cup {Len(mails) + 1})
          /\ Cardinality(Counted(d) \cup {Len(mails) + 1}) = c + 1
      BY <3>4, CountsFinite, FS_AddElement
    <3>6. c' \in Nat /\ c' <= c + 1
      BY <3>3, <3>5, FS_Subset, FS_CardinalityType
    <3> QED BY <1>0, <2>2, <3>2, <3>6
  <2> QED BY <2>3, <2>4
<1>9. ASSUME NEW w \in Worker, SendFails(w)
      PROVE  c' + n' <= 1 + overlaps'[d]
  <2>1. /\ overlaps' = overlaps /\ hand' = hand /\ pc' = [pc EXCEPT ![w] = "fail"]
        /\ pc[w] = "mail"
    BY <1>9 DEF SendFails, GoTo
  <2>2. Mailing(d)' \subseteq Mailing(d)
    BY <1>0, <2>1 DEF Mailing, WorkersOK
  <2>3. CASE UNCHANGED <<mails, log, unmarked>>
    BY <1>3, <1>4, <2>1, <2>2, <2>3
  <2>4. CASE Accept(hand[w].of) /\ unmarked' = unmarked \cup {Len(mails) + 1}
    <3>1. /\ Mail' = Mail \cup {Len(mails) + 1}
          /\ \A m \in Mail : mails'[m] = mails[m]
      BY <1>7, <2>1, <2>4
    <3>2. Counted(d)' \subseteq Counted(d)
      BY <2>4, <3>1 DEF Counted, MailsOf
    <3> QED BY <1>3, <2>1, <2>2, <3>2
  <2> QED BY <1>9, <2>3, <2>4 DEF SendFails
<1>10. ASSUME mails' = mails, unmarked \subseteq unmarked', overlaps' = overlaps,
              \A v \in Worker : pc'[v] = "mail" => pc[v] = "mail" /\ hand'[v] = hand[v]
       PROVE  c' + n' <= 1 + overlaps'[d]
  BY <1>3, <1>4, <1>5, <1>10
<1>11. ASSUME NEW w \in Worker, Done(w) \/ (\E l \in {"log", "event", "fail"} : GoTo(w, l))
       PROVE  \A v \in Worker : pc'[v] = "mail" => pc[v] = "mail" /\ hand'[v] = hand[v]
  BY <1>0, <1>11 DEF Done, GoTo, WorkersOK
<1>12. ASSUME NEW w \in Worker, Take(w)
       PROVE  c' + n' <= 1 + overlaps'[d]
  <2>1. PICK j \in queue :
          /\ hand' = [hand EXCEPT ![w] = j]
          /\ pc' = [pc EXCEPT ![w] = IF j.kind = "send" THEN "load" ELSE "status"]
    BY <1>12 DEF Take
  <2>2. \A v \in Worker : pc'[v] = "mail" => pc[v] = "mail" /\ hand'[v] = hand[v]
    BY <1>0, <2>1 DEF WorkersOK
  <2>3. UNCHANGED <<mails, unmarked, overlaps>>
    BY <1>12 DEF Take
  <2> QED BY <1>10, <2>2, <2>3
<1>13. ASSUME NEW w \in Worker, Step(w), ~Take(w), ~Load(w), ~Send(w), ~SendFails(w)
       PROVE  c' + n' <= 1 + overlaps'[d]
  <2>1. Done(w) \/ (\E l \in {"log", "event", "fail"} : GoTo(w, l))
    BY <1>13 DEF Step, LoadFails, Mark, MarkFails, Log, LogFails, Fail,
       Status, StatusFails, Event, EventFails, AfterStatus
  <2>2. mails' = mails /\ overlaps' = overlaps /\ unmarked \subseteq unmarked'
    BY <1>13 DEF Step, LoadFails, Mark, MarkFails, Log, LogFails, Fail,
       Status, StatusFails, Event, EventFails
  <2> QED BY <1>10, <1>11, <2>1, <2>2
<1>14. CASE Crash
  BY <1>10, <1>14 DEF Crash
<1>15. CASE \/ \E b \in Browser : (\E e \in Draft : Ask(b, e)) \/ Submit(b) \/ SubmitFails(b)
            \/ \E e \in Draft : Delete(e)
            \/ UNCHANGED vars
  BY <1>10, <1>15 DEF Ask, Submit, SubmitFails, Delete, vars
<1>16. CASE \/ \E m \in Mail, k \in Reports : Notify(m, k)
            \/ \E j \in queue : PromoteTwice(j)
  BY <1>10, <1>16 DEF Notify, PromoteTwice
<1> QED
  BY <1>6, <1>8, <1>9, <1>12, <1>13, <1>14, <1>15, <1>16 DEF Next

-----------------------------------------------------------------------------

(* The invariant that the theorems rest on holds in every reachable state. *)
THEOREM OutboundInvariant == Spec => []OutboundInv
<1>1. Init => OutboundInv
  <2> SUFFICES ASSUME Init PROVE OutboundInv
    OBVIOUS
  <2>1. Mail = {}
    BY DEF Init, Mail
  <2>2. MailedMarked /\ LoggedIsSent
    BY <2>1 DEF MailedMarked, LoggedIsSent
  <2>3. LogMarked
    BY DEF Init, LogMarked
  <2>4. SendsEarned
    <3> SUFFICES ASSUME NEW d \in Draft
                 PROVE  Cardinality(Counted(d)) + Cardinality(Mailing(d)) <= 1 + overlaps[d]
      BY DEF SendsEarned
    <3>1. Counted(d) = {} /\ Mailing(d) = {}
      BY <2>1 DEF Counted, MailsOf, Mailing, Init
    <3>2. Cardinality(Counted(d)) = 0 /\ Cardinality(Mailing(d)) = 0
      BY <3>1, FS_EmptySet
    <3> QED BY <3>2 DEF Init
  <2> QED BY <2>2, <2>3, <2>4, TypeInit DEF OutboundInv
<1>2. OutboundInv /\ [Next]_vars => OutboundInv'
  BY TypeStep, MailedMarkedStep, LogMarkedStep, LoggedStep, SendsEarnedStep DEF OutboundInv
<1> QED BY <1>1, <1>2, PTL DEF Spec

(* Every variable of sending keeps its type: no step of the API, a worker  *)
(* or Postmark leaves a job, a row or a program counter out of its range.  *)
THEOREM TypeCorrect == Spec => []TypeOK
<1>1. OutboundInv => TypeOK
  BY DEF OutboundInv
<1> QED BY <1>1, OutboundInvariant, PTL

(* SendProcessor marks what it mailed: a mailed message that is still a    *)
(* draft has a worker about to mark it, or lost it in between.             *)
THEOREM MailedIsMarked == Spec => []MailedMarked
<1>1. OutboundInv => MailedMarked
  BY DEF OutboundInv
<1> QED BY <1>1, OutboundInvariant, PTL

(* No delivery log is ever found for a draft or a deleted message.         *)
THEOREM LogsBelongToSent == Spec => []LoggedIsSent
<1>1. OutboundInv => LoggedIsSent
  BY DEF OutboundInv
<1> QED BY <1>1, OutboundInvariant, PTL

(* However many requests, workers, retries and failures there are, a draft *)
(* is mailed more than once only for interrupted or overlapping sends.     *)
THEOREM NoUnearnedMail == Spec => []MailsEarned
<1>1. OutboundInv => MailsEarned
  <2> SUFFICES ASSUME OutboundInv, NEW d \in Draft
               PROVE  Cardinality(MailsOf(d)) <=
                        1 + Cardinality(MailsOf(d) \cap unmarked) + overlaps[d]
    BY DEF MailsEarned
  <2> DEFINE u == MailsOf(d) \cap unmarked
  <2>1. /\ Cardinality(Counted(d)) + Cardinality(Mailing(d)) <= 1 + overlaps[d]
        /\ overlaps[d] \in Nat
    BY DEF OutboundInv, SendsEarned, TypeOK
  <2>2. /\ IsFiniteSet(Counted(d)) /\ Cardinality(Counted(d)) \in Nat
        /\ Cardinality(Mailing(d)) \in Nat
    BY CountsFinite DEF OutboundInv
  <2>3. IsFiniteSet(u) /\ Cardinality(u) \in Nat
    <3>1. IsFiniteSet(Mail)
      BY FS_Interval DEF OutboundInv, TypeOK, Mail
    <3>2. u \subseteq Mail
      BY DEF MailsOf
    <3> QED BY <3>1, <3>2, FS_Subset, FS_CardinalityType
  <2>4. MailsOf(d) = Counted(d) \cup u /\ Counted(d) \cap u = {}
    BY DEF Counted
  <2>5. Cardinality(MailsOf(d)) = Cardinality(Counted(d)) + Cardinality(u)
    <3> HIDE DEF u
    <3>1. Cardinality(Counted(d) \cup u) = Cardinality(Counted(d)) + Cardinality(u)
      BY <2>2, <2>3, <2>4, DisjointCount
    <3> QED BY <2>4, <3>1
  <2> QED BY <2>1, <2>2, <2>3, <2>5
<1> QED BY <1>1, OutboundInvariant, PTL

-----------------------------------------------------------------------------
(* Bounces are accounted for.                                              *)

(* A worker that Postmark answered, and that has not logged the mail yet:  *)
(* the mail is its own, and has no delivery log.                           *)
Answered(w) == pc[w] \in {"mark", "log"}

AnsweredUnlogged ==
  \A w \in Worker : Answered(w) =>
    /\ log[mid[w]] = "none"
    /\ \A v \in Worker \ {w} : Answered(v) => mid[v] # mid[w]

(* Only what Postmark reported becomes a job.                              *)
JobsReported ==
  /\ \A j \in queue : j.kind # "send" => <<j.of, j.kind>> \in reported
  /\ \A w \in Worker : pc[w] \in Reporting => Report(w) \in reported

(* Where the report of a bounce of m is: on the queue, with a worker that  *)
(* has not updated the log, or past the update, which the log shows.       *)
Queued(m) == \E j \in queue : j.kind = "bounce" /\ j.of = m
At(m, l) == \E w \in Worker : pc[w] = l /\ Report(w) = <<m, "bounce">>
BounceLogged(m) ==
  \/ log[m] = "bounced"
  \/ log[m] # "none" /\ <<m, "delivery">> \in reported
Tracked(m) ==
  \/ mails[m] \notin rows
  \/ <<m, "bounce">> \in missed
  \/ Queued(m) \/ At(m, "status")
  \/ BounceLogged(m) /\ (m \in bounces \/ At(m, "event"))

BouncesTracked == \A m \in Mail : <<m, "bounce">> \in reported => Tracked(m)

BounceInv == AnsweredUnlogged /\ JobsReported /\ BouncesTracked

LEMMA AnsweredKept ==
  ASSUME AnsweredUnlogged,
         \A v \in Worker : Answered(v)' =>
           Answered(v) /\ mid'[v] = mid[v] /\ log'[mid[v]] = "none"
  PROVE  AnsweredUnlogged'
BY DEF AnsweredUnlogged, Answered

(* A worker that is done, or goes where it has nothing new to log.         *)
LEMMA AnsweredMoves ==
  ASSUME TypeOK, AnsweredUnlogged, NEW w \in Worker,
         \/ Done(w)
         \/ \E l : GoTo(w, l) /\ (l \in {"mark", "log"} => Answered(w)),
         \A v \in Worker \ {w} : Answered(v) => log'[mid[v]] = "none",
         Answered(w)' => log'[mid[w]] = "none"
  PROVE  AnsweredUnlogged'
<1>1. pc \in [Worker -> {"idle"} \cup Sending \cup Reporting] /\ mid \in [Worker -> Nat]
  BY DEF TypeOK
<1>2. \A v \in Worker \ {w} : pc'[v] = pc[v] /\ mid'[v] = mid[v]
  BY <1>1 DEF Done, GoTo
<1>3. Answered(w)' => Answered(w) /\ mid'[w] = mid[w]
  BY <1>1 DEF Done, GoTo, Answered
<1>4. \A v \in Worker \ {w} : Answered(v)' => Answered(v)
  BY <1>2 DEF Answered
<1>5. \A v \in Worker : Answered(v)' =>
        Answered(v) /\ mid'[v] = mid[v] /\ log'[mid[v]] = "none"
  BY <1>2, <1>3, <1>4
<1> QED BY <1>5, AnsweredKept

LEMMA AnsweredStep ==
  ASSUME TypeOK, AnsweredUnlogged, [Next]_vars
  PROVE  AnsweredUnlogged'
<1> USE DEF dbVars, goVars, history
<1>0. /\ WorkersOK /\ TablesOK
      /\ \A w \in Worker : Answered(w) => mid[w] \in Mail
  BY TypeParts DEF WorkersOK, Answered
<1>1. CASE UNCHANGED <<pc, mid, log>>
  BY <1>1 DEF AnsweredUnlogged, Answered
<1>2. ASSUME NEW w \in Worker, UNCHANGED log,
             \/ Done(w)
             \/ \E l : GoTo(w, l) /\ (l \in {"mark", "log"} => Answered(w))
      PROVE  AnsweredUnlogged'
  <2>1. Answered(w)' => Answered(w)
    BY <1>0, <1>2 DEF Done, GoTo, Answered, WorkersOK
  <2>2. /\ \A v \in Worker \ {w} : Answered(v) => log'[mid[v]] = "none"
        /\ Answered(w)' => log'[mid[w]] = "none"
    BY <1>2, <2>1 DEF AnsweredUnlogged
  <2> QED BY <1>2, <2>2, AnsweredMoves
<1>3. ASSUME NEW w \in Worker, Take(w)
      PROVE  AnsweredUnlogged'
  <2>1. \A v \in Worker : Answered(v)' => Answered(v)
    BY <1>0, <1>3 DEF Take, WorkersOK, Answered
  <2>2. mid' = mid /\ log' = log
    BY <1>3 DEF Take
  <2> QED BY <2>1, <2>2, AnsweredKept DEF AnsweredUnlogged
<1>4. ASSUME NEW w \in Worker, Load(w) \/ LoadFails(w) \/ Mark(w) \/ MarkFails(w)
      PROVE  AnsweredUnlogged'
  <2>1. \E l : GoTo(w, l) /\ (l \in {"mark", "log"} => Answered(w))
    BY <1>4 DEF Load, LoadFails, Mark, MarkFails, Answered
  <2>2. log' = log
    BY <1>4 DEF Load, LoadFails, Mark, MarkFails
  <2> QED BY <1>2, <2>1, <2>2
<1>5. ASSUME NEW w \in Worker, LogFails(w) \/ Fail(w) \/ Event(w) \/ EventFails(w)
      PROVE  AnsweredUnlogged'
  BY <1>2, <1>5 DEF LogFails, Fail, Event, EventFails
<1>6. ASSUME NEW w \in Worker, pc[w] = "mail", Accept(hand[w].of)
      PROVE  /\ Len(mails) + 1 \notin Mail
             /\ \A m \in Mail : log'[m] = log[m]
             /\ log'[Len(mails) + 1] = "none"
  <2>1. hand[w].of \in Draft
    BY <1>0, <1>6 DEF WorkersOK, Sending, SendJob
  <2> QED BY <1>6, <2>1, Grow
<1>7. ASSUME NEW w \in Worker, Send(w)
      PROVE  AnsweredUnlogged'
  <2>1. /\ Len(mails) + 1 \notin Mail
        /\ \A m \in Mail : log'[m] = log[m]
        /\ log'[Len(mails) + 1] = "none"
    BY <1>6, <1>7 DEF Send
  <2>2. /\ mid'[w] = Len(mails) + 1
        /\ \A v \in Worker \ {w} : mid'[v] = mid[v] /\ (Answered(v)' <=> Answered(v))
    BY <1>0, <1>7 DEF Send, WorkersOK, Answered
  <2>3. \A v \in Worker \ {w} : Answered(v)' => mid[v] \in Mail /\ log'[mid[v]] = "none"
    BY <1>0, <2>1, <2>2 DEF AnsweredUnlogged
  <2>4. \A v, u \in Worker \ {w} : v # u /\ Answered(v)' /\ Answered(u)' => mid'[v] # mid'[u]
    BY <2>2 DEF AnsweredUnlogged
  <2> QED BY <2>1, <2>2, <2>3, <2>4 DEF AnsweredUnlogged
<1>8. ASSUME NEW w \in Worker, SendFails(w)
      PROVE  AnsweredUnlogged'
  <2>1. pc[w] = "mail" /\ GoTo(w, "fail")
    BY <1>8 DEF SendFails
  <2>2. ~Answered(w) /\ ~Answered(w)'
    BY <1>0, <2>1 DEF Answered, GoTo, WorkersOK
  <2>3. \A m \in Mail : log'[m] = log[m]
    BY <1>6, <1>8, <2>1 DEF SendFails
  <2>4. \A v \in Worker \ {w} : Answered(v) => log'[mid[v]] = "none"
    BY <1>0, <2>3 DEF AnsweredUnlogged
  <2> QED BY <2>1, <2>2, <2>4, AnsweredMoves
<1>9. ASSUME NEW w \in Worker, Log(w)
      PROVE  AnsweredUnlogged'
  <2>1. Answered(w) /\ Done(w) /\ log' = [log EXCEPT ![mid[w]] = "sent"]
    BY <1>9 DEF Log, Answered
  <2>2. ~Answered(w)'
    BY <1>0, <2>1 DEF Answered, Done, WorkersOK
  <2>3. \A v \in Worker \ {w} : Answered(v) => log'[mid[v]] = "none"
    BY <1>0, <2>1 DEF AnsweredUnlogged, TablesOK
  <2> QED BY <2>1, <2>2, <2>3, AnsweredMoves
<1>10. ASSUME NEW w \in Worker, Status(w) \/ StatusFails(w)
       PROVE  AnsweredUnlogged'
  <2>1. /\ pc[w] = "status" /\ AfterStatus(w)
        /\ \A m \in Mail : log[m] = "none" => log'[m] = "none"
    BY <1>0, <1>10 DEF Status, StatusFails, TablesOK
  <2>2. ~Answered(w)'
    BY <1>0, <2>1 DEF Answered, AfterStatus, Done, GoTo, WorkersOK
  <2>3. \A v \in Worker \ {w} : Answered(v) => log'[mid[v]] = "none"
    BY <1>0, <2>1 DEF AnsweredUnlogged
  <2>4. Done(w) \/ \E l : GoTo(w, l) /\ (l \in {"mark", "log"} => Answered(w))
    BY <2>1 DEF AfterStatus
  <2> QED BY <2>2, <2>3, <2>4, AnsweredMoves
<1>11. ASSUME NEW d \in Draft, Delete(d)
       PROVE  AnsweredUnlogged'
  <2>1. \A m \in Mail : log[m] = "none" => log'[m] = "none"
    BY <1>0, <1>11 DEF Delete
  <2> QED BY <1>0, <1>11, <2>1, AnsweredKept DEF Delete, AnsweredUnlogged, Answered
<1>12. CASE Crash
  BY <1>12 DEF Crash, AnsweredUnlogged, Answered
<1>13. CASE \/ \E b \in Browser : (\E d \in Draft : Ask(b, d)) \/ Submit(b) \/ SubmitFails(b)
            \/ \E m \in Mail, k \in Reports : Notify(m, k)
            \/ \E j \in queue : PromoteTwice(j)
            \/ UNCHANGED vars
  BY <1>1, <1>13 DEF Ask, Submit, SubmitFails, Notify, PromoteTwice, vars
<1> QED
  BY <1>3, <1>4, <1>5, <1>7, <1>8, <1>9, <1>10, <1>11, <1>12, <1>13 DEF Next, Step

(* A worker keeps its report, or has none.                                 *)
LEMMA ReportsKept ==
  ASSUME JobsReported, reported \subseteq reported',
         \A j \in queue' : j.kind # "send" => j \in queue \/ <<j.of, j.kind>> \in reported',
         \A w \in Worker : pc'[w] \in Reporting =>
           (pc[w] \in Reporting /\ hand'[w] = hand[w]) \/ Report(w)' \in reported'
  PROVE  JobsReported'
BY DEF JobsReported, Report

LEMMA JobsReportedStep ==
  ASSUME TypeOK, JobsReported, [Next]_vars
  PROVE  JobsReported'
<1> USE DEF dbVars, goVars, history
<1>0. WorkersOK /\ QueueOK
  BY TypeParts
<1>1. ASSUME UNCHANGED goVars, reported \subseteq reported',
             \A j \in queue' : j.kind # "send" => j \in queue \/ <<j.of, j.kind>> \in reported'
      PROVE  JobsReported'
  BY <1>1, ReportsKept
<1>2. ASSUME NEW w \in Worker, UNCHANGED reported,
             \A j \in queue' : j.kind # "send" => j \in queue,
             \/ Done(w)
             \/ \E l : GoTo(w, l) /\ (l \in Reporting => pc[w] \in Reporting)
      PROVE  JobsReported'
  <2>1. \A v \in Worker \ {w} : pc'[v] = pc[v] /\ hand'[v] = hand[v]
    BY <1>0, <1>2 DEF Done, GoTo, WorkersOK
  <2>2. pc'[w] \in Reporting => pc[w] \in Reporting /\ hand'[w] = hand[w]
    BY <1>0, <1>2 DEF Done, GoTo, WorkersOK, Reporting
  <2> QED BY <1>2, <2>1, <2>2, ReportsKept
<1>3. ASSUME NEW b \in Browser, (\E d \in Draft : Ask(b, d)) \/ Submit(b) \/ SubmitFails(b)
      PROVE  JobsReported'
  BY <1>1, <1>3 DEF Ask, Submit, SubmitFails, NewSend
<1>4. ASSUME NEW d \in Draft, Delete(d)
      PROVE  JobsReported'
  BY <1>1, <1>4 DEF Delete
<1>5. ASSUME NEW w \in Worker, Take(w)
      PROVE  JobsReported'
  <2>1. PICK j \in queue :
          /\ queue' = queue \ {j} /\ hand' = [hand EXCEPT ![w] = j]
          /\ pc' = [pc EXCEPT ![w] = IF j.kind = "send" THEN "load" ELSE "status"]
    BY <1>5 DEF Take
  <2>2. \A v \in Worker \ {w} : pc'[v] = pc[v] /\ hand'[v] = hand[v]
    BY <1>0, <2>1 DEF WorkersOK
  <2>3. pc'[w] \in Reporting => Report(w)' \in reported
    BY <1>0, <2>1 DEF WorkersOK, Reporting, Report, JobsReported
  <2>4. reported' = reported
    BY <1>5 DEF Take
  <2> QED BY <2>1, <2>2, <2>3, <2>4, ReportsKept
<1>6. ASSUME NEW w \in Worker,
             Load(w) \/ LoadFails(w) \/ SendFails(w) \/ Mark(w) \/ MarkFails(w)
      PROVE  JobsReported'
  <2>1. \E l : GoTo(w, l) /\ (l \in Reporting => pc[w] \in Reporting)
    BY <1>6 DEF Load, LoadFails, SendFails, Mark, MarkFails, Reporting
  <2>2. UNCHANGED <<reported, queue>>
    BY <1>6 DEF Load, LoadFails, SendFails, Mark, MarkFails
  <2> QED BY <1>2, <2>1, <2>2
<1>7. ASSUME NEW w \in Worker, Send(w)
      PROVE  JobsReported'
  <2>1. \A v \in Worker : pc'[v] \in Reporting => pc[v] \in Reporting
    BY <1>0, <1>7 DEF Send, WorkersOK, Reporting
  <2>2. UNCHANGED <<hand, reported, queue>>
    BY <1>7 DEF Send
  <2> QED BY <2>1, <2>2, ReportsKept
<1>8. ASSUME NEW w \in Worker, Log(w) \/ LogFails(w) \/ Event(w) \/ EventFails(w)
      PROVE  JobsReported'
  BY <1>2, <1>8 DEF Log, LogFails, Event, EventFails
<1>9. ASSUME NEW w \in Worker, Fail(w)
      PROVE  JobsReported'
  <2>1. hand[w].kind = "send" /\ hand[w] \in SendJob
    BY <1>0, <1>9 DEF Fail, WorkersOK, SendJob, Sending
  <2>2. [hand[w] EXCEPT !.attempts = @ + 1].kind = "send"
    BY <2>1 DEF SendJob
  <2>3. \A j \in queue' : j.kind # "send" => j \in queue
    BY <1>9, <2>2 DEF Fail
  <2> QED BY <1>2, <1>9, <2>3 DEF Fail
<1>10. ASSUME NEW w \in Worker, Status(w) \/ StatusFails(w)
       PROVE  JobsReported'
  <2>1. pc[w] \in Reporting /\ AfterStatus(w) /\ UNCHANGED <<reported, queue>>
    BY <1>10 DEF Status, StatusFails, Reporting
  <2>2. Done(w) \/ \E l : GoTo(w, l) /\ (l \in Reporting => pc[w] \in Reporting)
    BY <2>1 DEF AfterStatus
  <2> QED BY <1>2, <2>1, <2>2
<1>11. ASSUME NEW m \in Mail, NEW k \in Reports, Notify(m, k)
       PROVE  JobsReported'
  BY <1>1, <1>11 DEF Notify
<1>12. ASSUME NEW j \in queue, PromoteTwice(j)
       PROVE  JobsReported'
  <2>1. j \in SendJob
    BY <1>0, <1>12 DEF PromoteTwice, QueueOK, SendJob, ReportJob
  <2>2. [j EXCEPT !.id = made].kind = "send"
    BY <1>12, <2>1 DEF PromoteTwice, SendJob
  <2> QED BY <1>1, <1>12, <2>2 DEF PromoteTwice
<1>13. CASE Crash
  <2>1. \A v \in Worker : pc'[v] \notin Reporting
    BY <1>13 DEF Crash, Reporting
  <2> QED BY <1>13, <2>1, ReportsKept DEF Crash
<1>14. CASE UNCHANGED vars
  BY <1>1, <1>14 DEF vars
<1> QED
  BY <1>3, <1>4, <1>5, <1>6, <1>7, <1>8, <1>9, <1>10, <1>11, <1>12, <1>13, <1>14
  DEF Next, Step

(* A worker that has no report in hand moves.                              *)
LEMMA TrackedBeside ==
  ASSUME TypeOK, NEW m \in Mail, Tracked(m), mails'[m] = mails[m], UNCHANGED <<rows, bounces>>,
         missed \subseteq missed', reported \subseteq reported',
         BounceLogged(m) => log'[m] = log[m],
         \A j \in queue : j.kind = "bounce" => j \in queue',
         NEW w \in Worker, pc[w] \notin Reporting,
         \A v \in Worker \ {w} : pc'[v] = pc[v] /\ hand'[v] = hand[v]
  PROVE  Tracked(m)'
<1>1. Queued(m) => Queued(m)'
  BY DEF Queued
<1>2. ASSUME NEW l \in Reporting, At(m, l)
      PROVE  At(m, l)'
  <2>1. PICK v \in Worker : pc[v] = l /\ Report(v) = <<m, "bounce">>
    BY <1>2 DEF At
  <2>2. v # w
    BY <2>1
  <2>3. pc'[v] = l /\ Report(v)' = <<m, "bounce">>
    BY <2>1, <2>2 DEF Report
  <2> QED BY <2>3 DEF At
<1>3. \A l \in {"status", "event"} : At(m, l) => At(m, l)'
  BY <1>2 DEF Reporting
<1>4. BounceLogged(m) => BounceLogged(m)'
  BY DEF BounceLogged
<1> QED BY <1>1, <1>3, <1>4 DEF Tracked

(* A worker moves a report on.                                             *)
LEMMA TrackedReport ==
  ASSUME TypeOK, NEW m \in Mail, Tracked(m), UNCHANGED <<mails, rows, queue>>,
         missed \subseteq missed', reported \subseteq reported', bounces \subseteq bounces',
         BounceLogged(m) => BounceLogged(m)',
         NEW w \in Worker, pc[w] \in Reporting,
         \A v \in Worker \ {w} : pc'[v] = pc[v] /\ hand'[v] = hand[v],
         Report(w) = <<m, "bounce">> /\ (pc[w] = "event" => BounceLogged(m)) => Tracked(m)'
  PROVE  Tracked(m)'
<1>1. Queued(m) => Queued(m)'
  BY DEF Queued
<1>2. ASSUME NEW l \in Reporting, At(m, l), l = "event" => BounceLogged(m), ~Tracked(m)'
      PROVE  At(m, l)'
  <2>1. PICK v \in Worker : pc[v] = l /\ Report(v) = <<m, "bounce">>
    BY <1>2 DEF At
  <2>2. v # w
    BY <1>2, <2>1
  <2>3. pc'[v] = l /\ Report(v)' = <<m, "bounce">>
    BY <2>1, <2>2 DEF Report
  <2> QED BY <2>3 DEF At
<1>3. /\ At(m, "status") => At(m, "status")' \/ Tracked(m)'
      /\ BounceLogged(m) /\ At(m, "event") => At(m, "event")' \/ Tracked(m)'
  BY <1>2 DEF Reporting
<1> QED BY <1>1, <1>3 DEF Tracked

LEMMA TrackedWorker ==
  ASSUME TypeOK, AnsweredUnlogged, JobsReported, NEW w \in Worker, Step(w),
         NEW m \in Mail, <<m, "bounce">> \in reported, Tracked(m)
  PROVE  Tracked(m)'
<1> USE DEF dbVars, goVars, history
<1>0. /\ WorkersOK /\ TablesOK /\ QueueOK
      /\ reported' = reported
  BY TypeParts DEF Step, Take, Load, LoadFails, Send, SendFails, Mark, MarkFails, Log, LogFails,
     Fail, Status, StatusFails, Event, EventFails
<1>1. mails'[m] = mails[m]
  BY MailsStay DEF Next
<1>2. ASSUME \/ Done(w)
             \/ \E l : GoTo(w, l)
      PROVE  \A v \in Worker \ {w} : pc'[v] = pc[v] /\ hand'[v] = hand[v]
  BY <1>0, <1>2 DEF Done, GoTo, WorkersOK
<1>3. CASE Take(w)
  <2>1. PICK j \in queue :
          /\ queue' = queue \ {j} /\ hand' = [hand EXCEPT ![w] = j]
          /\ pc' = [pc EXCEPT ![w] = IF j.kind = "send" THEN "load" ELSE "status"]
    BY <1>3 DEF Take
  <2>2. /\ \A v \in Worker \ {w} : pc'[v] = pc[v] /\ hand'[v] = hand[v]
        /\ hand'[w] = j /\ pc'[w] = IF j.kind = "send" THEN "load" ELSE "status"
        /\ pc[w] = "idle"
    BY <1>0, <1>3, <2>1 DEF WorkersOK, Take
  <2>3. /\ UNCHANGED <<rows, bounces, log, missed>>
    BY <1>3 DEF Take
  <2>4. CASE j.kind = "bounce" /\ j.of = m
    <3>1. At(m, "status")'
      BY <2>2, <2>4 DEF At, Report
    <3> QED BY <3>1 DEF Tracked
  <2>5. CASE ~(j.kind = "bounce" /\ j.of = m)
    <3>1. Queued(m) => Queued(m)'
      BY <2>1, <2>5 DEF Queued
    <3>2. \A l \in {"status", "event"} : At(m, l) => At(m, l)'
      BY <2>2 DEF At, Report
    <3>3. BounceLogged(m) => BounceLogged(m)'
      BY <1>0, <2>3 DEF BounceLogged
    <3> QED BY <1>1, <2>3, <3>1, <3>2, <3>3 DEF Tracked
  <2> QED BY <2>4, <2>5
<1>4. CASE Load(w) \/ LoadFails(w) \/ Mark(w) \/ MarkFails(w)
  <2>1. pc[w] \notin Reporting /\ \E l : GoTo(w, l)
    BY <1>4 DEF Load, LoadFails, Mark, MarkFails, Reporting
  <2>2. UNCHANGED <<rows, bounces, log, missed, queue>>
    BY <1>4 DEF Load, LoadFails, Mark, MarkFails
  <2> QED BY <1>0, <1>1, <1>2, <2>1, <2>2, TrackedBeside
<1>5. CASE Send(w) \/ SendFails(w)
  <2>1. pc[w] = "mail" /\ pc[w] \notin Reporting
    BY <1>5 DEF Send, SendFails, Reporting
  <2>2. \A v \in Worker \ {w} : pc'[v] = pc[v] /\ hand'[v] = hand[v]
    BY <1>0, <1>5 DEF Send, SendFails, GoTo, WorkersOK
  <2>3. UNCHANGED <<rows, bounces, missed, queue>>
    BY <1>5 DEF Send, SendFails
  <2>4. log'[m] = log[m]
    <3>1. hand[w].of \in Draft
      BY <1>0, <2>1 DEF WorkersOK, Sending, SendJob
    <3> QED BY <1>5, <3>1, Grow DEF Send, SendFails
  <2> QED BY <1>0, <1>1, <2>1, <2>2, <2>3, <2>4, TrackedBeside
<1>6. CASE Log(w)
  <2>1. /\ pc[w] = "log" /\ pc[w] \notin Reporting /\ Done(w)
        /\ log' = [log EXCEPT ![mid[w]] = "sent"]
        /\ UNCHANGED <<rows, bounces, missed, queue>>
    BY <1>6 DEF Log, Reporting
  <2>2. log[mid[w]] = "none"
    BY <2>1 DEF AnsweredUnlogged, Answered
  <2>3. BounceLogged(m) => log'[m] = log[m]
    BY <1>0, <2>1, <2>2 DEF BounceLogged, TablesOK
  <2> QED BY <1>0, <1>1, <1>2, <2>1, <2>3, TrackedBeside
<1>7. CASE LogFails(w) \/ Fail(w)
  <2>1. /\ pc[w] \notin Reporting /\ Done(w)
        /\ UNCHANGED <<rows, bounces, log>> /\ missed \subseteq missed' /\ queue \subseteq queue'
    BY <1>7 DEF LogFails, Fail, Reporting
  <2> QED BY <1>0, <1>1, <1>2, <2>1, TrackedBeside
<1>8. CASE Status(w)
  <2>1. /\ pc[w] = "status" /\ pc[w] \in Reporting /\ AfterStatus(w)
        /\ UNCHANGED <<mails, rows, queue, bounces>> /\ missed \subseteq missed'
    BY <1>8 DEF Status, Reporting
  <2>2. \A v \in Worker \ {w} : pc'[v] = pc[v] /\ hand'[v] = hand[v]
    BY <1>2, <2>1 DEF AfterStatus
  <2>3. hand[w].of \in Mail /\ hand[w].kind \in {"delivery", "bounce"} /\ Report(w) \in reported
    BY <1>0, <2>1 DEF WorkersOK, ReportJob, JobsReported
  <2>4. BounceLogged(m) => BounceLogged(m)'
    <3>1. CASE log[hand[w].of] # "none" /\ hand[w].of = m
      <4>1. log'[m] = Result(hand[w].kind)
        BY <1>0, <1>8, <3>1 DEF Status, TablesOK
      <4>2. CASE hand[w].kind = "bounce"
        BY <4>1, <4>2 DEF Result, BounceLogged
      <4>3. CASE hand[w].kind = "delivery"
        <5>1. <<m, "delivery">> \in reported'
          BY <1>0, <2>3, <3>1, <4>3 DEF Report
        <5> QED BY <4>1, <4>3, <5>1 DEF Result, BounceLogged
      <4> QED BY <2>3, <4>2, <4>3
    <3>2. CASE ~(log[hand[w].of] # "none" /\ hand[w].of = m)
      <4>1. log'[m] = log[m]
        BY <1>0, <1>8, <3>2 DEF Status, TablesOK
      <4> QED BY <1>0, <4>1 DEF BounceLogged
    <3> QED BY <3>1, <3>2
  <2>5. ASSUME Report(w) = <<m, "bounce">> PROVE Tracked(m)'
    <3>1. hand[w].of = m /\ hand[w].kind = "bounce"
      BY <2>5 DEF Report
    <3>2. CASE log[m] = "none"
      <4>1. <<m, "bounce">> \in missed'
        BY <1>8, <2>5, <3>1, <3>2 DEF Status
      <4> QED BY <4>1 DEF Tracked
    <3>3. CASE log[m] # "none"
      <4>1. log'[m] = "bounced"
        BY <1>0, <1>8, <3>1, <3>3 DEF Status, TablesOK, Result
      <4>2. pc'[w] = "event" /\ hand' = hand
        BY <1>0, <2>1, <3>1 DEF AfterStatus, GoTo, WorkersOK
      <4>3. At(m, "event")'
        BY <2>5, <4>2 DEF At, Report
      <4> QED BY <4>1, <4>3 DEF Tracked, BounceLogged
    <3> QED BY <3>2, <3>3
  <2> QED BY <1>0, <2>1, <2>2, <2>4, <2>5, TrackedReport
<1>9. CASE StatusFails(w) \/ EventFails(w)
  <2>1. /\ pc[w] \in Reporting /\ missed' = missed \cup {Report(w)}
        /\ UNCHANGED <<mails, rows, queue, bounces, log>>
        /\ Done(w) \/ \E l : GoTo(w, l)
    BY <1>9 DEF StatusFails, EventFails, AfterStatus, Reporting
  <2>2. \A v \in Worker \ {w} : pc'[v] = pc[v] /\ hand'[v] = hand[v]
    BY <1>2, <2>1
  <2>3. BounceLogged(m) => BounceLogged(m)'
    BY <1>0, <2>1 DEF BounceLogged
  <2>4. Report(w) = <<m, "bounce">> => Tracked(m)'
    BY <2>1 DEF Tracked
  <2> QED BY <1>0, <2>1, <2>2, <2>3, <2>4, TrackedReport
<1>10. CASE Event(w)
  <2>1. /\ pc[w] = "event" /\ pc[w] \in Reporting /\ Done(w)
        /\ bounces' = bounces \cup {i \in {hand[w].of} : log[i] # "none"}
        /\ UNCHANGED <<mails, rows, queue, missed, log>>
    BY <1>10 DEF Event, Reporting
  <2>2. \A v \in Worker \ {w} : pc'[v] = pc[v] /\ hand'[v] = hand[v]
    BY <1>2, <2>1
  <2>3. BounceLogged(m) => BounceLogged(m)'
    BY <1>0, <2>1 DEF BounceLogged
  <2>4. ASSUME Report(w) = <<m, "bounce">>, BounceLogged(m) PROVE Tracked(m)'
    <3>1. m \in bounces'
      BY <2>1, <2>4 DEF Report, BounceLogged
    <3> QED BY <2>3, <2>4, <3>1 DEF Tracked
  <2> QED BY <1>0, <2>1, <2>2, <2>3, <2>4, TrackedReport
<1> QED
  BY <1>3, <1>4, <1>5, <1>6, <1>7, <1>8, <1>9, <1>10 DEF Step

LEMMA BouncesTrackedStep ==
  ASSUME TypeOK, AnsweredUnlogged, JobsReported, BouncesTracked, [Next]_vars
  PROVE  BouncesTracked'
<1> USE DEF dbVars, goVars, history
<1> SUFFICES ASSUME NEW m \in Mail', <<m, "bounce">> \in reported'
             PROVE  Tracked(m)'
  BY DEF BouncesTracked
<1>0. WorkersOK /\ TablesOK /\ QueueOK
  BY TypeParts
<1>1. ASSUME NEW i \in Mail, NEW k \in Reports, Notify(i, k)
      PROVE  Tracked(m)'
  <2>1. /\ UNCHANGED <<mails, rows, log, bounces, pc, hand>> /\ Mail' = Mail
        /\ missed \subseteq missed' /\ queue \subseteq queue' /\ reported' = reported \cup {<<i, k>>}
    BY <1>1 DEF Notify, Mail
  <2>2. CASE <<m, "bounce">> \in reported
    <3>1. Tracked(m)
      BY <2>1, <2>2 DEF BouncesTracked
    <3>2. BounceLogged(m) => BounceLogged(m)'
      BY <2>1 DEF BounceLogged
    <3>3. /\ Queued(m) => Queued(m)'
          /\ \A l \in {"status", "event"} : At(m, l) => At(m, l)'
      BY <2>1 DEF Queued, At, Report
    <3> QED BY <2>1, <3>1, <3>2, <3>3 DEF Tracked
  <2>3. CASE <<m, "bounce">> \notin reported
    <3>1. i = m /\ k = "bounce"
      BY <2>1, <2>3
    <3>2. [kind |-> k, of |-> i] \in queue' \/ <<m, "bounce">> \in missed'
      BY <1>1, <3>1 DEF Notify
    <3>3. Queued(m)' \/ <<m, "bounce">> \in missed'
      BY <3>1, <3>2 DEF Queued
    <3> QED BY <3>3 DEF Tracked
  <2> QED BY <2>2, <2>3
<1>2. ASSUME reported' = reported
      PROVE  m \in Mail /\ <<m, "bounce">> \in reported /\ Tracked(m) /\ mails'[m] = mails[m]
  <2>1. m \in Mail
    BY <1>0, <1>2 DEF TablesOK
  <2> QED BY <1>2, <2>1, MailsStay DEF BouncesTracked
<1>3. ASSUME NEW w \in Worker, Step(w)
      PROVE  Tracked(m)'
  <2>1. reported' = reported
    BY <1>3 DEF Step, Take, Load, LoadFails, Send, SendFails, Mark, MarkFails, Log, LogFails,
       Fail, Status, StatusFails, Event, EventFails
  <2> QED BY <1>2, <1>3, <2>1, TrackedWorker
<1>4. ASSUME UNCHANGED <<mails, rows, log, bounces, pc, hand, reported>>,
             missed \subseteq missed', queue \subseteq queue'
      PROVE  Tracked(m)'
  <2>1. /\ BounceLogged(m) => BounceLogged(m)'
        /\ Queued(m) => Queued(m)'
        /\ \A l \in {"status", "event"} : At(m, l) => At(m, l)'
    BY <1>4 DEF BounceLogged, Queued, At, Report
  <2> QED BY <1>2, <1>4, <2>1 DEF Tracked
<1>5. CASE \/ \E b \in Browser : (\E d \in Draft : Ask(b, d)) \/ Submit(b) \/ SubmitFails(b)
           \/ \E j \in queue : PromoteTwice(j)
           \/ UNCHANGED vars
  BY <1>4, <1>5 DEF Ask, Submit, SubmitFails, PromoteTwice, vars
<1>6. ASSUME NEW d \in Draft, Delete(d)
      PROVE  Tracked(m)'
  <2>1. /\ UNCHANGED <<mails, queue, pc, hand, reported, missed>> /\ rows' = rows \ {d}
        /\ log' = [i \in Mail |-> IF mails[i] = d THEN "none" ELSE log[i]]
        /\ bounces' = {i \in bounces : mails[i] # d}
    BY <1>6 DEF Delete
  <2>2. CASE mails[m] = d
    BY <2>1, <2>2 DEF Tracked
  <2>3. CASE mails[m] # d
    <3>1. log'[m] = log[m] /\ (m \in bounces => m \in bounces')
      BY <1>2, <2>1, <2>3
    <3>2. /\ BounceLogged(m) => BounceLogged(m)'
          /\ Queued(m) => Queued(m)'
          /\ \A l \in {"status", "event"} : At(m, l) => At(m, l)'
      BY <2>1, <3>1 DEF BounceLogged, Queued, At, Report
    <3> QED BY <1>2, <2>1, <3>1, <3>2 DEF Tracked
  <2> QED BY <2>2, <2>3
<1>7. CASE Crash
  <2>1. /\ UNCHANGED <<mails, rows, log, bounces, queue, reported>>
        /\ missed \subseteq missed'
        /\ \A w \in Worker : pc[w] \in Reporting => Report(w) \in missed'
    BY <1>7 DEF Crash
  <2>2. /\ BounceLogged(m) => BounceLogged(m)'
        /\ Queued(m) => Queued(m)'
        /\ \A l \in {"status", "event"} : At(m, l) => <<m, "bounce">> \in missed'
    BY <2>1 DEF BounceLogged, Queued, At, Reporting
  <2> QED BY <1>2, <2>1, <2>2 DEF Tracked
<1> QED BY <1>1, <1>3, <1>5, <1>6, <1>7 DEF Next

(* A bounce Postmark reports for a mail whose message is there is told by  *)
(* both tables, or its report is on the queue or with a worker, or it was  *)
(* made void: nothing is lost between BounceProcessor's two statements.    *)
THEOREM BouncesAreAccounted == Spec => []BouncesAccounted
<1>1. Init => BounceInv
  BY DEF BounceInv, Init, AnsweredUnlogged, Answered, JobsReported, BouncesTracked, Reporting
<1>2. BounceInv /\ TypeOK /\ [Next]_vars => BounceInv'
  BY AnsweredStep, JobsReportedStep, BouncesTrackedStep DEF BounceInv
<1>3. BounceInv => BouncesAccounted
  <2> SUFFICES ASSUME BounceInv, NEW m \in Mail, <<m, "bounce">> \in reported
               PROVE  \/ mails[m] \notin rows \/ Pending(m, "bounce")
                      \/ BounceShown(m) \/ <<m, "bounce">> \in missed
    BY DEF BouncesAccounted
  <2>1. Tracked(m)
    BY DEF BounceInv, BouncesTracked
  <2>2. Queued(m) \/ At(m, "status") \/ At(m, "event") => Pending(m, "bounce")
    BY DEF Queued, At, Pending, Reporting
  <2>3. BounceLogged(m) /\ m \in bounces => BounceShown(m)
    BY DEF BounceLogged, BounceShown
  <2> QED BY <2>1, <2>2, <2>3 DEF Tracked
<1> QED BY <1>1, <1>2, <1>3, TypeCorrect, PTL DEF Spec
=============================================================================
