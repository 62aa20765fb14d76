--------------------------- MODULE MailboxProofs ----------------------------
(***************************************************************************)
(* Proofs about Mailbox, for any messages, mailboxes, goroutines, page     *)
(* size and disruptions.                                                   *)
(***************************************************************************)
EXTENDS Mailbox, TLAPS, FiniteSetTheorems, SequenceTheorems, WellFoundedInduction

USE MailboxAssumption

-----------------------------------------------------------------------------
(* The parts of TypeOK.                                                    *)

TablesOK ==
  /\ rows \subseteq 1..created /\ created \in 0..MaxMessages
  /\ labeled \in [Message -> SUBSET Box]
  /\ flags \in [Message -> SUBSET Flag]
  /\ columns \in [Message -> SUBSET Column]
  /\ \A m \in Message \ rows : labeled[m] = {} /\ flags[m] = {} /\ columns[m] = {}

UidsOK ==
  /\ uids \subseteq Uid /\ named \subseteq Uid /\ shown \subseteq Uid
  /\ \A r \in uids : r.msg \in rows
  /\ last \in Nat

HandsOK ==
  /\ pc \in [Actor -> PC]
  /\ cmd \in [Actor -> Command \cup {None}]
  /\ todo \in [Actor -> SUBSET (1..created)]
  /\ listed \in [Actor -> Nat]
  /\ stmts \in [Actor -> Seq(Statement)]

PlaceOK(a) ==
  /\ cmd[a] = None <=> pc[a] = "idle"
  /\ todo[a] = {} <=> pc[a] \in {"idle", "list"}
  /\ stmts[a] # <<>> <=> pc[a] = "stmt"

CountsOK ==
  /\ commands \in 0..MaxCommands
  /\ disrupted \in 0..MaxDisruptions
  /\ raced \subseteq Message \X Box
  /\ touched \subseteq Message /\ torn \subseteq Message /\ spared \subseteq Message

LEMMA TypeParts ==
  TypeOK <=> /\ TablesOK /\ UidsOK /\ HandsOK /\ CountsOK
             /\ \A a \in Actor : PlaceOK(a)
BY DEF TypeOK, TablesOK, UidsOK, HandsOK, PlaceOK, CountsOK

(* A goroutine is where the kind of its command takes it.                  *)
Setting == {"add", "remove", "replace"}

KindOK(a) ==
  /\ pc[a] \in {"look", "insert"} => cmd[a].kind # "expunge"
  /\ pc[a] = "stmt" => cmd[a].kind \in Setting
  /\ pc[a] = "apply" => cmd[a].kind = "copy"
  /\ pc[a] \in {"read", "remove", "list"} => cmd[a].kind = "expunge"

TypeInv == TypeOK /\ \A a \in Actor : KindOK(a)

-----------------------------------------------------------------------------
(* The operators of the model.                                             *)

LEMMA CommandFields ==
  ASSUME NEW c \in Command
  PROVE  /\ c.box \in Box
         /\ c.kind \in {"fetch", "deliver", "expunge", "copy"} \cup Setting
         /\ c.kind = "expunge" => c.marked \subseteq Message
         /\ c.kind \in Setting => c.aim \in Uid /\ c.flag \in Flag
         /\ c.kind = "copy" => c.aim \in Uid /\ c.dest \in Box
<1>1. CASE c \in [kind : {"fetch", "deliver"}, box : Box]
  BY <1>1 DEF Setting
<1>2. CASE c \in [kind : {"expunge"}, box : Box, marked : SUBSET Message]
  BY <1>2 DEF Setting
<1>3. CASE c \in [kind : {"add", "remove", "replace"}, box : Box, aim : Uid, flag : Flag]
  BY <1>3 DEF Setting
<1>4. CASE c \in [kind : {"copy"}, box : Box, aim : Uid, dest : Box]
  BY <1>4 DEF Setting
<1> QED BY <1>1, <1>2, <1>3, <1>4 DEF Command

LEMMA Smallest ==
  ASSUME NEW S, S \subseteq Nat, S # {}
  PROVE  \E m \in S : \A n \in S : m <= n
<1>1. \E R : IsWellFoundedOn(R, Nat) /\ \A x, y \in Nat : y < x => <<y, x>> \in R
  <2>1. \A x, y \in Nat : y < x => <<y, x>> \in OpToRel(<, Nat)
    BY DEF OpToRel
  <2> QED BY <2>1, NatLessThanWellFounded, Zenon
<1>2. PICK R : IsWellFoundedOn(R, Nat) /\ \A x, y \in Nat : y < x => <<y, x>> \in R
  BY <1>1
<1>3. PICK x \in S : \A y \in S : ~(<<y, x>> \in R)
  BY <1>2, WFMin
<1>4. ASSUME NEW y \in S
      PROVE  x <= y
  <2>1. x \in Nat /\ y \in Nat
    OBVIOUS
  <2>2. ~(y < x)
    BY <1>2, <1>3, <2>1, Zenon
  <2> QED BY <2>1, <2>2
<1> QED BY <1>4

LEMMA FirstIn ==
  ASSUME TablesOK, HandsOK, NEW a \in Actor, todo[a] # {}
  PROVE  First(a) \in todo[a] /\ First(a) \in 1..created /\ First(a) \in Message
<1>1. todo[a] \subseteq 1..created /\ 1..created \subseteq Message
  BY DEF TablesOK, HandsOK, Message
<1>2. \E m \in todo[a] : \A n \in todo[a] : m <= n
  BY <1>1, Smallest
<1> QED BY <1>1, <1>2 DEF First

LEMMA PageOK ==
  ASSUME TablesOK, NEW b, NEW o
  PROVE  Page(b, o) \subseteq 1..created /\ Cardinality(Page(b, o)) \in Nat
<1>1. Page(b, o) \subseteq 1..created
  BY DEF TablesOK, Page, In
<1>2. IsFiniteSet(1..created)
  BY FS_Interval DEF TablesOK
<1> QED BY <1>1, <1>2, FS_Subset, FS_CardinalityType

(* A mailbox that is not empty has a first message on its first page.      *)
LEMMA FirstPage ==
  ASSUME TablesOK, NEW b, In(b) # {}
  PROVE  Page(b, 0) # {}
<1>1. In(b) \subseteq 1..created
  BY DEF TablesOK, In
<1>2. PICK m \in In(b) : \A n \in In(b) : m <= n
  <2>1. In(b) \subseteq Nat
    BY <1>1
  <2> QED BY <2>1, Smallest
<1>3. {n \in In(b) : n < m} = {}
  BY <1>1, <1>2
<1>4. Cardinality({n \in In(b) : n < m}) = 0
  BY <1>3, FS_EmptySet
<1>5. 0 \in 0..(0 + Batch - 1)
  OBVIOUS
<1> QED BY <1>4, <1>5 DEF Page

LEMMA ChangesOK ==
  ASSUME NEW op \in Setting, NEW f \in Flag
  PROVE  Changes(op, f) \in Seq(Statement) /\ Changes(op, f) # <<>>
<1> DEFINE mark == IF f \in Column THEN <<Do("mark", f)>> ELSE <<>>
           unmark == IF f \in Column THEN <<Do("unmark", f)>> ELSE <<>>
<1>1. /\ \A d \in {"set", "clear", "wipe"}, g \in Flag : Do(d, g) \in Statement
      /\ \A d \in {"mark", "unmark"}, g \in Column : Do(d, g) \in Statement
  BY DEF Do, Statement
<1>2. /\ mark \in Seq(Statement) /\ unmark \in Seq(Statement)
      /\ <<Do("set", f)>> \in Seq(Statement) /\ <<Do("clear", f)>> \in Seq(Statement)
      /\ <<Do("wipe", "seen"), Do("wipe", "deleted"), Do("unmark", "seen"), Do("set", f)>>
           \in Seq(Statement)
  BY <1>1 DEF Flag, Column
<1>3. /\ Len(<<Do("set", f)>>) = 1 /\ Len(<<Do("clear", f)>>) = 1
      /\ Len(<<Do("wipe", "seen"), Do("wipe", "deleted"), Do("unmark", "seen"), Do("set", f)>>) = 4
  OBVIOUS
<1>4. CASE op = "add"
  <2>1. Changes(op, f) = <<Do("set", f)>> \o mark
    BY <1>4 DEF Changes
  <2> HIDE DEF mark
  <2>2. Changes(op, f) \in Seq(Statement) /\ Len(Changes(op, f)) >= 1
    BY <1>2, <1>3, <2>1, ConcatProperties, LenProperties
  <2> QED BY <2>2
<1>5. CASE op = "remove"
  <2>1. Changes(op, f) = <<Do("clear", f)>> \o unmark
    BY <1>5 DEF Changes
  <2> HIDE DEF unmark
  <2>2. Changes(op, f) \in Seq(Statement) /\ Len(Changes(op, f)) >= 1
    BY <1>2, <1>3, <2>1, ConcatProperties, LenProperties
  <2> QED BY <2>2
<1>6. CASE op = "replace"
  <2>1. Changes(op, f) = <<Do("wipe", "seen"), Do("wipe", "deleted"), Do("unmark", "seen"), Do("set", f)>> \o mark
    BY <1>6 DEF Changes
  <2> HIDE DEF mark
  <2>2. Changes(op, f) \in Seq(Statement) /\ Len(Changes(op, f)) >= 1
    BY <1>2, <1>3, <2>1, ConcatProperties, LenProperties
  <2> QED BY <2>2
<1> QED BY <1>4, <1>5, <1>6 DEF Setting

LEMMA TailOK ==
  ASSUME NEW s \in Seq(Statement), s # <<>>, Len(s) # 1
  PROVE  Tail(s) \in Seq(Statement) /\ Tail(s) # <<>>
<1>1. Len(s) \in Nat \ {0}
  BY EmptySeq, Zenon
<1>2. Tail(s) \in Seq(Statement) /\ Len(Tail(s)) = Len(s) - 1
  BY HeadTailProperties, Zenon
<1>3. Len(Tail(s)) # 0
  BY <1>1, <1>2
<1>4. Len(<<>>) = 0
  BY EmptySeq, Zenon
<1> QED BY <1>2, <1>3, <1>4, Zenon

-----------------------------------------------------------------------------
(* What the steps of a command do to the goroutine that runs it.           *)

Fixed(v) ==
  /\ pc'[v] = pc[v] /\ cmd'[v] = cmd[v] /\ todo'[v] = todo[v]
  /\ listed'[v] = listed[v] /\ stmts'[v] = stmts[v]

Moved(a) ==
  /\ HandsOK' /\ PlaceOK(a)' /\ KindOK(a)'
  /\ \A v \in Actor \ {a} : Fixed(v)

LEMMA EndMoves ==
  ASSUME HandsOK, created' = created, NEW a \in Actor, End(a)
  PROVE  Moved(a) /\ pc'[a] = "idle"
BY DEF End, GoTo, Moved, HandsOK, PlaceOK, KindOK, Fixed, PC

(* Where a loop starts for a command of that kind.                         *)
Heads(c, l) ==
  \/ l = "look" /\ c.kind # "expunge"
  \/ l = "read" /\ c.kind = "expunge"

LEMMA AdvanceMoves ==
  ASSUME TablesOK, HandsOK, created' = created, NEW a \in Actor, PlaceOK(a),
         pc[a] \notin {"idle", "list"}, NEW l, Heads(cmd[a], l), Advance(a, l)
  PROVE  Moved(a) /\ pc'[a] \notin {"stmt", "apply"}
<1>1. cmd[a] # None /\ todo[a] # {}
  BY DEF PlaceOK
<1> DEFINE left == todo[a] \ {First(a)}
           again == cmd[a].kind = "expunge" /\ listed[a] % Batch = 0
<1>2. left \subseteq 1..created
  BY DEF HandsOK
<1>3. CASE left = {} /\ ~again
  BY <1>3, EndMoves DEF Advance
<1>4. CASE ~(left = {} /\ ~again)
  <2>1. /\ todo' = [todo EXCEPT ![a] = left]
        /\ stmts' = [stmts EXCEPT ![a] = <<>>]
        /\ pc' = [pc EXCEPT ![a] = IF left = {} THEN "list" ELSE l]
        /\ cmd' = cmd /\ listed' = listed
    BY <1>4 DEF Advance, GoTo
  <2>2. left = {} => cmd[a].kind = "expunge"
    BY <1>4
  <2>3. l \in {"look", "read"}
    BY DEF Heads
  <2> HIDE DEF left
  <2>4. HandsOK'
    BY <1>2, <2>1, <2>3 DEF HandsOK, PC
  <2>5. pc'[a] = (IF left = {} THEN "list" ELSE l) /\ todo'[a] = left /\ stmts'[a] = <<>>
    BY <2>1 DEF HandsOK
  <2>6. PlaceOK(a)'
    BY <1>1, <2>1, <2>3, <2>5 DEF PlaceOK
  <2>7. KindOK(a)'
    BY <2>1, <2>2, <2>5 DEF KindOK, Heads
  <2>8. \A v \in Actor \ {a} : Fixed(v)
    BY <2>1 DEF HandsOK, Fixed
  <2> QED BY <2>3, <2>4, <2>5, <2>6, <2>7, <2>8 DEF Moved
<1> QED BY <1>3, <1>4

LEMMA StartMoves ==
  ASSUME HandsOK, NEW a \in Actor, PlaceOK(a), pc[a] = "idle",
         created' \in Nat, 1..created \subseteq 1..created',
         NEW c \in Command, NEW ms \in SUBSET (1..created'), ms # {},
         NEW l, Heads(c, l), Start(a, c, ms, l)
  PROVE  Moved(a)
<1>1. Cardinality(ms) \in Nat
  <2>1. IsFiniteSet(1..created')
    BY FS_Interval
  <2>2. IsFiniteSet(ms)
    BY <2>1, FS_Subset
  <2> QED BY <2>2, FS_CardinalityType
<1>2. l \in {"look", "read"} /\ stmts[a] = <<>>
  BY DEF Heads, PlaceOK
<1>3. HandsOK'
  BY <1>1, <1>2 DEF Start, GoTo, HandsOK, PC
<1>4. PlaceOK(a)' /\ KindOK(a)'
  BY <1>2 DEF Start, GoTo, HandsOK, PlaceOK, KindOK, Heads
<1>5. \A v \in Actor \ {a} : Fixed(v)
  BY DEF Start, GoTo, HandsOK, Fixed
<1> QED BY <1>3, <1>4, <1>5 DEF Moved

LEMMA AskMoves ==
  ASSUME TablesOK, HandsOK, created' = created, NEW a \in Actor, PlaceOK(a), KindOK(a),
         NEW c \in Command, NEW l, Heads(c, l), Ask(a, c, l)
  PROVE  Moved(a)
<1>1. CASE In(c.box) = {}
  BY <1>1 DEF Ask, goVars, Moved, HandsOK, PlaceOK, KindOK, Fixed
<1>2. CASE In(c.box) # {}
  BY <1>2, StartMoves, PageOK, FirstPage DEF Ask, TablesOK
<1> QED BY <1>1, <1>2

LEMMA NumberedMoves ==
  ASSUME TablesOK, HandsOK, created' = created, NEW a \in Actor, PlaceOK(a), KindOK(a),
         pc[a] \in {"look", "insert"}, NEW n, Numbered(a, n)
  PROVE  Moved(a)
<1>1. cmd[a] \in Command /\ cmd[a].kind # "expunge" /\ todo[a] # {} /\ stmts[a] = <<>>
  BY DEF PlaceOK, KindOK, HandsOK
<1>2. CASE cmd[a].kind \in {"fetch", "deliver"} \/ cmd[a].aim.uid # n
  BY <1>1, <1>2, AdvanceMoves DEF Numbered, Heads
<1>3. CASE ~(cmd[a].kind \in {"fetch", "deliver"} \/ cmd[a].aim.uid # n)
  <2>1. cmd[a].kind \in {"copy"} \cup Setting
    BY <1>1, <1>3, CommandFields
  <2>2. cmd' = cmd /\ todo' = todo /\ listed' = listed
    BY <1>3 DEF Numbered
  <2>3. CASE cmd[a].kind = "copy"
    <3>1. pc' = [pc EXCEPT ![a] = "apply"] /\ stmts' = stmts
      BY <1>3, <2>3 DEF Numbered, GoTo
    <3> QED BY <1>1, <2>2, <2>3, <3>1 DEF Moved, HandsOK, PlaceOK, KindOK, Fixed, PC
  <2>4. CASE cmd[a].kind # "copy"
    <3>1. cmd[a].kind \in Setting /\ cmd[a].flag \in Flag
      BY <1>1, <2>1, <2>4, CommandFields
    <3> DEFINE ss == Changes(cmd[a].kind, cmd[a].flag)
    <3>2. pc' = [pc EXCEPT ![a] = "stmt"] /\ stmts' = [stmts EXCEPT ![a] = ss]
      BY <1>3, <2>4 DEF Numbered, GoTo
    <3>3. ss \in Seq(Statement) /\ ss # <<>>
      BY <3>1, ChangesOK
    <3> HIDE DEF ss
    <3> QED BY <1>1, <2>2, <3>1, <3>2, <3>3 DEF Moved, HandsOK, PlaceOK, KindOK, Fixed, PC
  <2> QED BY <2>3, <2>4
<1> QED BY <1>2, <1>3

LEMMA ContinueMoves ==
  ASSUME TablesOK, HandsOK, created' = created, NEW a \in Actor, PlaceOK(a), KindOK(a),
         pc[a] = "stmt", Continue(a)
  PROVE  Moved(a)
<1>1. stmts[a] \in Seq(Statement) /\ stmts[a] # <<>>
  BY DEF HandsOK, PlaceOK
<1>2. CASE Len(stmts[a]) = 1
  BY <1>2, AdvanceMoves DEF Continue, Heads, KindOK, Setting
<1>3. CASE Len(stmts[a]) # 1
  <2>1. stmts' = [stmts EXCEPT ![a] = Tail(@)] /\ UNCHANGED <<pc, cmd, todo, listed>>
    BY <1>3 DEF Continue
  <2>2. Tail(stmts[a]) \in Seq(Statement) /\ Tail(stmts[a]) # <<>>
    BY <1>1, <1>3, TailOK
  <2> QED BY <2>1, <2>2 DEF Moved, HandsOK, PlaceOK, KindOK, Fixed
<1> QED BY <1>2, <1>3

(* A goroutine's step keeps it, and leaves the others where they are.      *)
LEMMA StepMoves ==
  ASSUME TypeInv, NEW a \in Actor, Step(a)
  PROVE  Moved(a) /\ created' = created
<1>1. TablesOK /\ HandsOK /\ PlaceOK(a) /\ KindOK(a)
  BY TypeParts DEF TypeInv
<1>2. CASE Look(a)
  <2>1. created' = created /\ pc[a] = "look"
    BY <1>2 DEF Look, counters
  <2>2. ASSUME NEW r \in UidsOf(First(a), cmd[a].box), Numbered(a, r.uid)
        PROVE  Moved(a)
    BY <1>1, <2>1, <2>2, NumberedMoves
  <2>3. CASE Missing(a)
    BY <1>1, <2>1, <2>3 DEF Missing, GoTo, Moved, HandsOK, PlaceOK, KindOK, Fixed, PC
  <2> QED BY <1>2, <2>1, <2>2, <2>3 DEF Look
<1>3. CASE LookFails(a)
  <2>1. created' = created /\ pc[a] = "look"
    BY <1>3 DEF LookFails
  <2>2. CASE cmd[a].kind = "deliver"
    BY <1>1, <1>3, <2>1, <2>2 DEF LookFails, GoTo, Moved, HandsOK, PlaceOK, KindOK, Fixed, PC
  <2>3. CASE cmd[a].kind # "deliver"
    BY <1>1, <1>3, <2>1, <2>3, NumberedMoves DEF LookFails
  <2> QED BY <2>1, <2>2, <2>3
<1>4. CASE Insert(a)
  <2>1. created' = created /\ pc[a] = "insert" /\ \E n \in Nat \cup {NextUid(cmd[a].box)} : Numbered(a, n)
    BY <1>4 DEF Insert, counters, Derived
  <2> QED BY <1>1, <2>1, NumberedMoves
<1>5. CASE InsertFails(a)
  <2>1. created' = created /\ pc[a] = "insert" /\ Numbered(a, Derived)
    BY <1>5 DEF InsertFails
  <2> QED BY <1>1, <2>1, NumberedMoves
<1>6. CASE Stmt(a) \/ StmtFails(a)
  <2>1. created' = created /\ pc[a] = "stmt" /\ (End(a) \/ Continue(a))
    BY <1>6 DEF Stmt, StmtFails, counters
  <2> QED BY <1>1, <2>1, EndMoves, ContinueMoves
<1>7. CASE Apply(a) \/ ApplyFails(a)
  <2>1. created' = created /\ pc[a] = "apply" /\ (End(a) \/ Advance(a, "look"))
    BY <1>7 DEF Apply, ApplyFails, counters
  <2> QED BY <1>1, <2>1, EndMoves, AdvanceMoves DEF KindOK, Heads
<1>8. CASE ReadFlags(a) \/ ReadFlagsFails(a)
  <2>1. /\ created' = created /\ pc[a] = "read"
        /\ Advance(a, "read") \/ (GoTo(a, "remove") /\ UNCHANGED <<cmd, todo, listed, stmts>>)
    BY <1>8 DEF ReadFlags, ReadFlagsFails, counters
  <2>2. CASE Advance(a, "read")
    BY <1>1, <2>1, <2>2, AdvanceMoves DEF KindOK, Heads
  <2>3. CASE GoTo(a, "remove") /\ UNCHANGED <<cmd, todo, listed, stmts>>
    BY <1>1, <2>1, <2>3 DEF GoTo, Moved, HandsOK, PlaceOK, KindOK, Fixed, PC
  <2> QED BY <2>1, <2>2, <2>3
<1>9. CASE Remove(a) \/ RemoveFails(a) \/ ListFails(a)
  <2>1. /\ created' = created
        /\ \/ pc[a] = "remove" /\ Advance(a, "read")
           \/ End(a)
    BY <1>9 DEF Remove, RemoveFails, ListFails, counters
  <2> QED BY <1>1, <2>1, EndMoves, AdvanceMoves DEF KindOK, Heads
<1>10. CASE List(a)
  <2> DEFINE page == Page(cmd[a].box, listed[a])
  <2>1. created' = created /\ pc[a] = "list"
    BY <1>10 DEF List, counters
  <2>2. page \subseteq 1..created /\ Cardinality(page) \in Nat
    BY <1>1, PageOK
  <2>3. \/ End(a)
        \/ /\ page # {} /\ pc' = [pc EXCEPT ![a] = "read"]
           /\ todo' = [todo EXCEPT ![a] = page]
           /\ listed' = [listed EXCEPT ![a] = @ + Cardinality(page)]
           /\ UNCHANGED <<cmd, stmts>>
    BY <1>10 DEF List, GoTo
  <2> HIDE DEF page
  <2>4. CASE End(a)
    BY <1>1, <2>1, <2>4, EndMoves
  <2>5. CASE ~End(a)
    <3>1. HandsOK'
      <4>1. listed[a] + Cardinality(page) \in Nat
        BY <1>1, <2>2 DEF HandsOK
      <4>2. pc' \in [Actor -> PC] /\ todo' \in [Actor -> SUBSET (1..created')]
        BY <1>1, <2>1, <2>2, <2>3, <2>5 DEF HandsOK, PC
      <4>3. listed' \in [Actor -> Nat]
        BY <1>1, <2>3, <2>5, <4>1 DEF HandsOK
      <4>4. UNCHANGED <<cmd, stmts, created>>
        BY <2>1, <2>3, <2>5
      <4> QED BY <1>1, <4>2, <4>3, <4>4 DEF HandsOK
    <3>2. PlaceOK(a)' /\ KindOK(a)'
      BY <1>1, <2>1, <2>3, <2>5 DEF HandsOK, PlaceOK, KindOK
    <3>3. \A v \in Actor \ {a} : Fixed(v)
      BY <1>1, <2>3, <2>5 DEF HandsOK, Fixed
    <3> QED BY <2>1, <3>1, <3>2, <3>3 DEF Moved
  <2> QED BY <2>1, <2>4, <2>5
<1> QED BY <1>2, <1>3, <1>4, <1>5, <1>6, <1>7, <1>8, <1>9, <1>10 DEF Step

LEMMA GiveMoves ==
  ASSUME TypeInv, NEW a \in Actor, Give(a)
  PROVE  Moved(a)
<1>1. TablesOK /\ HandsOK /\ PlaceOK(a) /\ KindOK(a) /\ shown \subseteq Uid /\ created \in Nat
  BY TypeParts DEF TypeInv, TablesOK, UidsOK
<1>2. ASSUME NEW b \in Box, Deliver(a, b)
      PROVE  Moved(a)
  <2>1. created' = created + 1 /\ pc[a] = "idle"
    BY <1>2 DEF Deliver, Create
  <2>2. [kind |-> "deliver", box |-> b] \in Command
    BY DEF Command
  <2>3. 1..created \subseteq 1..created' /\ {created + 1} \in SUBSET (1..created') /\ created' \in Nat
    BY <1>1, <2>1
  <2>4. Heads([kind |-> "deliver", box |-> b], "look")
    BY DEF Heads
  <2> QED BY <1>1, <1>2, <2>1, <2>2, <2>3, <2>4, StartMoves DEF Deliver
<1>3. ASSUME NEW b \in Box, Fetch(a, b)
      PROVE  Moved(a)
  <2>1. [kind |-> "fetch", box |-> b] \in Command
    BY DEF Command
  <2>2. Heads([kind |-> "fetch", box |-> b], "look")
    BY DEF Heads
  <2> QED BY <1>1, <1>3, <2>1, <2>2, AskMoves DEF Fetch
<1>4. ASSUME NEW b \in Box, Expunge(a, b)
      PROVE  Moved(a)
  <2> DEFINE c == [kind |-> "expunge", box |-> b,
                   marked |-> {m \in Page(b, 0) : "deleted" \in flags[m]}]
  <2>1. c \in Command
    BY <1>1, PageOK DEF Command, TablesOK, Message
  <2>2. Heads(c, "read")
    BY DEF Heads
  <2>3. Ask(a, c, "read") /\ created' = created
    BY <1>4 DEF Expunge
  <2> HIDE DEF c
  <2> QED BY <1>1, <2>1, <2>2, <2>3, AskMoves
<1>5. ASSUME NEW r \in shown, NEW op \in {"add", "remove", "replace"}, NEW f \in Flag,
             Store(a, r, op, f)
      PROVE  Moved(a)
  <2> DEFINE c == [kind |-> op, box |-> r.box, aim |-> r, flag |-> f]
  <2>1. c \in Command
    BY <1>1 DEF Command, Uid
  <2>2. Heads(c, "look")
    BY DEF Heads
  <2> HIDE DEF c
  <2> QED BY <1>1, <1>5, <2>1, <2>2, AskMoves DEF Store, c
<1>6. ASSUME NEW r \in shown, NEW d \in Box, Copy(a, r, d)
      PROVE  Moved(a)
  <2> DEFINE c == [kind |-> "copy", box |-> r.box, aim |-> r, dest |-> d]
  <2>1. c \in Command
    BY <1>1 DEF Command, Uid
  <2>2. Heads(c, "look")
    BY DEF Heads
  <2> HIDE DEF c
  <2> QED BY <1>1, <1>6, <2>1, <2>2, AskMoves DEF Copy, c
<1> QED BY <1>2, <1>3, <1>4, <1>5, <1>6 DEF Give

(* Who is where is kept by every step.                                     *)
LEMMA HandsStep ==
  ASSUME TypeInv, [Next]_vars
  PROVE  HandsOK' /\ \A v \in Actor : PlaceOK(v)' /\ KindOK(v)'
<1>1. /\ TablesOK /\ HandsOK
      /\ \A v \in Actor : PlaceOK(v) /\ KindOK(v)
  BY TypeParts DEF TypeInv
<1>2. ASSUME NEW a \in Actor, Moved(a)
      PROVE  HandsOK' /\ \A v \in Actor : PlaceOK(v)' /\ KindOK(v)'
  BY <1>1, <1>2 DEF Moved, Fixed, PlaceOK, KindOK
<1>3. ASSUME UNCHANGED goVars, created' \in {created, created + 1}
      PROVE  HandsOK' /\ \A v \in Actor : PlaceOK(v)' /\ KindOK(v)'
  <2>1. 1..created \subseteq 1..created'
    BY <1>1, <1>3 DEF TablesOK
  <2>2. HandsOK'
    BY <1>1, <1>3, <2>1 DEF HandsOK, goVars
  <2> QED BY <1>1, <1>3, <2>2 DEF PlaceOK, KindOK, goVars
<1>4. ASSUME NEW a \in Actor, Give(a) \/ Step(a)
      PROVE  HandsOK' /\ \A v \in Actor : PlaceOK(v)' /\ KindOK(v)'
  BY <1>2, <1>4, StepMoves, GiveMoves
<1>5. ASSUME NEW b \in Box, NEW seen \in SUBSET Column, AppendMessage(b, seen)
      PROVE  HandsOK' /\ \A v \in Actor : PlaceOK(v)' /\ KindOK(v)'
  BY <1>3, <1>5 DEF AppendMessage, Create
<1>6. CASE Webmail
  BY <1>3, <1>6 DEF Webmail, MarkRead, MarkUnread, DeleteMessage, Relabel
<1>7. ASSUME NEW as \in SUBSET Actor, Crash(as)
      PROVE  HandsOK' /\ \A v \in Actor : PlaceOK(v)' /\ KindOK(v)'
  <2>1. HandsOK'
    <3>1. pc' \in [Actor -> PC] /\ cmd' \in [Actor -> Command \cup {None}]
      BY <1>1, <1>7 DEF Crash, HandsOK, PC
    <3>2. todo' \in [Actor -> SUBSET (1..created')]
      BY <1>1, <1>7 DEF Crash, HandsOK
    <3>3. listed' \in [Actor -> Nat]
      BY <1>1, <1>7 DEF Crash, HandsOK
    <3>4. stmts' \in [Actor -> Seq(Statement)]
      <4>1. <<>> \in Seq(Statement)
        OBVIOUS
      <4> QED BY <1>1, <1>7, <4>1 DEF Crash, HandsOK
    <3> QED BY <3>1, <3>2, <3>3, <3>4 DEF HandsOK
  <2>2. ASSUME NEW v \in Actor
        PROVE  PlaceOK(v)' /\ KindOK(v)'
    BY <1>1, <1>7 DEF Crash, PlaceOK, KindOK
  <2> QED BY <2>1, <2>2
<1>8. CASE UNCHANGED vars
  BY <1>3, <1>8 DEF vars, counters
<1> QED BY <1>4, <1>5, <1>6, <1>7, <1>8 DEF Next

-----------------------------------------------------------------------------
(* What a step does to the tables.                                         *)

(* CarryOut changes the flags of one message, and only while it exists.    *)
LEMMA CarryOutOK ==
  ASSUME TablesOK, rows' = rows, created' = created, labeled' = labeled,
         NEW s \in Statement, NEW m \in Message, CarryOut(s, m)
  PROVE  TablesOK'
<1>1. /\ flags' \in [Message -> SUBSET Flag]
      /\ \A n \in Message : flags'[n] \subseteq flags[n] \/ n \in rows
  BY DEF TablesOK, CarryOut, Statement
<1>2. /\ columns' \in [Message -> SUBSET Column]
      /\ \A n \in Message : columns'[n] \subseteq columns[n] \/ n \in rows
  BY DEF TablesOK, CarryOut, Statement
<1> QED BY <1>1, <1>2 DEF TablesOK

LEMMA CreateOK ==
  ASSUME TablesOK, flags' = flags, NEW b \in Box, NEW seen \in SUBSET Column,
         Create(b, seen)
  PROVE  TablesOK' /\ rows \subseteq rows'
<1>1. created' = created + 1 /\ created' \in 0..MaxMessages /\ created + 1 \in Message
  BY DEF TablesOK, Create, Message
<1>2. rows' = rows \cup {created + 1} /\ rows' \subseteq 1..created'
  BY <1>1 DEF TablesOK, Create
<1>3. /\ labeled' = [labeled EXCEPT ![created + 1] = {b}]
      /\ columns' = [columns EXCEPT ![created + 1] = seen]
  BY DEF Create
<1>4. /\ labeled' \in [Message -> SUBSET Box] /\ flags' \in [Message -> SUBSET Flag]
      /\ columns' \in [Message -> SUBSET Column]
  BY <1>1, <1>3 DEF TablesOK
<1>5. \A m \in Message \ rows' : labeled'[m] = {} /\ flags'[m] = {} /\ columns'[m] = {}
  BY <1>1, <1>2, <1>3 DEF TablesOK
<1> QED BY <1>1, <1>2, <1>4, <1>5 DEF TablesOK

LEMMA TablesStep ==
  ASSUME TypeInv, [Next]_vars
  PROVE  TablesOK'
<1>1. TablesOK /\ HandsOK /\ UidsOK /\ \A v \in Actor : PlaceOK(v) /\ KindOK(v)
  BY TypeParts DEF TypeInv
<1>2. ASSUME UNCHANGED <<rows, labeled, flags, columns, created>>
      PROVE  TablesOK'
  BY <1>1, <1>2 DEF TablesOK
<1>3. ASSUME NEW m \in Message, NEW b, (m \in rows /\ b \in Box) \/ labeled'[m] \subseteq labeled[m],
             labeled' = [labeled EXCEPT ![m] = @ \cup {b}] \/ DropLabel(m, b),
             UNCHANGED <<rows, flags, columns, created>>
      PROVE  TablesOK'
  <2>1. /\ labeled' \in [Message -> SUBSET Box]
        /\ \A n \in Message : labeled'[n] \subseteq labeled[n] \/ n \in rows
    BY <1>1, <1>3 DEF TablesOK, DropLabel
  <2> QED BY <1>1, <1>3, <2>1 DEF TablesOK
<1>4. ASSUME NEW a \in Actor, Step(a)
      PROVE  TablesOK'
  <2>1. CASE \/ Look(a) \/ LookFails(a) \/ Insert(a) \/ InsertFails(a)
             \/ ReadFlags(a) \/ ReadFlagsFails(a) \/ List(a) \/ ListFails(a)
    BY <1>2, <2>1 DEF Look, LookFails, Insert, InsertFails, ReadFlags, ReadFlagsFails,
                      List, ListFails, dbVars, counters
  <2>2. CASE Stmt(a) \/ StmtFails(a)
    <3> DEFINE s == Head(stmts[a])
    <3>1. s \in Statement /\ First(a) \in Message
      <4>1. todo[a] # {} /\ stmts[a] \in Seq(Statement) /\ stmts[a] # <<>>
        BY <1>1, <2>2 DEF Stmt, StmtFails, PlaceOK, HandsOK
      <4> QED BY <1>1, <4>1, FirstIn, HeadTailProperties
    <3>2. /\ UNCHANGED <<rows, labeled, created>>
          /\ CarryOut(s, First(a)) \/ UNCHANGED <<flags, columns>>
      BY <2>2 DEF Stmt, StmtFails, counters
    <3> HIDE DEF s
    <3> QED BY <1>1, <1>2, <3>1, <3>2, CarryOutOK
  <2>3. CASE Apply(a) \/ ApplyFails(a)
    <3>1. pc[a] = "apply" /\ cmd[a].dest \in Box /\ First(a) \in Message
      <4>1. pc[a] = "apply" /\ todo[a] # {} /\ cmd[a] \in Command /\ cmd[a].kind = "copy"
        BY <1>1, <2>3 DEF Apply, ApplyFails, PlaceOK, KindOK, HandsOK
      <4> QED BY <1>1, <4>1, FirstIn, CommandFields
    <3>2. /\ UNCHANGED <<rows, flags, columns, created>>
          /\ \/ First(a) \in rows /\ labeled' = [labeled EXCEPT ![First(a)] = @ \cup {cmd[a].dest}]
             \/ UNCHANGED labeled
      BY <2>3 DEF Apply, ApplyFails, AddLabel, counters
    <3> QED BY <1>2, <1>3, <3>1, <3>2
  <2>4. CASE Remove(a) \/ RemoveFails(a)
    <3>1. First(a) \in Message
      BY <1>1, <2>4, FirstIn DEF Remove, RemoveFails, PlaceOK
    <3>2. /\ UNCHANGED <<rows, flags, columns, created>>
          /\ DropLabel(First(a), cmd[a].box) \/ UNCHANGED labeled
      BY <2>4 DEF Remove, RemoveFails, counters
    <3>3. labeled'[First(a)] \subseteq labeled[First(a)]
      BY <1>1, <3>1, <3>2 DEF DropLabel, TablesOK
    <3> QED BY <1>2, <1>3, <3>1, <3>2, <3>3
  <2> QED BY <1>4, <2>1, <2>2, <2>3, <2>4 DEF Step
<1>5. ASSUME NEW a \in Actor, Give(a)
      PROVE  TablesOK'
  <2>1. ASSUME NEW b \in Box, Deliver(a, b)
        PROVE  TablesOK'
    BY <1>1, <2>1, CreateOK DEF Deliver
  <2>2. CASE ~ \E b \in Box : Deliver(a, b)
    BY <1>2, <1>5, <2>2 DEF Give, Fetch, Expunge, Store, Copy, dbVars
  <2> QED BY <2>1, <2>2
<1>6. ASSUME NEW b \in Box, NEW seen \in SUBSET Column, AppendMessage(b, seen)
      PROVE  TablesOK'
  BY <1>1, <1>6, CreateOK DEF AppendMessage
<1>7. CASE Webmail
  <2>1. PICK m \in Message : \/ MarkRead(m) \/ MarkUnread(m) \/ DeleteMessage(m)
                             \/ \E b \in Box : Relabel(m, b)
    BY <1>7 DEF Webmail
  <2>2. CASE MarkRead(m) \/ MarkUnread(m)
    <3>1. /\ columns' \in [Message -> SUBSET Column] /\ UNCHANGED <<rows, labeled, flags, created>>
          /\ \A n \in Message : columns'[n] \subseteq columns[n] \/ n \in rows
      BY <1>1, <2>2 DEF MarkRead, MarkUnread, TablesOK, Column
    <3> QED BY <1>1, <3>1 DEF TablesOK
  <2>3. CASE DeleteMessage(m)
    BY <1>1, <2>3 DEF DeleteMessage, TablesOK
  <2>4. ASSUME NEW b \in Box, Relabel(m, b)
        PROVE  TablesOK'
    <3>1. m \in rows /\ UNCHANGED <<rows, flags, columns, created>>
          /\ (labeled' = [labeled EXCEPT ![m] = @ \cup {b}] \/ DropLabel(m, b))
      BY <2>4 DEF Relabel, AddLabel
    <3> QED BY <1>3, <3>1
  <2> QED BY <2>1, <2>2, <2>3, <2>4
<1>8. CASE (\E as \in (SUBSET Actor) \ {{}} : Crash(as)) \/ UNCHANGED vars
  BY <1>2, <1>8 DEF Crash, vars, dbVars, counters
<1> QED BY <1>4, <1>5, <1>6, <1>7, <1>8 DEF Next

-----------------------------------------------------------------------------
(* Where UIDs come from.                                                   *)

(* The rows of imap_uids only go with their messages, and one is put only  *)
(* by a goroutine that inserts it.                                         *)
Puts(a) ==
  /\ pc[a] = "insert" /\ First(a) \in rows /\ rows' = rows
  /\ last' = last + 1 /\ PutUid(a)

LEMMA UidMoves ==
  ASSUME TypeInv, [Next]_vars
  PROVE  \/ /\ uids' \subseteq uids /\ \A r \in uids' : r.msg \in rows'
            /\ named' = named /\ last' \in {last, last + 1}
         \/ \E a \in Actor : Puts(a) /\ Step(a)
<1>1. TablesOK /\ UidsOK
  BY TypeParts DEF TypeInv
<1>2. ASSUME UNCHANGED <<uids, named>>, rows \subseteq rows'
      PROVE  uids' \subseteq uids /\ named' = named /\ \A r \in uids' : r.msg \in rows'
  BY <1>1, <1>2 DEF UidsOK
<1>3. ASSUME NEW a \in Actor, Step(a)
      PROVE  (UNCHANGED <<uids, named>> /\ rows' = rows /\ last' \in {last, last + 1}) \/ Puts(a)
  <2>1. CASE Insert(a) \/ InsertFails(a)
    BY <2>1 DEF Insert, InsertFails, Puts
  <2>2. CASE ~(Insert(a) \/ InsertFails(a))
    BY <1>3, <2>2 DEF Step, Look, LookFails, Stmt, StmtFails, Apply, ApplyFails, ReadFlags,
         ReadFlagsFails, Remove, RemoveFails, List, ListFails, dbVars, history
  <2> QED BY <2>1, <2>2
<1>4. ASSUME NEW a \in Actor, Give(a)
      PROVE  UNCHANGED <<uids, named, last>> /\ rows \subseteq rows'
  BY <1>4 DEF Give, Deliver, Create, Fetch, Store, Copy, Expunge, dbVars, history
<1>5. ASSUME NEW b \in Box, NEW seen \in SUBSET Column, AppendMessage(b, seen)
      PROVE  UNCHANGED <<uids, named, last>> /\ rows \subseteq rows'
  BY <1>5 DEF AppendMessage, Create, history
<1>6. ASSUME NEW m \in Message, DeleteMessage(m)
      PROVE  /\ uids' \subseteq uids /\ \A r \in uids' : r.msg \in rows'
             /\ named' = named /\ last' = last
  BY <1>1, <1>6 DEF DeleteMessage, UidsOK, history
<1>7. CASE Webmail
  <2>1. PICK m \in Message : \/ MarkRead(m) \/ MarkUnread(m) \/ DeleteMessage(m)
                             \/ \E b \in Box : Relabel(m, b)
    BY <1>7 DEF Webmail
  <2>2. CASE MarkRead(m) \/ MarkUnread(m) \/ \E b \in Box : Relabel(m, b)
    BY <1>2, <2>2 DEF MarkRead, MarkUnread, Relabel
  <2> QED BY <1>6, <2>1, <2>2
<1>8. CASE (\E as \in (SUBSET Actor) \ {{}} : Crash(as)) \/ UNCHANGED vars
  BY <1>2, <1>8 DEF Crash, vars, dbVars, history
<1> QED BY <1>2, <1>3, <1>4, <1>5, <1>7, <1>8 DEF Next

LEMMA NewUidOK ==
  ASSUME TypeInv, NEW a \in Actor, pc[a] \in {"look", "insert"}
  PROVE  /\ NewUid(a) \in Uid /\ NewUid(a).uid = last + 1
         /\ NewUid(a).msg = First(a) /\ NewUid(a).box = cmd[a].box
         /\ cmd[a] \in Command /\ cmd[a].box \in Box /\ First(a) \in Message
<1>1. TablesOK /\ UidsOK /\ HandsOK /\ PlaceOK(a)
  BY TypeParts DEF TypeInv
<1>2. cmd[a] \in Command /\ First(a) \in Message
  BY <1>1, FirstIn DEF HandsOK, PlaceOK
<1>3. cmd[a].box \in Box
  BY <1>2, CommandFields
<1> QED BY <1>1, <1>2, <1>3 DEF NewUid, NextUid, Uid, UidsOK

(* The number a goroutine goes on with is the derived one or a UID of the  *)
(* message at hand.                                                        *)
Known(a, n) ==
  n = Derived \/ [box |-> cmd[a].box, uid |-> n, msg |-> First(a)] \in uids' \cap named'

LEMMA Numbering ==
  ASSUME TypeInv, uids \subseteq named, NEW a \in Actor, Step(a),
         pc[a] \in {"look", "insert"}
  PROVE  \/ shown' = shown /\ pc'[a] = "insert"
         \/ \E n \in Nat : Numbered(a, n) /\ Known(a, n)
<1>1. TablesOK /\ UidsOK /\ HandsOK /\ PlaceOK(a)
  BY TypeParts DEF TypeInv
<1>2. CASE Look(a)
  <2>1. CASE Missing(a)
    BY <1>1, <2>1 DEF Missing, GoTo, HandsOK
  <2>2. ASSUME NEW r \in UidsOf(First(a), cmd[a].box), Numbered(a, r.uid)
        PROVE  \E n \in Nat : Numbered(a, n) /\ Known(a, n)
    <3>1. r \in uids /\ r \in Uid /\ r.msg = First(a) /\ r.box = cmd[a].box
      BY <1>1 DEF UidsOf, UidsOK
    <3>2. r = [box |-> cmd[a].box, uid |-> r.uid, msg |-> First(a)] /\ r.uid \in Nat
      BY <3>1 DEF Uid
    <3>3. uids' = uids /\ named' = named
      BY <1>2 DEF Look, dbVars
    <3> QED BY <2>2, <3>1, <3>2, <3>3 DEF Known
  <2> QED BY <1>2, <2>1, <2>2 DEF Look
<1>3. CASE LookFails(a)
  BY <1>1, <1>3 DEF LookFails, GoTo, HandsOK, Known, Derived
<1>4. CASE Insert(a)
  <2>1. NewUid(a) = [box |-> cmd[a].box, uid |-> NextUid(cmd[a].box), msg |-> First(a)]
        /\ NextUid(cmd[a].box) \in Nat
    BY <1>1 DEF NewUid, NextUid, UidsOK
  <2>2. CASE First(a) \in rows
    BY <1>4, <2>1, <2>2 DEF Insert, PutUid, Known
  <2>3. CASE First(a) \notin rows
    BY <1>4, <2>3 DEF Insert, Known, Derived
  <2> QED BY <2>2, <2>3
<1>5. CASE InsertFails(a)
  BY <1>5 DEF InsertFails, Known, Derived
<1>6. CASE ~(Look(a) \/ LookFails(a) \/ Insert(a) \/ InsertFails(a))
  BY <1>6 DEF Step, Stmt, StmtFails, Apply, ApplyFails, ReadFlags,
       ReadFlagsFails, Remove, RemoveFails, List, ListFails
<1> QED BY <1>2, <1>3, <1>4, <1>5, <1>6

(* Clients are shown such numbers and nothing else.                        *)
LEMMA ShownMoves ==
  ASSUME TypeInv, uids \subseteq named, [Next]_vars
  PROVE  \/ shown' = shown
         \/ \E a \in Actor, n \in Nat :
              /\ pc[a] \in {"look", "insert"} /\ Known(a, n)
              /\ shown' = shown \cup {[box |-> cmd[a].box, uid |-> n, msg |-> First(a)]}
<1>1. ASSUME NEW a \in Actor, Step(a), pc[a] \in {"look", "insert"}
      PROVE  \/ shown' = shown
             \/ \E n \in Nat :
                  /\ Known(a, n)
                  /\ shown' = shown \cup {[box |-> cmd[a].box, uid |-> n, msg |-> First(a)]}
  BY <1>1, Numbering DEF Numbered
<1>2. ASSUME NEW a \in Actor, Step(a), pc[a] \notin {"look", "insert"}
      PROVE  shown' = shown
  BY <1>2 DEF Step, Look, LookFails, Insert, InsertFails, Stmt, StmtFails, Apply, ApplyFails,
       ReadFlags, ReadFlagsFails, Remove, RemoveFails, List, ListFails
<1>3. ASSUME NEW a \in Actor, Give(a)
      PROVE  shown' = shown
  BY <1>3 DEF Give, Deliver, Fetch, Store, Copy, Expunge
<1>4. ASSUME NEW b \in Box, NEW seen \in SUBSET Column, AppendMessage(b, seen)
      PROVE  shown' = shown
  BY <1>4 DEF AppendMessage
<1>5. CASE Webmail
  BY <1>5 DEF Webmail, MarkRead, MarkUnread, DeleteMessage, Relabel
<1>6. CASE (\E as \in (SUBSET Actor) \ {{}} : Crash(as)) \/ UNCHANGED vars
  BY <1>6 DEF Crash, vars
<1> QED BY <1>1, <1>2, <1>3, <1>4, <1>5, <1>6 DEF Next

-----------------------------------------------------------------------------
(* The invariant.                                                          *)

(* A command that is for one message names a UID its client was shown.     *)
Aimed(a) == cmd[a] # None /\ cmd[a].kind \in Setting \cup {"copy"}

AimOK(a) == Aimed(a) => cmd[a].aim \in shown /\ cmd[a].aim.box = cmd[a].box

TargetOK(a) ==
  pc[a] \in {"stmt", "apply"} /\ cmd[a].aim.uid # Derived
    => First(a) = cmd[a].aim.msg

(* Every UID that is or was anywhere came from the sequence.               *)
NumbersInv ==
  /\ uids \subseteq named
  /\ \A r \in named : r.uid \in 1..last
  /\ UidsNeverReused
  /\ \A r \in shown : r.uid = Derived \/ r \in named

MailboxInv ==
  /\ TypeInv /\ NumbersInv
  /\ \A a \in Actor : AimOK(a) /\ TargetOK(a)

LEMMA NumbersStep ==
  ASSUME TypeInv, NumbersInv, [Next]_vars
  PROVE  NumbersInv' /\ named \subseteq named' /\ shown \subseteq shown'
<1>1. UidsOK
  BY TypeParts DEF TypeInv
<1>2. /\ uids' \subseteq named' /\ named \subseteq named'
      /\ \A r \in named' : r.uid \in 1..last'
      /\ UidsNeverReused'
  <2>1. CASE uids' \subseteq uids /\ named' = named /\ last' \in {last, last + 1}
    <3>1. 1..last \subseteq 1..last'
      BY <1>1, <2>1 DEF UidsOK
    <3> QED BY <2>1, <3>1 DEF NumbersInv, UidsNeverReused
  <2>2. ASSUME NEW a \in Actor, Puts(a)
        PROVE  /\ uids' \subseteq named' /\ named \subseteq named'
               /\ \A r \in named' : r.uid \in 1..last'
               /\ UidsNeverReused'
    <3> DEFINE new == NewUid(a)
    <3>1. uids' = uids \cup {new} /\ named' = named \cup {new} /\ last' = last + 1
      BY <2>2 DEF Puts, PutUid
    <3>2. new.uid = last + 1
      BY <2>2, NewUidOK DEF Puts
    <3> HIDE DEF new
    <3>3. \A r \in named' : r.uid \in 1..last'
      BY <1>1, <3>1, <3>2 DEF NumbersInv, UidsOK
    <3>4. \A r \in named : r.uid # new.uid
      BY <1>1, <3>2 DEF NumbersInv, UidsOK
    <3>5. UidsNeverReused'
      BY <3>1, <3>4 DEF NumbersInv, UidsNeverReused
    <3> QED BY <3>1, <3>3, <3>5 DEF NumbersInv
  <2> QED BY <2>1, <2>2, UidMoves
<1>3. shown \subseteq shown' /\ \A r \in shown' : r.uid = Derived \/ r \in named'
  <2>1. CASE shown' = shown
    BY <1>2, <2>1 DEF NumbersInv
  <2>2. ASSUME NEW a \in Actor, NEW n \in Nat, Known(a, n),
               shown' = shown \cup {[box |-> cmd[a].box, uid |-> n, msg |-> First(a)]}
        PROVE  shown \subseteq shown' /\ \A r \in shown' : r.uid = Derived \/ r \in named'
    BY <1>2, <2>2 DEF NumbersInv, Known
  <2> QED BY <2>1, <2>2, ShownMoves DEF NumbersInv
<1> QED BY <1>2, <1>3 DEF NumbersInv

LEMMA UidsStep ==
  ASSUME TypeInv, NumbersInv, [Next]_vars
  PROVE  UidsOK'
<1>1. UidsOK /\ TablesOK
  BY TypeParts DEF TypeInv
<1>2. /\ uids' \subseteq Uid /\ named' \subseteq Uid /\ last' \in Nat
      /\ \A r \in uids' : r.msg \in rows'
  <2>1. ASSUME NEW a \in Actor, Puts(a)
        PROVE  /\ uids' \subseteq Uid /\ named' \subseteq Uid /\ last' \in Nat
               /\ \A r \in uids' : r.msg \in rows'
    BY <1>1, <2>1, NewUidOK DEF Puts, PutUid, UidsOK
  <2> QED BY <1>1, <2>1, UidMoves DEF UidsOK
<1>3. shown' \subseteq Uid
  <2>1. ASSUME NEW a \in Actor, NEW n \in Nat, pc[a] \in {"look", "insert"}
        PROVE  [box |-> cmd[a].box, uid |-> n, msg |-> First(a)] \in Uid
    BY <2>1, NewUidOK DEF Uid
  <2> QED BY <1>1, <2>1, ShownMoves DEF UidsOK, NumbersInv
<1> QED BY <1>2, <1>3 DEF UidsOK

-----------------------------------------------------------------------------
(* The counters and the history.                                           *)

(* What a step may do to the bounds and to the sets of the history.        *)
CountsMove ==
  /\ commands' \in {commands} \cup {n \in {commands + 1} : commands < MaxCommands}
  /\ disrupted' \in {disrupted} \cup {n \in {disrupted + 1} : disrupted < MaxDisruptions}
  /\ raced' \subseteq raced \cup (Message \X Box)
  /\ touched' \subseteq touched \cup Message
  /\ torn' \subseteq torn \cup Message
  /\ spared' \subseteq spared \cup Message

LEMMA CountsMoveOK ==
  ASSUME CountsOK, CountsMove
  PROVE  CountsOK'
<1>1. commands' \in 0..MaxCommands /\ disrupted' \in 0..MaxDisruptions
  BY DEF CountsOK, CountsMove
<1> QED BY <1>1 DEF CountsOK, CountsMove

LEMMA SpareOK ==
  ASSUME NEW ms \in SUBSET Message, Spare(ms)
  PROVE  spared' \subseteq spared \cup Message
BY DEF Spare

LEMMA StepCounts ==
  ASSUME TypeInv, NEW a \in Actor, Step(a)
  PROVE  CountsMove
<1>1. TablesOK /\ HandsOK /\ PlaceOK(a) /\ KindOK(a)
  BY TypeParts DEF TypeInv
<1>2. ASSUME pc[a] \notin {"idle", "list"}
      PROVE  First(a) \in Message
  BY <1>1, <1>2, FirstIn DEF PlaceOK
<1>3. ASSUME pc[a] # "idle"
      PROVE  cmd[a] \in Command
  BY <1>1, <1>3 DEF PlaceOK, HandsOK
<1>4. ASSUME NEW n, pc[a] \in {"look", "insert"}, Numbered(a, n)
      PROVE  torn' \subseteq torn \cup Message
  BY <1>2, <1>4 DEF Numbered
<1>5. CASE Look(a)
  <2>1. First(a) \in Message /\ cmd[a].box \in Box
    BY <1>2, <1>3, <1>5, CommandFields DEF Look
  <2>2. UNCHANGED <<counters, touched, spared>> /\ pc[a] = "look"
    BY <1>5 DEF Look
  <2>3. CASE Missing(a)
    BY <2>1, <2>2, <2>3 DEF Missing, CountsMove, counters
  <2>4. ASSUME NEW n, Numbered(a, n), UNCHANGED raced
        PROVE  CountsMove
    BY <1>4, <2>2, <2>4 DEF CountsMove, counters
  <2> QED BY <1>5, <2>3, <2>4 DEF Look
<1>6. CASE LookFails(a)
  <2>1. First(a) \in Message /\ cmd[a].box \in Box
    BY <1>2, <1>3, <1>6, CommandFields DEF LookFails
  <2>2. /\ UNCHANGED <<commands, touched, spared>> /\ pc[a] = "look" /\ Disrupt("db")
        /\ \/ raced' = raced \cup {<<First(a), cmd[a].box>>} /\ torn' = torn
           \/ raced' = raced /\ Numbered(a, Derived)
    BY <1>6 DEF LookFails
  <2> QED BY <1>4, <2>1, <2>2 DEF CountsMove, Disrupt
<1>7. CASE Insert(a) \/ InsertFails(a)
  <2>1. /\ UNCHANGED <<commands, raced, touched, spared>> /\ pc[a] = "insert"
        /\ disrupted' = disrupted \/ Disrupt("db")
        /\ \E n : Numbered(a, n)
    BY <1>7 DEF Insert, InsertFails, counters
  <2> QED BY <1>4, <2>1 DEF CountsMove, Disrupt
<1>8. CASE Stmt(a) \/ StmtFails(a)
  <2>1. First(a) \in Message
    BY <1>2, <1>8 DEF Stmt, StmtFails
  <2>2. /\ UNCHANGED <<commands, raced, touched>>
        /\ disrupted' = disrupted \/ Disrupt("db")
        /\ torn' \in {torn, torn \cup {First(a)}}
        /\ \/ spared' = spared
           \/ \E ms \in {{First(a)}, {}} : Spare(ms)
    BY <1>8 DEF Stmt, StmtFails, counters, CarryOut
  <2> QED BY <2>1, <2>2, SpareOK DEF CountsMove, Disrupt
<1>9. CASE Apply(a) \/ ApplyFails(a)
  <2>1. First(a) \in Message
    BY <1>2, <1>9 DEF Apply, ApplyFails
  <2>2. /\ UNCHANGED <<commands, raced, touched, torn>>
        /\ disrupted' = disrupted \/ Disrupt("db")
        /\ spared' = spared \/ Spare({First(a)})
    BY <1>9 DEF Apply, ApplyFails, counters, AddLabel
  <2> QED BY <2>1, <2>2, SpareOK DEF CountsMove, Disrupt
<1>10. CASE ReadFlags(a) \/ Remove(a) \/ List(a) \/ ListFails(a)
  <2>1. /\ UNCHANGED <<commands, history>>
        /\ disrupted' = disrupted \/ Disrupt("db")
    BY <1>10 DEF ReadFlags, Remove, List, ListFails, counters
  <2> QED BY <2>1 DEF CountsMove, Disrupt, history
<1>11. CASE ReadFlagsFails(a)
  <2>1. First(a) \in Message
    BY <1>2, <1>11 DEF ReadFlagsFails
  <2>2. UNCHANGED <<commands, raced, touched, torn>> /\ Disrupt("db") /\ Spare({First(a)})
    BY <1>11 DEF ReadFlagsFails
  <2> QED BY <2>1, <2>2, SpareOK DEF CountsMove, Disrupt
<1>12. CASE RemoveFails(a)
  <2>1. cmd[a].marked \subseteq Message
    BY <1>1, <1>3, <1>12, CommandFields DEF RemoveFails, KindOK
  <2>2. UNCHANGED <<commands, raced, touched, torn>> /\ Disrupt("db") /\ Spare(cmd[a].marked)
    BY <1>12 DEF RemoveFails
  <2> QED BY <2>1, <2>2, SpareOK DEF CountsMove, Disrupt
<1> QED BY <1>5, <1>6, <1>7, <1>8, <1>9, <1>10, <1>11, <1>12 DEF Step

LEMMA CountsStep ==
  ASSUME TypeInv, [Next]_vars
  PROVE  CountsOK'
<1>1. TablesOK /\ HandsOK /\ CountsOK /\ \A v \in Actor : PlaceOK(v) /\ KindOK(v)
  BY TypeParts DEF TypeInv
<1>2. ASSUME NEW a \in Actor, Give(a)
      PROVE  CountsOK'
  <2>1. CASE \E b \in Box : Deliver(a, b)
    BY <1>1, <2>1 DEF Deliver, history, CountsOK
  <2>2. ASSUME NEW b \in Box, Expunge(a, b)
        PROVE  CountsMove
    BY <1>1, <2>2 DEF Expunge, Ask, CountsMove
  <2>3. ASSUME ~ \E b \in Box : Deliver(a, b) \/ Expunge(a, b)
        PROVE  CountsMove
    <3>1. /\ UNCHANGED <<disrupted, history>>
          /\ commands < MaxCommands /\ commands' = commands + 1
      BY <1>2, <2>3 DEF Give, Fetch, Store, Copy, Ask
    <3> QED BY <3>1 DEF history, CountsMove
  <2> QED BY <1>1, <2>1, <2>2, <2>3, CountsMoveOK
<1>3. ASSUME NEW b \in Box, NEW seen \in SUBSET Column, AppendMessage(b, seen)
      PROVE  CountsOK'
  BY <1>1, <1>3 DEF AppendMessage, history, CountsOK
<1>4. CASE Webmail
  <2>1. PICK m \in Message : \/ MarkRead(m) \/ MarkUnread(m) \/ DeleteMessage(m)
                             \/ \E b \in Box : Relabel(m, b)
    BY <1>4 DEF Webmail
  <2>2. ASSUME MarkRead(m) \/ MarkUnread(m)
        PROVE  CountsMove
    <3>1. /\ UNCHANGED <<commands, raced, spared>> /\ Disrupt("webmail")
          /\ touched' \in {touched, touched \cup {m}} /\ torn' \in {torn, torn \cup {m}}
      BY <2>2 DEF MarkRead, MarkUnread, Tear
    <3> QED BY <3>1 DEF Disrupt, CountsMove
  <2>3. ASSUME DeleteMessage(m)
        PROVE  CountsMove
    <3>1. UNCHANGED <<commands, raced, touched, torn, spared>> /\ Disrupt("webmail")
      BY <2>3 DEF DeleteMessage, history
    <3> QED BY <3>1 DEF Disrupt, CountsMove
  <2>4. ASSUME \E b \in Box : Relabel(m, b)
        PROVE  CountsMove
    <3>1. /\ UNCHANGED <<commands, raced, touched, torn>> /\ Disrupt("webmail")
          /\ spared' = spared \/ Spare({m})
      BY <2>4 DEF Relabel, AddLabel
    <3>2. spared' \subseteq spared \cup Message
      BY <3>1, SpareOK
    <3> QED BY <3>1, <3>2 DEF Disrupt, CountsMove
  <2> QED BY <1>1, <2>1, <2>2, <2>3, <2>4, CountsMoveOK
<1>5. ASSUME NEW as \in SUBSET Actor, Crash(as)
      PROVE  CountsOK'
  <2> DEFINE cut == {First(a) : a \in {b \in as : pc[b] = "stmt"}}
             left == UNION {cmd[a].marked :
                              a \in {b \in as : cmd[b] # None /\ cmd[b].kind = "expunge"}}
  <2>1. cut \subseteq Message
    <3>1. ASSUME NEW a \in as, pc[a] = "stmt"
          PROVE  First(a) \in Message
      BY <1>1, <3>1, FirstIn DEF PlaceOK
    <3> QED BY <3>1
  <2>2. left \subseteq Message
    <3>1. ASSUME NEW a \in as, cmd[a] # None, cmd[a].kind = "expunge"
          PROVE  cmd[a].marked \subseteq Message
      BY <1>1, <3>1, CommandFields DEF HandsOK
    <3> QED BY <3>1
  <2>3. /\ UNCHANGED <<commands, raced, touched>> /\ Disrupt("crash")
        /\ torn' = torn \cup cut /\ Spare(left)
    BY <1>5 DEF Crash
  <2> HIDE DEF cut, left
  <2>4. CountsMove
    BY <2>1, <2>2, <2>3, SpareOK DEF Disrupt, CountsMove
  <2> QED BY <1>1, <2>4, CountsMoveOK
<1>6. CASE UNCHANGED vars
  BY <1>1, <1>6 DEF vars, counters, history, CountsOK
<1> QED BY <1>1, <1>2, <1>3, <1>4, <1>5, <1>6, StepCounts, CountsMoveOK DEF Next

LEMMA TypeStep ==
  ASSUME TypeInv, NumbersInv, [Next]_vars
  PROVE  TypeInv'
<1>1. TablesOK' /\ UidsOK' /\ HandsOK' /\ CountsOK' /\ \A v \in Actor : PlaceOK(v)' /\ KindOK(v)'
  BY TablesStep, UidsStep, HandsStep, CountsStep
<1>2. TypeOK'
  BY <1>1 DEF TypeOK, TablesOK, UidsOK, HandsOK, PlaceOK, CountsOK
<1> QED BY <1>1, <1>2 DEF TypeInv

-----------------------------------------------------------------------------
(* What a command is for.                                                  *)

LEMMA StepKeepsCommand ==
  ASSUME NEW a \in Actor, Step(a)
  PROVE  cmd' \in {cmd, [cmd EXCEPT ![a] = None]}
<1>1. ASSUME NEW l, Advance(a, l)
      PROVE  cmd' \in {cmd, [cmd EXCEPT ![a] = None]}
  BY <1>1 DEF Advance, End
<1>2. ASSUME NEW n, Numbered(a, n)
      PROVE  cmd' \in {cmd, [cmd EXCEPT ![a] = None]}
  BY <1>1, <1>2 DEF Numbered
<1>3. CASE Look(a) \/ LookFails(a) \/ Insert(a) \/ InsertFails(a)
  BY <1>2, <1>3 DEF Look, LookFails, Insert, InsertFails, Missing
<1>4. CASE Stmt(a) \/ StmtFails(a) \/ Apply(a) \/ ApplyFails(a)
  BY <1>1, <1>4 DEF Stmt, StmtFails, Apply, ApplyFails, Continue, End
<1>5. CASE \/ ReadFlags(a) \/ ReadFlagsFails(a) \/ Remove(a) \/ RemoveFails(a)
           \/ List(a) \/ ListFails(a)
  BY <1>1, <1>5 DEF ReadFlags, ReadFlagsFails, Remove, RemoveFails, List, ListFails, End
<1> QED BY <1>3, <1>4, <1>5 DEF Step

(* The command a goroutine is given, and where it starts.                  *)
LEMMA GiveAims ==
  ASSUME TypeInv, NEW a \in Actor, Give(a)
  PROVE  /\ AimOK(a)' \/ cmd'[a] = cmd[a]
         /\ pc'[a] \notin {"stmt", "apply"}
<1>1. HandsOK /\ shown \subseteq Uid /\ PlaceOK(a)
  BY TypeParts DEF TypeInv, UidsOK
<1>2. ASSUME NEW c, NEW ms, NEW l, l \in {"look", "read"}, Start(a, c, ms, l)
      PROVE  cmd'[a] = c /\ pc'[a] = l
  BY <1>1, <1>2 DEF Start, GoTo, HandsOK
<1>3. ASSUME NEW c, NEW l, l \in {"look", "read"}, Ask(a, c, l)
      PROVE  \/ cmd'[a] = cmd[a] /\ pc'[a] = "idle"
             \/ cmd'[a] = c /\ pc'[a] = l
  BY <1>2, <1>3 DEF Ask, goVars
<1>4. ASSUME NEW b \in Box, Deliver(a, b)
      PROVE  cmd'[a].kind = "deliver" /\ pc'[a] = "look"
  <2>1. cmd'[a] = [kind |-> "deliver", box |-> b] /\ pc'[a] = "look"
    BY <1>2, <1>4 DEF Deliver
  <2> QED BY <2>1
<1>5. ASSUME NEW b \in Box, Fetch(a, b)
      PROVE  \/ cmd'[a] = cmd[a] /\ pc'[a] = "idle"
             \/ cmd'[a].kind = "fetch" /\ pc'[a] = "look"
  BY <1>3, <1>5 DEF Fetch
<1>6. ASSUME NEW b \in Box, Expunge(a, b)
      PROVE  \/ cmd'[a] = cmd[a] /\ pc'[a] = "idle"
             \/ cmd'[a].kind = "expunge" /\ pc'[a] = "read"
  BY <1>3, <1>6 DEF Expunge
<1>7. ASSUME NEW r \in shown, NEW op \in {"add", "remove", "replace"}, NEW f \in Flag,
             Store(a, r, op, f)
      PROVE  \/ cmd'[a] = cmd[a] /\ pc'[a] = "idle"
             \/ AimOK(a)' /\ pc'[a] = "look"
  <2>1. shown' = shown
    BY <1>7 DEF Store
  <2> QED BY <1>3, <1>7, <2>1 DEF Store, AimOK
<1>8. ASSUME NEW r \in shown, NEW d \in Box, Copy(a, r, d)
      PROVE  \/ cmd'[a] = cmd[a] /\ pc'[a] = "idle"
             \/ AimOK(a)' /\ pc'[a] = "look"
  <2>1. shown' = shown
    BY <1>8 DEF Copy
  <2> QED BY <1>3, <1>8, <2>1 DEF Copy, AimOK
<1>9. ASSUME cmd'[a].kind \in {"deliver", "fetch", "expunge"}
      PROVE  AimOK(a)'
  BY <1>9 DEF AimOK, Aimed, Setting
<1>10. \/ \E b \in Box : Deliver(a, b) \/ Fetch(a, b) \/ Expunge(a, b)
       \/ \E r \in shown, op \in {"add", "remove", "replace"}, f \in Flag : Store(a, r, op, f)
       \/ \E r \in shown, d \in Box : Copy(a, r, d)
  BY DEF Give
<1> DEFINE Goal == (AimOK(a)' \/ cmd'[a] = cmd[a]) /\ pc'[a] \notin {"stmt", "apply"}
<1>11. ASSUME NEW b \in Box, Deliver(a, b) \/ Fetch(a, b) \/ Expunge(a, b)
       PROVE  Goal
  <2>1. CASE Deliver(a, b)
    BY <1>4, <1>9, <2>1
  <2>2. CASE Fetch(a, b)
    BY <1>5, <1>9, <2>2
  <2>3. CASE Expunge(a, b)
    BY <1>6, <1>9, <2>3
  <2> QED BY <1>11, <2>1, <2>2, <2>3
<1>12. ASSUME NEW r \in shown, NEW op \in {"add", "remove", "replace"}, NEW f \in Flag,
              Store(a, r, op, f)
       PROVE  Goal
  BY <1>7, <1>12
<1>13. ASSUME NEW r \in shown, NEW d \in Box, Copy(a, r, d)
       PROVE  Goal
  BY <1>8, <1>13
<1> HIDE DEF Goal
<1>14. Goal
  BY <1>10, <1>11, <1>12, <1>13
<1> QED BY <1>14 DEF Goal

LEMMA AimStep ==
  ASSUME MailboxInv, [Next]_vars, NEW v \in Actor
  PROVE  AimOK(v)'
<1>1. HandsOK /\ AimOK(v) /\ shown \subseteq shown'
  BY TypeParts, NumbersStep DEF MailboxInv, TypeInv
<1>2. ASSUME cmd'[v] = cmd[v] \/ cmd'[v] = None
      PROVE  AimOK(v)'
  BY <1>1, <1>2 DEF AimOK, Aimed
<1>3. ASSUME NEW a \in Actor, Step(a)
      PROVE  AimOK(v)'
  BY <1>1, <1>2, <1>3, StepKeepsCommand DEF HandsOK
<1>4. ASSUME NEW a \in Actor, Give(a)
      PROVE  AimOK(v)'
  <2>1. CASE v = a
    BY <1>2, <1>4, <2>1, GiveAims DEF MailboxInv
  <2>2. CASE v # a
    BY <1>2, <1>4, <2>2, GiveMoves DEF MailboxInv, Moved, Fixed
  <2> QED BY <2>1, <2>2
<1>5. ASSUME NEW b \in Box, NEW seen \in SUBSET Column, AppendMessage(b, seen)
      PROVE  AimOK(v)'
  BY <1>2, <1>5 DEF AppendMessage, goVars
<1>6. CASE Webmail
  BY <1>2, <1>6 DEF Webmail, MarkRead, MarkUnread, DeleteMessage, Relabel, goVars
<1>7. CASE (\E as \in (SUBSET Actor) \ {{}} : Crash(as)) \/ UNCHANGED vars
  BY <1>2, <1>7 DEF Crash, vars, goVars
<1> QED BY <1>3, <1>4, <1>5, <1>6, <1>7 DEF Next

-----------------------------------------------------------------------------
(* A goroutine that changes a message changes the one it is for.           *)

(* It turns to the message at hand only under the number the client named, *)
(* and that number was never another message's.                            *)
LEMMA NumberedAims ==
  ASSUME MailboxInv, [Next]_vars, created' = created, NEW a \in Actor,
         pc[a] \in {"look", "insert"}, NEW n \in Nat, Numbered(a, n), Known(a, n)
  PROVE  TargetOK(a)'
<1>1. TablesOK /\ HandsOK /\ PlaceOK(a) /\ KindOK(a) /\ cmd[a] \in Command
  BY TypeParts DEF MailboxInv, TypeInv, PlaceOK, HandsOK
<1>2. CASE cmd[a].kind \in {"fetch", "deliver"} \/ cmd[a].aim.uid # n
  <2>1. Advance(a, "look")
    BY <1>2 DEF Numbered
  <2> QED BY <1>1, <2>1, AdvanceMoves DEF KindOK, Heads, TargetOK
<1>3. CASE ~(cmd[a].kind \in {"fetch", "deliver"} \/ cmd[a].aim.uid # n)
  <2>1. cmd' = cmd /\ todo' = todo /\ cmd[a].aim.uid = n
    BY <1>3 DEF Numbered
  <2>2. cmd[a].kind \in {"copy"} \cup Setting
    BY <1>1, <1>3, CommandFields DEF KindOK
  <2>3. cmd[a] # None
    BY <1>1 DEF PlaceOK
  <2>4. cmd[a].aim \in shown /\ cmd[a].aim.box = cmd[a].box
    BY <2>2, <2>3 DEF MailboxInv, AimOK, Aimed
  <2>5. CASE n = Derived
    BY <2>1, <2>5 DEF TargetOK
  <2>6. CASE n # Derived
    <3>1. cmd[a].aim \in named' /\ UidsNeverReused'
      BY <2>1, <2>4, <2>6, NumbersStep DEF MailboxInv, NumbersInv
    <3> DEFINE row == [box |-> cmd[a].box, uid |-> n, msg |-> First(a)]
    <3>2. row \in named'
      BY <2>6 DEF Known
    <3>3. row.box = cmd[a].aim.box /\ row.uid = cmd[a].aim.uid /\ row.msg = First(a)
      BY <2>1, <2>4
    <3> HIDE DEF row
    <3>4. First(a) = cmd[a].aim.msg
      BY <3>1, <3>2, <3>3 DEF UidsNeverReused
    <3> QED BY <2>1, <3>4 DEF TargetOK, First
  <2> QED BY <2>5, <2>6
<1> QED BY <1>2, <1>3

LEMMA StepAims ==
  ASSUME MailboxInv, NEW a \in Actor, Step(a)
  PROVE  TargetOK(a)'
<1>1. /\ TypeInv /\ TablesOK /\ HandsOK /\ PlaceOK(a) /\ KindOK(a) /\ TargetOK(a)
      /\ created' = created
  BY TypeParts, StepMoves DEF MailboxInv, TypeInv
<1>2. ASSUME End(a)
      PROVE  TargetOK(a)'
  BY <1>1, <1>2, EndMoves DEF TargetOK
<1>3. ASSUME NEW l, Heads(cmd[a], l), pc[a] \notin {"idle", "list"}, Advance(a, l)
      PROVE  TargetOK(a)'
  BY <1>1, <1>3, AdvanceMoves DEF TargetOK
<1>4. CASE pc[a] \in {"look", "insert"}
  <2>1. CASE pc'[a] = "insert"
    BY <2>1 DEF TargetOK
  <2>2. ASSUME NEW n \in Nat, Numbered(a, n), Known(a, n)
        PROVE  TargetOK(a)'
    BY <1>1, <1>4, <2>2, NumberedAims DEF Next
  <2> QED BY <1>1, <1>4, <2>1, <2>2, Numbering DEF MailboxInv, NumbersInv
<1>5. CASE Stmt(a) \/ StmtFails(a)
  <2>1. pc[a] = "stmt" /\ (End(a) \/ Continue(a))
    BY <1>5 DEF Stmt, StmtFails
  <2>2. CASE Continue(a) /\ Len(stmts[a]) = 1
    BY <1>1, <1>3, <2>1, <2>2 DEF Continue, KindOK, Heads, Setting
  <2>3. CASE Continue(a) /\ Len(stmts[a]) # 1
    BY <1>1, <2>3 DEF Continue, TargetOK, First
  <2> QED BY <1>2, <2>1, <2>2, <2>3
<1>6. CASE Apply(a) \/ ApplyFails(a)
  BY <1>1, <1>2, <1>3, <1>6 DEF Apply, ApplyFails, KindOK, Heads
<1>7. CASE \/ ReadFlags(a) \/ ReadFlagsFails(a) \/ Remove(a) \/ RemoveFails(a)
  <2>1. \/ Advance(a, "read") /\ pc[a] \in {"read", "remove"}
        \/ End(a)
        \/ pc' = [pc EXCEPT ![a] = "remove"]
    BY <1>7 DEF ReadFlags, ReadFlagsFails, Remove, RemoveFails, GoTo
  <2>2. CASE pc' = [pc EXCEPT ![a] = "remove"]
    BY <1>1, <2>2 DEF HandsOK, TargetOK
  <2> QED BY <1>1, <1>2, <1>3, <2>1, <2>2 DEF KindOK, Heads
<1>8. CASE List(a) \/ ListFails(a)
  <2>1. End(a) \/ pc' = [pc EXCEPT ![a] = "read"]
    BY <1>8 DEF List, ListFails, GoTo
  <2>2. CASE pc' = [pc EXCEPT ![a] = "read"]
    BY <1>1, <2>2 DEF HandsOK, TargetOK
  <2> QED BY <1>2, <2>1, <2>2
<1>9. CASE Look(a) \/ LookFails(a) \/ Insert(a) \/ InsertFails(a)
  BY <1>4, <1>9 DEF Look, LookFails, Insert, InsertFails
<1> QED BY <1>5, <1>6, <1>7, <1>8, <1>9 DEF Step

LEMMA TargetStep ==
  ASSUME MailboxInv, [Next]_vars, NEW v \in Actor
  PROVE  TargetOK(v)'
<1>1. TypeInv /\ TargetOK(v)
  BY DEF MailboxInv
<1>2. ASSUME pc'[v] = pc[v], cmd'[v] = cmd[v], todo'[v] = todo[v]
      PROVE  TargetOK(v)'
  BY <1>1, <1>2 DEF TargetOK, First
<1>3. ASSUME NEW a \in Actor, Step(a)
      PROVE  TargetOK(v)'
  <2>1. CASE v = a
    BY <1>3, <2>1, StepAims
  <2>2. CASE v # a
    BY <1>1, <1>2, <1>3, <2>2, StepMoves DEF Moved, Fixed
  <2> QED BY <2>1, <2>2
<1>4. ASSUME NEW a \in Actor, Give(a)
      PROVE  TargetOK(v)'
  <2>1. CASE v = a
    BY <1>1, <1>4, <2>1, GiveAims DEF TargetOK
  <2>2. CASE v # a
    BY <1>1, <1>2, <1>4, <2>2, GiveMoves DEF Moved, Fixed
  <2> QED BY <2>1, <2>2
<1>5. ASSUME NEW b \in Box, NEW seen \in SUBSET Column, AppendMessage(b, seen)
      PROVE  TargetOK(v)'
  BY <1>2, <1>5 DEF AppendMessage, goVars
<1>6. CASE Webmail
  BY <1>2, <1>6 DEF Webmail, MarkRead, MarkUnread, DeleteMessage, Relabel, goVars
<1>7. ASSUME NEW as \in SUBSET Actor, Crash(as)
      PROVE  TargetOK(v)'
  <2>1. CASE v \in as
    BY <1>7, <2>1 DEF Crash, TargetOK
  <2>2. CASE v \notin as
    BY <1>2, <1>7, <2>2 DEF Crash
  <2> QED BY <2>1, <2>2
<1>8. CASE UNCHANGED vars
  BY <1>2, <1>8 DEF vars, goVars
<1> QED BY <1>3, <1>4, <1>5, <1>6, <1>7, <1>8 DEF Next

-----------------------------------------------------------------------------
(* The theorems.                                                           *)

LEMMA MailboxInit ==
  ASSUME Init
  PROVE  MailboxInv
<1>1. TypeOK
  <2>1. rows \subseteq 1..created /\ created \in 0..MaxMessages
    BY DEF Init
  <2>2. /\ labeled \in [Message -> SUBSET Box] /\ flags \in [Message -> SUBSET Flag]
        /\ columns \in [Message -> SUBSET Column]
        /\ \A m \in Message \ rows : labeled[m] = {} /\ flags[m] = {} /\ columns[m] = {}
    BY DEF Init
  <2>3. /\ uids \subseteq Uid /\ named \subseteq Uid /\ shown \subseteq Uid
        /\ (\A r \in uids : r.msg \in rows) /\ last \in Nat
    BY DEF Init
  <2>4. HandsOK
    <3>1. <<>> \in Seq(Statement)
      OBVIOUS
    <3> QED BY <3>1 DEF Init, HandsOK, PC
  <2>5. \A a \in Actor : PlaceOK(a)
    BY DEF Init, PlaceOK
  <2>6. CountsOK
    BY DEF Init, CountsOK
  <2> QED BY <2>1, <2>2, <2>3, <2>4, <2>5, <2>6, TypeParts DEF TablesOK, UidsOK
<1>2. \A a \in Actor : KindOK(a) /\ AimOK(a) /\ TargetOK(a)
  BY DEF Init, KindOK, AimOK, Aimed, TargetOK
<1>3. NumbersInv
  BY DEF Init, NumbersInv, UidsNeverReused
<1> QED BY <1>1, <1>2, <1>3 DEF MailboxInv, TypeInv

LEMMA MailboxStep ==
  ASSUME MailboxInv, [Next]_vars
  PROVE  MailboxInv'
<1>1. TypeInv' /\ NumbersInv'
  BY TypeStep, NumbersStep DEF MailboxInv
<1>2. \A a \in Actor : AimOK(a)' /\ TargetOK(a)'
  BY AimStep, TargetStep
<1> QED BY <1>1, <1>2 DEF MailboxInv

(* Every reachable state satisfies the inductive invariant: types, numbers *)
(* of UIDs, and what commands are for.                                     *)
THEOREM MailboxInvariant == Spec => []MailboxInv
BY MailboxInit, MailboxStep, PTL DEF Spec

(* Whatever connections, workers, the webmail API and failures do, tables  *)
(* and goroutines hold values of their types, and no label, flag or UID    *)
(* outlives its message.                                                   *)
THEOREM TypeCorrect == Spec => []TypeOK
<1>1. MailboxInv => TypeOK
  BY DEF MailboxInv, TypeInv
<1> QED BY <1>1, MailboxInvariant, PTL

(* GetOrCreateIMAPUID never gives a UID of a mailbox to a second message,  *)
(* not even after the first was removed, deleted or lost its label.        *)
THEOREM UidsStayUnique == Spec => []UidsNeverReused
<1>1. MailboxInv => UidsNeverReused
  BY DEF MailboxInv, NumbersInv
<1> QED BY <1>1, MailboxInvariant, PTL

(* UpdateMessagesFlags and CopyMessages change the message that FETCH once *)
(* showed their client under the UID it names, and no other.               *)
THEOREM CommandsHitTheirTarget == Spec => []RightTarget
<1>1. MailboxInv => RightTarget
  BY DEF MailboxInv, TargetOK, RightTarget
<1> QED BY <1>1, MailboxInvariant, PTL

-----------------------------------------------------------------------------
(* Why a message has one UID in a mailbox.                                 *)

Slot(a) == <<First(a), cmd[a].box>>

(* A goroutine that inserts found no UID, and nobody else inserts one.     *)
LooksDecide ==
  \A a \in Actor : pc[a] = "insert" /\ Slot(a) \notin raced
    => /\ UidsOf(First(a), cmd[a].box) = {}
       /\ \A o \in Actor \ {a} : pc[o] = "insert" => Slot(o) # Slot(a)

LEMMA InsertEntry ==
  ASSUME TypeInv, NEW a \in Actor, Step(a), pc'[a] = "insert"
  PROVE  /\ cmd' = cmd /\ todo' = todo /\ uids' = uids
         /\ \/ Slot(a) \in raced'
            \/ /\ UidsOf(First(a), cmd[a].box) = {}
               /\ \A o \in Actor \ {a} : pc[o] = "insert" => Slot(o) # Slot(a)
<1>1. TablesOK /\ HandsOK /\ PlaceOK(a) /\ KindOK(a)
  BY TypeParts DEF TypeInv
<1>2. ASSUME End(a)
      PROVE  FALSE
  BY <1>1, <1>2 DEF End, GoTo, HandsOK
<1>3. ASSUME NEW l \in {"look", "read"}, Advance(a, l)
      PROVE  FALSE
  <2>1. CASE End(a)
    BY <1>2, <2>1
  <2>2. CASE ~End(a)
    <3>1. pc' = [pc EXCEPT ![a] = "list"] \/ pc' = [pc EXCEPT ![a] = l]
      BY <1>3, <2>2 DEF Advance, GoTo
    <3> QED BY <1>1, <3>1 DEF HandsOK
  <2> QED BY <2>1, <2>2
<1>4. ASSUME NEW n, Numbered(a, n)
      PROVE  FALSE
  <2>1. Advance(a, "look") \/ pc' = [pc EXCEPT ![a] = "apply"] \/ pc' = [pc EXCEPT ![a] = "stmt"]
    BY <1>4 DEF Numbered, GoTo
  <2> QED BY <1>1, <1>3, <2>1 DEF HandsOK
<1>5. CASE Look(a)
  <2>1. UidsOf(First(a), cmd[a].box) = {} /\ Missing(a) /\ uids' = uids
    BY <1>4, <1>5 DEF Look, dbVars
  <2>2. CASE Inserting(First(a), cmd[a].box)
    BY <2>1, <2>2 DEF Missing, Slot
  <2>3. CASE ~Inserting(First(a), cmd[a].box)
    BY <2>1, <2>3 DEF Missing, Inserting, Slot
  <2> QED BY <2>2, <2>3
<1>6. CASE LookFails(a)
  BY <1>4, <1>6 DEF LookFails, Slot, dbVars
<1>7. CASE Insert(a) \/ InsertFails(a)
  BY <1>4, <1>7 DEF Insert, InsertFails
<1>8. CASE Stmt(a) \/ StmtFails(a) \/ Apply(a) \/ ApplyFails(a)
  BY <1>1, <1>2, <1>3, <1>8 DEF Stmt, StmtFails, Apply, ApplyFails, Continue
<1>9. CASE ReadFlags(a) \/ ReadFlagsFails(a) \/ Remove(a) \/ RemoveFails(a)
  <2>1. Advance(a, "read") \/ End(a) \/ pc' = [pc EXCEPT ![a] = "remove"]
    BY <1>9 DEF ReadFlags, ReadFlagsFails, Remove, RemoveFails, GoTo
  <2> QED BY <1>1, <1>2, <1>3, <2>1 DEF HandsOK
<1>10. CASE List(a) \/ ListFails(a)
  <2>1. End(a) \/ pc' = [pc EXCEPT ![a] = "read"]
    BY <1>10 DEF List, ListFails, GoTo
  <2> QED BY <1>1, <1>2, <2>1 DEF HandsOK
<1> QED BY <1>5, <1>6, <1>7, <1>8, <1>9, <1>10 DEF Step

(* No goroutine starts with an insertion, and those that do not move go on.*)
LEMMA OthersInsert ==
  ASSUME TypeInv, [Next]_vars, NEW v \in Actor, pc'[v] = "insert"
  PROVE  \/ pc[v] = "insert" /\ cmd'[v] = cmd[v] /\ todo'[v] = todo[v]
         \/ Step(v)
<1>1. HandsOK
  BY TypeParts DEF TypeInv
<1>2. ASSUME NEW a \in Actor, Give(a)
      PROVE  pc[v] = "insert" /\ cmd'[v] = cmd[v] /\ todo'[v] = todo[v]
  <2>1. CASE v = a
    <3>1. pc'[a] \in {"idle", "look", "read"}
      <4>1. ASSUME NEW c, NEW ms, NEW l, l \in {"look", "read"}, Start(a, c, ms, l)
            PROVE  pc'[a] \in {"idle", "look", "read"}
        BY <1>1, <4>1 DEF Start, GoTo, HandsOK
      <4>2. ASSUME NEW c, NEW l, l \in {"look", "read"}, Ask(a, c, l)
            PROVE  pc'[a] \in {"idle", "look", "read"}
        BY <4>1, <4>2 DEF Ask, goVars
      <4> QED BY <1>2, <4>1, <4>2 DEF Give, Deliver, Fetch, Expunge, Store, Copy
    <3> QED BY <2>1, <3>1
  <2>2. CASE v # a
    BY <1>2, <2>2, GiveMoves DEF Moved, Fixed
  <2> QED BY <2>1, <2>2
<1>3. ASSUME NEW a \in Actor, Step(a), v # a
      PROVE  pc[v] = "insert" /\ cmd'[v] = cmd[v] /\ todo'[v] = todo[v]
  BY <1>3, StepMoves DEF Moved, Fixed
<1>4. ASSUME NEW b \in Box, NEW seen \in SUBSET Column, AppendMessage(b, seen)
      PROVE  UNCHANGED <<pc, cmd, todo>>
  BY <1>4 DEF AppendMessage, goVars
<1>5. CASE Webmail
  BY <1>5 DEF Webmail, MarkRead, MarkUnread, DeleteMessage, Relabel, goVars
<1>6. ASSUME NEW as \in SUBSET Actor, Crash(as)
      PROVE  pc[v] = "insert" /\ cmd'[v] = cmd[v] /\ todo'[v] = todo[v]
  BY <1>6 DEF Crash
<1>7. CASE UNCHANGED vars
  BY <1>7 DEF vars, goVars
<1> QED BY <1>2, <1>3, <1>4, <1>5, <1>6, <1>7 DEF Next

LEMMA RacedGrows ==
  ASSUME [Next]_vars
  PROVE  raced \subseteq raced'
<1>1. ASSUME NEW a \in Actor, Step(a)
      PROVE  raced \subseteq raced'
  BY <1>1 DEF Step, Look, LookFails, Missing, Insert, InsertFails, Stmt, StmtFails, Apply,
     ApplyFails, ReadFlags, ReadFlagsFails, Remove, RemoveFails, List, ListFails, history
<1>2. ASSUME NEW a \in Actor, Give(a)
      PROVE  raced' = raced
  BY <1>2 DEF Give, Deliver, Fetch, Expunge, Store, Copy, history
<1>3. ASSUME NEW b \in Box, NEW seen \in SUBSET Column, AppendMessage(b, seen)
      PROVE  raced' = raced
  BY <1>3 DEF AppendMessage, history
<1>4. CASE Webmail
  BY <1>4 DEF Webmail, MarkRead, MarkUnread, DeleteMessage, Relabel, history
<1>5. CASE (\E as \in (SUBSET Actor) \ {{}} : Crash(as)) \/ UNCHANGED vars
  BY <1>5 DEF Crash, vars, history
<1> QED BY <1>1, <1>2, <1>3, <1>4, <1>5 DEF Next

LEMMA LooksDecideStep ==
  ASSUME TypeInv, LooksDecide, [Next]_vars
  PROVE  LooksDecide'
<1>1. ASSUME NEW v \in Actor, pc'[v] = "insert"
      PROVE  /\ Slot(v)' = Slot(v) /\ First(v)' = First(v) /\ cmd'[v].box = cmd[v].box
             /\ pc[v] = "insert" \/ Step(v)
  <2>1. cmd'[v] = cmd[v] /\ todo'[v] = todo[v]
    BY <1>1, OthersInsert, InsertEntry
  <2> QED BY <1>1, <2>1, OthersInsert DEF Slot, First
<1>2. SUFFICES ASSUME NEW v \in Actor, pc'[v] = "insert", Slot(v) \notin raced'
               PROVE  /\ \A r \in uids' : ~(r.msg = First(v) /\ r.box = cmd[v].box)
                      /\ \A o \in Actor \ {v} : pc'[o] = "insert" => Slot(o) # Slot(v)
  BY <1>1 DEF LooksDecide, UidsOf
<1>3. CASE Step(v)
  <2>1. uids' = uids /\ UidsOf(First(v), cmd[v].box) = {}
    BY <1>2, <1>3, InsertEntry
  <2>2. \A o \in Actor \ {v} : pc'[o] = "insert" => pc[o] = "insert"
    BY <1>3, StepMoves DEF Moved, Fixed
  <2> QED BY <1>2, <1>3, <2>1, <2>2, InsertEntry DEF UidsOf
<1>4. CASE ~Step(v)
  <2>1. pc[v] = "insert" /\ Slot(v) \notin raced
    BY <1>1, <1>2, <1>4, RacedGrows
  <2>2. /\ \A r \in uids : ~(r.msg = First(v) /\ r.box = cmd[v].box)
        /\ \A o \in Actor \ {v} : pc[o] = "insert" => Slot(o) # Slot(v)
    BY <2>1 DEF LooksDecide, UidsOf
  <2>3. \A r \in uids' : ~(r.msg = First(v) /\ r.box = cmd[v].box)
    <3>1. CASE uids' \subseteq uids
      BY <2>2, <3>1
    <3>2. ASSUME NEW a \in Actor, Puts(a), Step(a)
          PROVE  \A r \in uids' : ~(r.msg = First(v) /\ r.box = cmd[v].box)
      <4>1. Slot(a) # Slot(v)
        BY <1>4, <2>2, <3>2 DEF Puts
      <4>2. uids' = uids \cup {NewUid(a)} /\ NewUid(a).msg = First(a) /\ NewUid(a).box = cmd[a].box
        BY <3>2, NewUidOK DEF Puts, PutUid
      <4> QED BY <2>2, <4>1, <4>2 DEF Slot
    <3> QED BY <3>1, <3>2, UidMoves
  <2>4. ASSUME NEW o \in Actor \ {v}, pc'[o] = "insert"
        PROVE  Slot(o) # Slot(v)
    <3>1. CASE pc[o] = "insert"
      BY <2>2, <3>1
    <3>2. CASE Step(o)
      BY <1>2, <2>1, <2>4, <3>2, InsertEntry
    <3> QED BY <1>1, <2>4, <3>1, <3>2
  <2> QED BY <2>3, <2>4
<1> QED BY <1>3, <1>4

LEMMA OneUidStep ==
  ASSUME TypeInv, LooksDecide, OneUid, [Next]_vars
  PROVE  OneUid'
<1>1. raced \subseteq raced'
  BY RacedGrows
<1>2. CASE uids' \subseteq uids
  BY <1>1, <1>2 DEF OneUid
<1>3. ASSUME NEW a \in Actor, Puts(a)
      PROVE  OneUid'
  <2> DEFINE new == NewUid(a)
  <2>1. uids' = uids \cup {new} /\ new.msg = First(a) /\ new.box = cmd[a].box
    BY <1>3, NewUidOK DEF Puts, PutUid
  <2> HIDE DEF new
  <2>2. ASSUME NEW r \in uids, r.msg = new.msg, r.box = new.box
        PROVE  <<r.msg, r.box>> \in raced'
    BY <1>1, <1>3, <2>1, <2>2 DEF Puts, LooksDecide, UidsOf, Slot
  <2> QED BY <1>1, <2>1, <2>2 DEF OneUid
<1> QED BY <1>2, <1>3, UidMoves

(* GetOrCreateIMAPUID gives a message a second UID in a mailbox only when  *)
(* two goroutines looked before either inserted, or one could not look.    *)
THEOREM MessagesHaveOneUid == Spec => []OneUid
<1>1. MailboxInv => TypeInv
  BY DEF MailboxInv
<1>2. Init => LooksDecide /\ OneUid
  BY DEF Init, LooksDecide, OneUid
<1>3. TypeInv /\ (LooksDecide /\ OneUid) /\ [Next]_vars => (LooksDecide /\ OneUid)'
  BY LooksDecideStep, OneUidStep
<1> QED BY <1>1, <1>2, <1>3, MailboxInvariant, PTL DEF Spec

-----------------------------------------------------------------------------
(* What EXPUNGE removes.                                                   *)

(* While an EXPUNGE runs, nothing is taken back, and a message loses       *)
(* \Deleted only if it goes or is spared.                                  *)
LEMMA MarksMove ==
  ASSUME TypeInv, [Next]_vars, Expunging
  PROVE  /\ spared \subseteq spared'
         /\ \A m \in 1..created :
              m \in rows' => /\ m \in rows
                             /\ "deleted" \in flags[m] => "deleted" \in flags'[m] \/ m \in spared'
<1>1. TablesOK /\ HandsOK /\ \A v \in Actor : PlaceOK(v) /\ KindOK(v)
  BY TypeParts DEF TypeInv
<1> DEFINE Goal ==
      /\ spared \subseteq spared'
      /\ \A m \in 1..created :
           m \in rows' => /\ m \in rows
                          /\ "deleted" \in flags[m] => "deleted" \in flags'[m] \/ m \in spared'
<1>2. ASSUME NEW ms, Spare(ms)
      PROVE  spared' = spared \cup ms
  BY <1>2 DEF Spare
<1>3. ASSUME spared \subseteq spared', rows' = rows, flags' = flags
      PROVE  Goal
  BY <1>3
<1>4. ASSUME NEW a \in Actor, Step(a)
      PROVE  Goal
  <2>1. CASE \/ Look(a) \/ LookFails(a) \/ Insert(a) \/ InsertFails(a)
             \/ ReadFlags(a) \/ Remove(a) \/ List(a) \/ ListFails(a)
    BY <1>3, <2>1 DEF Look, LookFails, Insert, InsertFails, ReadFlags, Remove, List, ListFails,
                      dbVars, history
  <2>2. CASE Apply(a) \/ ApplyFails(a) \/ ReadFlagsFails(a) \/ RemoveFails(a)
    <3>1. /\ rows' = rows /\ flags' = flags
          /\ spared' = spared \/ \E ms : Spare(ms)
      BY <2>2 DEF Apply, ApplyFails, ReadFlagsFails, RemoveFails, AddLabel, dbVars
    <3> QED BY <1>2, <1>3, <3>1
  <2>3. CASE Stmt(a) \/ StmtFails(a)
    <3> DEFINE s == Head(stmts[a])
    <3>1. rows' = rows /\ (CarryOut(s, First(a)) \/ UNCHANGED <<flags, spared>>)
      BY <2>3 DEF Stmt, StmtFails
    <3>2. s \in Statement
      BY <1>1, <2>3, HeadTailProperties DEF Stmt, StmtFails, PlaceOK, HandsOK
    <3> HIDE DEF s
    <3>3. ASSUME CarryOut(s, First(a))
          PROVE  Goal
      <4>1. spared \subseteq spared'
        BY <1>2, <3>3 DEF CarryOut
      <4>2. ASSUME NEW m \in 1..created, "deleted" \in flags[m], "deleted" \notin flags'[m]
            PROVE  m \in spared'
        <5>1. m = First(a) /\ s \in {Do("clear", "deleted"), Do("wipe", "deleted")}
          BY <1>1, <3>2, <3>3, <4>2 DEF CarryOut, Statement, Do, TablesOK
        <5> QED BY <1>2, <3>3, <5>1 DEF CarryOut
      <4> QED BY <3>1, <4>1, <4>2
    <3> QED BY <1>3, <3>1, <3>3
  <2> QED BY <1>4, <2>1, <2>2, <2>3 DEF Step
<1>5. ASSUME NEW b, NEW seen, Create(b, seen), flags' = flags, spared' = spared
      PROVE  Goal
  BY <1>1, <1>5 DEF Create, TablesOK
<1>6. ASSUME NEW a \in Actor, Give(a)
      PROVE  Goal
  <2>1. CASE \E b \in Box : Deliver(a, b)
    BY <1>5, <2>1 DEF Deliver, history
  <2>2. CASE ~ \E b \in Box : Deliver(a, b)
    BY <1>3, <1>6, <2>2 DEF Give, Fetch, Expunge, Store, Copy, dbVars, history
  <2> QED BY <2>1, <2>2
<1>7. ASSUME NEW b \in Box, NEW seen \in SUBSET Column, AppendMessage(b, seen)
      PROVE  Goal
  BY <1>5, <1>7 DEF AppendMessage, history
<1>8. CASE Webmail
  <2>1. PICK m \in Message : \/ MarkRead(m) \/ MarkUnread(m) \/ DeleteMessage(m)
                             \/ \E b \in Box : Relabel(m, b)
    BY <1>8 DEF Webmail
  <2>2. CASE MarkRead(m) \/ MarkUnread(m)
    BY <1>3, <2>2 DEF MarkRead, MarkUnread
  <2>3. CASE DeleteMessage(m)
    BY <1>1, <2>3 DEF DeleteMessage, history, TablesOK
  <2>4. ASSUME NEW b \in Box, Relabel(m, b)
        PROVE  Goal
    BY <1>2, <1>3, <2>4 DEF Relabel, AddLabel
  <2> QED BY <2>1, <2>2, <2>3, <2>4
<1>9. ASSUME NEW as \in SUBSET Actor, Crash(as)
      PROVE  Goal
  <2>1. rows' = rows /\ flags' = flags /\ \E ms : Spare(ms)
    BY <1>9 DEF Crash, dbVars
  <2> QED BY <1>2, <1>3, <2>1
<1>10. CASE UNCHANGED vars
  BY <1>3, <1>10 DEF vars, dbVars, history
<1> QED BY <1>4, <1>6, <1>7, <1>8, <1>9, <1>10 DEF Next

LEMMA RemoveEntry ==
  ASSUME TypeInv, [Next]_vars, NEW v \in Actor, pc'[v] = "remove"
  PROVE  /\ todo'[v] = todo[v] /\ pc[v] \in {"read", "remove"}
         /\ \/ pc[v] = "remove"
            \/ "deleted" \in flags'[First(v)]
<1>1. HandsOK
  BY TypeParts DEF TypeInv
<1>2. ASSUME NEW a \in Actor, NEW l \in {"look", "read"}, Advance(a, l)
      PROVE  pc'[a] # "remove"
  <2>1. \E k \in {"idle", "list", l} : pc' = [pc EXCEPT ![a] = k]
    BY <1>2 DEF Advance, End, GoTo
  <2> QED BY <1>1, <2>1 DEF HandsOK
<1>3. CASE Step(v)
  <2>1. CASE ReadFlags(v)
    BY <1>2, <2>1 DEF ReadFlags, dbVars
  <2>2. ASSUME ~ReadFlags(v)
        PROVE  FALSE
    <3>1. \/ \E k \in PC \ {"remove"} : pc' = [pc EXCEPT ![v] = k]
          \/ \E l \in {"look", "read"} : Advance(v, l)
          \/ pc' = pc /\ pc[v] = "stmt"
      BY <1>3, <2>2 DEF Step, Look, LookFails, Insert, InsertFails, Numbered, Missing, Stmt,
         StmtFails, Apply, ApplyFails, ReadFlagsFails, Remove, RemoveFails, List, ListFails,
         Continue, End, GoTo, PC
    <3> QED BY <1>1, <1>2, <1>3, <3>1 DEF HandsOK
  <2> QED BY <2>1, <2>2
<1>4. ASSUME NEW a \in Actor, Step(a), v # a
      PROVE  pc[v] = "remove" /\ todo'[v] = todo[v]
  BY <1>4, StepMoves DEF Moved, Fixed
<1>5. ASSUME NEW a \in Actor, Give(a)
      PROVE  pc[v] = "remove" /\ todo'[v] = todo[v]
  <2>1. CASE v = a
    <3>1. ASSUME NEW c, NEW ms, NEW l, l \in {"look", "read"}, Start(a, c, ms, l)
          PROVE  pc'[a] \in {"idle", "look", "read"}
      BY <1>1, <3>1 DEF Start, GoTo, HandsOK
    <3>2. ASSUME NEW c, NEW l, l \in {"look", "read"}, Ask(a, c, l)
          PROVE  pc'[a] \in {"idle", "look", "read"}
      BY <3>1, <3>2 DEF Ask, goVars
    <3>3. pc'[a] \in {"idle", "look", "read"}
      BY <1>5, <3>1, <3>2 DEF Give, Deliver, Fetch, Expunge, Store, Copy
    <3> QED BY <2>1, <3>3
  <2>2. CASE v # a
    BY <1>5, <2>2, GiveMoves DEF Moved, Fixed
  <2> QED BY <2>1, <2>2
<1>6. CASE \/ \E b \in Box, seen \in SUBSET Column : AppendMessage(b, seen)
           \/ Webmail \/ UNCHANGED vars
  <2>1. UNCHANGED goVars
    BY <1>6 DEF AppendMessage, Webmail, MarkRead, MarkUnread, DeleteMessage, Relabel, vars
  <2> QED BY <2>1 DEF goVars
<1>7. ASSUME NEW as \in SUBSET Actor, Crash(as)
      PROVE  pc[v] = "remove" /\ todo'[v] = todo[v]
  BY <1>7 DEF Crash
<1> QED BY <1>3, <1>4, <1>5, <1>6, <1>7 DEF Next

LEMMA ExpungesMarkedStep ==
  ASSUME TypeInv, ExpungesMarked, [Next]_vars
  PROVE  ExpungesMarked'
<1>1. TablesOK /\ HandsOK /\ \A v \in Actor : PlaceOK(v) /\ KindOK(v)
  BY TypeParts DEF TypeInv
<1>2. SUFFICES ASSUME NEW v \in Actor, pc'[v] = "remove", First(v)' \in rows'
               PROVE  "deleted" \in flags'[First(v)'] \/ First(v)' \in spared'
  BY DEF ExpungesMarked
<1>3. /\ First(v)' = First(v) /\ pc[v] \in {"read", "remove"}
      /\ pc[v] = "remove" \/ "deleted" \in flags'[First(v)]
  BY <1>2, RemoveEntry DEF First
<1>4. First(v) \in 1..created /\ Expunging
  BY <1>1, <1>3, FirstIn DEF PlaceOK, KindOK, Expunging
<1> QED BY <1>2, <1>3, <1>4, MarksMove DEF ExpungesMarked

(* ExpungeMessages takes from the mailbox only messages marked \Deleted,   *)
(* unless the mark went after it was read.                                 *)
THEOREM ExpungeSparesTheRest == Spec => []ExpungesMarked
<1>1. MailboxInv => TypeInv
  BY DEF MailboxInv
<1>2. Init => ExpungesMarked
  BY DEF Init, ExpungesMarked
<1>3. TypeInv /\ ExpungesMarked /\ [Next]_vars => ExpungesMarked'
  BY ExpungesMarkedStep
<1> QED BY <1>1, <1>2, <1>3, MailboxInvariant, PTL DEF Spec

-----------------------------------------------------------------------------
(* The two places of a flag.                                               *)

Agrees(m) == "seen" \in flags[m] => "seen" \in columns[m]

(* What is left of a STORE leaves the places of \Seen in agreement: it     *)
(* ends by setting the column; or it sets no row, and there is none, or it *)
(* removes it next, or the places agree and it resets no column.           *)
Settles(s, m) ==
  \/ s[Len(s)] = Do("mark", "seen")
  \/ /\ \A i \in 1..Len(s) : s[i] # Do("set", "seen")
     /\ \/ "seen" \notin flags[m]
        \/ s[1] \in {Do("clear", "seen"), Do("wipe", "seen")}
        \/ Agrees(m) /\ \A i \in 1..Len(s) : s[i] # Do("unmark", "seen")

(* A message whose flags only one STORE is changing.                       *)
Excused(m) == m \in touched \cup torn

LonesAlone ==
  \A a, b \in Actor :
    pc[a] = "stmt" /\ pc[b] = "stmt" /\ a # b /\ First(a) = First(b) => First(a) \in torn
StoresSettle ==
  \A a \in Actor : pc[a] = "stmt" => Excused(First(a)) \/ Settles(stmts[a], First(a))

SeenInv == LonesAlone /\ StoresSettle /\ SeenAgrees

LEMMA Appended ==
  ASSUME NEW S, NEW s \in Seq(S), NEW x \in S
  PROVE  /\ Len(s \o <<x>>) = Len(s) + 1 /\ (s \o <<x>>)[Len(s) + 1] = x
         /\ \A i \in 1..Len(s) : (s \o <<x>>)[i] = s[i]
OBVIOUS

(* A new STORE settles the flags of a message that has them agree.         *)
LEMMA ChangesSettle ==
  ASSUME NEW op \in Setting, NEW f \in Flag, NEW m, Agrees(m)
  PROVE  Settles(Changes(op, f), m)
<1>0. \A d \in {"set", "clear", "wipe", "mark", "unmark"} : Do(d, "seen") \in Statement
  BY DEF Do, Statement, Flag, Column
<1>1. CASE op = "add" /\ f = "seen"
  <2>1. Changes(op, f) = <<Do("set", f)>> \o <<Do("mark", f)>>
    BY <1>1 DEF Changes, Column
  <2> QED BY <1>0, <1>1, <2>1, Appended DEF Settles
<1>2. CASE op = "add" /\ f = "deleted"
  <2>1. Changes(op, f) = <<Do("set", f)>>
    BY <1>2 DEF Changes, Column
  <2> QED BY <1>2, <2>1 DEF Settles, Do
<1>3. CASE op = "remove" /\ f = "seen"
  <2>1. Changes(op, f) = <<Do("clear", f)>> \o <<Do("unmark", f)>>
    BY <1>3 DEF Changes, Column
  <2>2. /\ Len(Changes(op, f)) = 2 /\ Changes(op, f)[1] = Do("clear", "seen")
        /\ Changes(op, f)[2] = Do("unmark", "seen")
    BY <1>0, <1>3, <2>1, Appended
  <2> QED BY <2>2 DEF Settles, Do
<1>4. CASE op = "remove" /\ f = "deleted"
  <2>1. Changes(op, f) = <<Do("clear", f)>>
    BY <1>4 DEF Changes, Column
  <2> QED BY <1>4, <2>1 DEF Settles, Do
<1>5. CASE op = "replace" /\ f = "seen"
  <2>1. Changes(op, f) = <<Do("wipe", "seen"), Do("wipe", "deleted"), Do("unmark", "seen"),
                           Do("set", f)>> \o <<Do("mark", f)>>
    BY <1>5 DEF Changes, Column
  <2>2. <<Do("wipe", "seen"), Do("wipe", "deleted"), Do("unmark", "seen"), Do("set", f)>>
          \in Seq(Statement)
    BY <1>5 DEF Do, Statement, Flag, Column
  <2> QED BY <1>0, <1>5, <2>1, <2>2, Appended DEF Settles
<1>6. CASE op = "replace" /\ f = "deleted"
  <2>1. Changes(op, f) = <<Do("wipe", "seen"), Do("wipe", "deleted"), Do("unmark", "seen"),
                           Do("set", f)>>
    BY <1>6 DEF Changes, Column
  <2> QED BY <1>6, <2>1 DEF Settles, Do
<1> QED BY <1>1, <1>2, <1>3, <1>4, <1>5, <1>6 DEF Setting, Flag

(* What one statement does to \Seen.                                       *)
LEMMA CarryOutSeen ==
  ASSUME TablesOK, NEW s \in Statement, NEW m \in Message, CarryOut(s, m)
  PROVE  /\ \A n \in Message \ {m} : flags'[n] = flags[n] /\ columns'[n] = columns[n]
         /\ s = Do("mark", "seen") => Agrees(m)'
         /\ s # Do("set", "seen") /\ "seen" \notin flags[m] => "seen" \notin flags'[m]
         /\ s \in {Do("clear", "seen"), Do("wipe", "seen")} => "seen" \notin flags'[m]
         /\ s # Do("set", "seen") /\ s # Do("unmark", "seen") /\ Agrees(m) => Agrees(m)'
<1> DEFINE F == CASE s.do = "set" /\ m \in rows   -> flags[m] \cup {s.flag}
                  [] s.do \in {"clear", "wipe"}   -> flags[m] \ {s.flag}
                  [] OTHER                        -> flags[m]
           C == CASE s.do = "mark" /\ m \in rows  -> columns[m] \cup {s.flag}
                  [] s.do = "unmark"              -> columns[m] \ {s.flag}
                  [] OTHER                        -> columns[m]
<1>1. flags' = [flags EXCEPT ![m] = F] /\ columns' = [columns EXCEPT ![m] = C]
  BY DEF CarryOut
<1>2. flags'[m] = F /\ columns'[m] = C
  BY <1>1 DEF TablesOK
<1>3. \A n \in Message \ {m} : flags'[n] = flags[n] /\ columns'[n] = columns[n]
  BY <1>1 DEF TablesOK
<1>4. s = Do(s.do, s.flag)
  BY DEF Statement, Do
<1>5. s = Do("mark", "seen") => Agrees(m)'
  BY <1>2 DEF Do, Agrees, TablesOK
<1>6. s # Do("set", "seen") /\ "seen" \notin flags[m] => "seen" \notin flags'[m]
  BY <1>2, <1>4
<1>7. s \in {Do("clear", "seen"), Do("wipe", "seen")} => "seen" \notin flags'[m]
  BY <1>2 DEF Do
<1>8. s # Do("set", "seen") /\ s # Do("unmark", "seen") /\ Agrees(m) => Agrees(m)'
  BY <1>2, <1>4 DEF Agrees
<1> QED BY <1>3, <1>5, <1>6, <1>7, <1>8

(* The rest of a STORE settles what its next statement does.               *)
LEMMA StatementSettles ==
  ASSUME TablesOK, NEW s \in Seq(Statement), s # <<>>, NEW m \in Message,
         CarryOut(Head(s), m), Settles(s, m)
  PROVE  /\ Len(s) = 1 => Agrees(m)'
         /\ Len(s) # 1 => Settles(Tail(s), m)'
<1>1. /\ Len(s) \in Nat \ {0} /\ Head(s) = s[1] /\ Head(s) \in Statement
      /\ Len(Tail(s)) = Len(s) - 1 /\ \A i \in 1..Len(s) - 1 : Tail(s)[i] = s[i + 1]
  BY EmptySeq, HeadTailProperties
<1>2. /\ s[1] = Do("mark", "seen") => Agrees(m)'
      /\ s[1] # Do("set", "seen") /\ "seen" \notin flags[m] => "seen" \notin flags'[m]
      /\ s[1] \in {Do("clear", "seen"), Do("wipe", "seen")} => "seen" \notin flags'[m]
      /\ s[1] # Do("set", "seen") /\ s[1] # Do("unmark", "seen") /\ Agrees(m) => Agrees(m)'
  BY <1>1, CarryOutSeen
<1>3. CASE s[Len(s)] = Do("mark", "seen")
  BY <1>1, <1>2, <1>3 DEF Settles
<1>4. CASE s[Len(s)] # Do("mark", "seen")
  <2>1. s[1] # Do("set", "seen") /\ \A i \in 1..Len(Tail(s)) : Tail(s)[i] # Do("set", "seen")
    BY <1>1, <1>4 DEF Settles
  <2>2. CASE "seen" \notin flags'[m]
    BY <2>1, <2>2 DEF Settles, Agrees
  <2>3. CASE "seen" \in flags'[m]
    <3>1. Agrees(m) /\ \A i \in 1..Len(s) : s[i] # Do("unmark", "seen")
      BY <1>2, <1>4, <2>1, <2>3 DEF Settles
    <3>2. Agrees(m)' /\ \A i \in 1..Len(Tail(s)) : Tail(s)[i] # Do("unmark", "seen")
      BY <1>1, <1>2, <2>1, <3>1
    <3> QED BY <2>1, <3>2 DEF Settles
  <2> QED BY <2>2, <2>3
<1> QED BY <1>3, <1>4

(* A STORE begins.                                                         *)
Begins(a) ==
  /\ pc[a] # "stmt" /\ pc'[a] = "stmt" /\ todo'[a] = todo[a]
  /\ cmd[a].kind \in Setting /\ cmd[a].flag \in Flag
  /\ stmts'[a] = Changes(cmd[a].kind, cmd[a].flag)
  /\ torn' = IF Changing(First(a)) THEN torn \cup {First(a)} ELSE torn

(* No STORE moves, except those of messages that are torn.                 *)
LEMMA SeenKept ==
  ASSUME SeenInv, torn \subseteq torn', touched \subseteq touched',
         \A v \in Actor : pc[v] = "stmt" => First(v) \in Message,
         \A v \in Actor : pc'[v] = "stmt" =>
           /\ pc[v] = "stmt" /\ todo'[v] = todo[v]
           /\ stmts'[v] = stmts[v] \/ First(v) \in torn',
         \A v \in Actor : pc[v] = "stmt" => pc'[v] = "stmt" \/ First(v) \in torn',
         \A m \in Message : ~Excused(m)' =>
           \/ flags'[m] = flags[m] /\ columns'[m] = columns[m]
           \/ "seen" \notin flags'[m]
           \/ Agrees(m)' /\ ~Changing(m)
  PROVE  SeenInv'
<1>0. \A v \in Actor : pc'[v] = "stmt" => First(v)' = First(v)
  BY DEF First
<1>1. LonesAlone'
  BY <1>0 DEF SeenInv, LonesAlone
<1>2. StoresSettle'
  <2> SUFFICES ASSUME NEW v \in Actor, pc'[v] = "stmt", First(v)' \notin touched' \cup torn'
               PROVE  Settles(stmts[v], First(v))'
    BY DEF StoresSettle, Excused
  <2>1. pc[v] = "stmt" /\ stmts'[v] = stmts[v] /\ First(v)' = First(v) /\ ~Excused(First(v))
    BY <1>0 DEF Excused
  <2>2. Settles(stmts[v], First(v)) /\ Changing(First(v)) /\ First(v) \in Message
    BY <2>1 DEF SeenInv, StoresSettle, Changing
  <2>3. \/ flags'[First(v)] = flags[First(v)] /\ columns'[First(v)] = columns[First(v)]
        \/ "seen" \notin flags'[First(v)]
    BY <2>1, <2>2 DEF Excused
  <2> QED BY <2>1, <2>2, <2>3 DEF Settles, Agrees
<1>3. SeenAgrees'
  <2> SUFFICES ASSUME NEW m \in Message, ~Excused(m)', ~Changing(m)'
               PROVE  Agrees(m)'
    BY DEF SeenAgrees, Agrees, Excused
  <2>1. ~Excused(m)
    BY DEF Excused
  <2>2. ~Changing(m)
    <3> SUFFICES ASSUME NEW v \in Actor, pc[v] = "stmt", First(v) = m
                 PROVE  FALSE
      BY DEF Changing
    <3>1. pc'[v] = "stmt" /\ First(v)' = m
      BY <1>0 DEF Excused
    <3> QED BY <3>1 DEF Changing
  <2>3. Agrees(m)
    BY <2>1, <2>2 DEF SeenInv, SeenAgrees, Agrees, Excused
  <2> QED BY <2>3 DEF Agrees
<1> QED BY <1>1, <1>2, <1>3 DEF SeenInv

LEMMA SeenBegins ==
  ASSUME SeenInv, NEW a \in Actor, First(a) \in Message, Begins(a),
         UNCHANGED <<flags, columns, touched>>,
         \A v \in Actor \ {a} : Fixed(v)
  PROVE  SeenInv'
<1>1. \A v \in Actor : First(v)' = First(v)
  BY DEF First, Begins, Fixed
<1>2. /\ torn \subseteq torn' /\ pc[a] # "stmt" /\ pc'[a] = "stmt"
      /\ \A v \in Actor \ {a} : pc'[v] = pc[v] /\ stmts'[v] = stmts[v]
      /\ \A b \in Actor : pc[b] = "stmt" /\ First(b) = First(a) => First(a) \in torn'
  BY DEF Begins, Fixed, Changing
<1>3. LonesAlone'
  BY <1>1, <1>2 DEF SeenInv, LonesAlone
<1>4. ~Excused(First(a))' => Settles(stmts[a], First(a))'
  <2> SUFFICES ASSUME First(a) \notin touched' \cup torn'
               PROVE  Settles(stmts[a], First(a))'
    BY <1>1 DEF Excused
  <2>1. ~Changing(First(a)) /\ ~Excused(First(a))
    BY <1>2 DEF Begins, Excused
  <2>2. Agrees(First(a))
    BY <2>1 DEF SeenInv, SeenAgrees, Excused, Agrees
  <2>3. Settles(stmts'[a], First(a))
    BY <2>2, ChangesSettle DEF Begins
  <2> QED BY <1>1, <2>3 DEF Settles, Agrees
<1>5. StoresSettle'
  <2> SUFFICES ASSUME NEW v \in Actor \ {a}, pc'[v] = "stmt", First(v)' \notin touched' \cup torn'
               PROVE  Settles(stmts[v], First(v))'
    BY <1>4 DEF StoresSettle, Excused
  <2>1. Settles(stmts[v], First(v))
    BY <1>1, <1>2 DEF SeenInv, StoresSettle, Excused
  <2> QED BY <1>1, <1>2, <2>1 DEF Settles, Agrees
<1>6. SeenAgrees'
  <2> SUFFICES ASSUME NEW m \in Message, ~Excused(m)', ~Changing(m)'
               PROVE  Agrees(m)'
    BY DEF SeenAgrees, Agrees, Excused
  <2>1. ~Excused(m) /\ ~Changing(m)
    BY <1>1, <1>2 DEF Excused, Changing
  <2> QED BY <2>1 DEF SeenInv, SeenAgrees, Agrees, Excused
<1> QED BY <1>3, <1>5, <1>6 DEF SeenInv

(* A STORE runs its next statement, and ends with the last one, or because *)
(* the message is gone.                                                    *)
LEMMA SeenMoves ==
  ASSUME SeenInv, TablesOK, TablesOK', rows' = rows, UNCHANGED <<touched, torn>>,
         NEW a \in Actor, pc[a] = "stmt", NEW d \in Message, First(a) = d,
         NEW s \in Seq(Statement), stmts[a] = s, s # <<>>, CarryOut(Head(s), d),
         \A v \in Actor : pc[v] = "stmt" => First(v) \in Message,
         \A v \in Actor \ {a} : Fixed(v),
         \/ /\ Len(s) # 1 /\ pc'[a] = "stmt" /\ todo'[a] = todo[a]
            /\ stmts'[a] = Tail(s)
         \/ pc'[a] # "stmt" /\ (Len(s) = 1 \/ d \notin rows)
  PROVE  SeenInv'
<1>1. \A v \in Actor : pc'[v] = "stmt" => pc[v] = "stmt" /\ First(v)' = First(v)
  BY DEF Fixed, First
<1>2. \A n \in Message \ {d} : flags'[n] = flags[n] /\ columns'[n] = columns[n]
  BY CarryOutSeen, HeadTailProperties
<1>3. ASSUME ~Excused(d)
      PROVE  /\ Len(s) = 1 => Agrees(d)'
             /\ Len(s) # 1 => Settles(Tail(s), d)'
  <2>1. Settles(s, d)
    BY <1>3 DEF SeenInv, StoresSettle
  <2> QED BY <2>1, StatementSettles
<1>4. LonesAlone'
  BY <1>1 DEF SeenInv, LonesAlone
<1>5. StoresSettle'
  <2> SUFFICES ASSUME NEW v \in Actor, pc'[v] = "stmt", First(v)' \notin touched' \cup torn'
               PROVE  Settles(stmts[v], First(v))'
    BY DEF StoresSettle, Excused
  <2>1. pc[v] = "stmt" /\ First(v)' = First(v) /\ ~Excused(First(v))
    BY <1>1 DEF Excused
  <2>2. CASE v = a
    <3>1. stmts'[a] = Tail(s) /\ First(a)' = d /\ Len(s) # 1
      BY <2>1, <2>2
    <3>2. Settles(Tail(s), d)'
      BY <1>3, <2>1, <2>2, <3>1
    <3> QED BY <2>2, <3>1, <3>2 DEF Settles, Agrees
  <2>3. CASE v # a
    <3>1. First(v) # d /\ First(v) \in Message /\ stmts'[v] = stmts[v]
      BY <2>1, <2>3 DEF SeenInv, LonesAlone, Excused, Fixed
    <3>2. Settles(stmts[v], First(v))
      BY <2>1 DEF SeenInv, StoresSettle
    <3> QED BY <1>2, <2>1, <3>1, <3>2 DEF Settles, Agrees
  <2> QED BY <2>2, <2>3
<1>6. SeenAgrees'
  <2> SUFFICES ASSUME NEW m \in Message, ~Excused(m)', ~Changing(m)'
               PROVE  Agrees(m)'
    BY DEF SeenAgrees, Agrees, Excused
  <2>1. ~Excused(m)
    BY DEF Excused
  <2>2. CASE m = d
    <3>1. pc'[a] # "stmt"
      BY <1>1, <2>2 DEF Changing
    <3>2. CASE Len(s) = 1
      BY <1>3, <2>1, <2>2, <3>2 DEF Agrees
    <3>3. CASE d \notin rows
      BY <2>2, <3>3 DEF Agrees, TablesOK
    <3> QED BY <3>1, <3>2, <3>3
  <2>3. CASE m # d
    <3>1. ~Changing(m)
      <4> SUFFICES ASSUME NEW v \in Actor, pc[v] = "stmt", First(v) = m
                   PROVE  FALSE
        BY DEF Changing
      <4>1. v # a /\ pc'[v] = "stmt" /\ First(v)' = m
        BY <2>3 DEF Fixed, First
      <4> QED BY <4>1 DEF Changing
    <3> QED BY <1>2, <2>1, <2>3, <3>1 DEF SeenInv, SeenAgrees, Agrees, Excused
  <2> QED BY <2>2, <2>3
<1> QED BY <1>4, <1>5, <1>6 DEF SeenInv

(* A command that has a number for its message begins a STORE, or goes on  *)
(* to something else.                                                      *)
LEMMA SeenNumbered ==
  ASSUME TypeInv, SeenInv, NEW a \in Actor, pc[a] \in {"look", "insert"}, NEW n, Numbered(a, n),
         UNCHANGED <<flags, columns, touched, created>>
  PROVE  SeenInv'
<1>1. TablesOK /\ HandsOK /\ \A v \in Actor : PlaceOK(v) /\ KindOK(v)
  BY TypeParts DEF TypeInv
<1>2. \A v \in Actor \ {a} : Fixed(v)
  BY <1>1, NumberedMoves DEF Moved
<1>3. /\ cmd[a] \in Command /\ cmd[a].kind # "expunge" /\ todo[a] # {}
      /\ First(a) \in Message
  <2>1. cmd[a] \in Command /\ cmd[a].kind # "expunge" /\ todo[a] # {}
    BY <1>1 DEF PlaceOK, KindOK, HandsOK
  <2> QED BY <1>1, <2>1, FirstIn
<1>4. \A v \in Actor : pc[v] = "stmt" => First(v) \in Message
  BY <1>1, FirstIn DEF PlaceOK
<1>5. ASSUME pc'[a] # "stmt", torn' = torn
      PROVE  SeenInv'
  BY <1>2, <1>4, <1>5, SeenKept DEF Fixed
<1>6. CASE cmd[a].kind \in {"fetch", "deliver"} \/ cmd[a].aim.uid # n
  <2>1. Advance(a, "look") /\ torn' = torn
    BY <1>6 DEF Numbered
  <2>2. pc'[a] # "stmt"
    BY <1>1, <1>3, <2>1, AdvanceMoves DEF Heads
  <2> QED BY <1>5, <2>1, <2>2
<1>7. CASE ~(cmd[a].kind \in {"fetch", "deliver"} \/ cmd[a].aim.uid # n)
  <2>1. cmd[a].kind \in {"copy"} \cup Setting
    BY <1>3, <1>7, CommandFields
  <2>2. CASE cmd[a].kind = "copy"
    BY <1>1, <1>5, <1>7, <2>2 DEF Numbered, GoTo, HandsOK
  <2>3. CASE cmd[a].kind # "copy"
    <3>1. cmd[a].kind \in Setting /\ cmd[a].flag \in Flag
      BY <1>3, <2>1, <2>3, CommandFields
    <3>2. /\ todo' = todo /\ pc' = [pc EXCEPT ![a] = "stmt"]
          /\ stmts' = [stmts EXCEPT ![a] = Changes(cmd[a].kind, cmd[a].flag)]
          /\ torn' = IF Changing(First(a)) THEN torn \cup {First(a)} ELSE torn
      BY <1>7, <2>3 DEF Numbered, GoTo
    <3>3. Begins(a)
      BY <1>1, <3>1, <3>2 DEF Begins, HandsOK
    <3> QED BY <1>2, <1>3, <3>3, SeenBegins
  <2> QED BY <2>2, <2>3
<1> QED BY <1>6, <1>7

LEMMA SeenStatement ==
  ASSUME TypeInv, SeenInv, NEW a \in Actor, Stmt(a) \/ StmtFails(a), TablesOK'
  PROVE  SeenInv'
<1>1. TablesOK /\ HandsOK /\ \A v \in Actor : PlaceOK(v) /\ KindOK(v)
  BY TypeParts DEF TypeInv
<1>2. (\A v \in Actor \ {a} : Fixed(v)) /\ created' = created /\ rows' = rows /\ pc[a] = "stmt"
  BY StepMoves DEF Step, Moved, Stmt, StmtFails
<1>3. stmts[a] \in Seq(Statement) /\ stmts[a] # <<>> /\ todo[a] # {}
  BY <1>1, <1>2 DEF PlaceOK, HandsOK
<1>4. \A v \in Actor : pc[v] = "stmt" => First(v) \in Message
  BY <1>1, FirstIn DEF PlaceOK
<1>5. PICK d \in Message : d = First(a)
  BY <1>2, <1>4
<1>6. PICK s \in Seq(Statement) : s = stmts[a]
  BY <1>3
<1>7. End(a) => pc'[a] # "stmt"
  BY <1>1 DEF End, GoTo, HandsOK
<1>8. Continue(a) =>
        \/ /\ Len(s) # 1 /\ pc'[a] = "stmt" /\ todo'[a] = todo[a] /\ stmts'[a] = Tail(s)
        \/ pc'[a] # "stmt" /\ Len(s) = 1
  <2>1. CASE Len(s) = 1
    <3>1. Continue(a) => Advance(a, "look")
      BY <1>6, <2>1 DEF Continue
    <3>2. Advance(a, "look") => pc'[a] # "stmt"
      BY <1>1, <1>2, AdvanceMoves DEF Heads, KindOK, Setting
    <3> QED BY <2>1, <3>1, <3>2
  <2>2. CASE Len(s) # 1
    BY <1>1, <1>2, <1>6, <2>2 DEF Continue, HandsOK
  <2> QED BY <2>1, <2>2
<1>9. CASE Stmt(a)
  <2>1. /\ CarryOut(Head(s), d) /\ UNCHANGED <<touched, torn>>
        /\ (End(a) /\ d \notin rows) \/ Continue(a)
    BY <1>5, <1>6, <1>9 DEF Stmt
  <2>2. \/ /\ Len(s) # 1 /\ pc'[a] = "stmt" /\ todo'[a] = todo[a] /\ stmts'[a] = Tail(s)
        \/ pc'[a] # "stmt" /\ (Len(s) = 1 \/ d \notin rows)
    BY <1>7, <1>8, <2>1
  <2> QED BY <1>1, <1>2, <1>3, <1>4, <1>5, <1>6, <2>1, <2>2, SeenMoves
<1>10. CASE StmtFails(a)
  <2>1. /\ CarryOut(Head(s), d) \/ UNCHANGED <<flags, columns>>
        /\ touched' = touched /\ torn' = torn \cup {d}
        /\ End(a) \/ Continue(a)
    BY <1>5, <1>6, <1>10 DEF StmtFails
  <2>2. Head(s) \in Statement
    BY <1>3, <1>6, HeadTailProperties
  <2>3. \A m \in Message \ {d} : flags'[m] = flags[m] /\ columns'[m] = columns[m]
    BY <1>1, <2>1, <2>2, CarryOutSeen
  <2>4. pc'[a] = "stmt" => todo'[a] = todo[a]
    BY <1>7, <1>8, <2>1
  <2>5. d \in torn' /\ torn \subseteq torn' /\ \A m \in Message : ~Excused(m)' => m # d
    BY <2>1 DEF Excused
  <2> QED BY <1>2, <1>4, <1>5, <2>1, <2>3, <2>4, <2>5, SeenKept DEF Fixed
<1> QED BY <1>9, <1>10

LEMMA SeenStep ==
  ASSUME TypeInv, SeenInv, [Next]_vars, TablesOK'
  PROVE  SeenInv'
<1>1. TablesOK /\ HandsOK /\ \A v \in Actor : PlaceOK(v) /\ KindOK(v)
  BY TypeParts DEF TypeInv
<1>2. \A v \in Actor : pc[v] = "stmt" => First(v) \in Message /\ First(v) \in 1..created
  BY <1>1, FirstIn DEF PlaceOK
<1>3. ASSUME UNCHANGED <<pc, todo, stmts>>, torn \subseteq torn', touched \subseteq touched',
             \A m \in Message : ~Excused(m)' =>
               \/ flags'[m] = flags[m] /\ columns'[m] = columns[m]
               \/ "seen" \notin flags'[m]
               \/ Agrees(m)' /\ ~Changing(m)
      PROVE  SeenInv'
  BY <1>2, <1>3, SeenKept
<1>4. ASSUME NEW a \in Actor, \A v \in Actor \ {a} : Fixed(v), pc[a] # "stmt", pc'[a] # "stmt",
             UNCHANGED <<torn, touched, flags>>,
             \A m \in Message : columns'[m] = columns[m] \/ "seen" \notin flags[m]
      PROVE  SeenInv'
  BY <1>2, <1>4, SeenKept DEF Fixed
<1>5. ASSUME NEW a \in Actor, Step(a)
      PROVE  SeenInv'
  <2>0. \A v \in Actor \ {a} : Fixed(v)
    BY <1>5, StepMoves DEF Moved
  <2>1. CASE Look(a) \/ LookFails(a) \/ Insert(a) \/ InsertFails(a)
    <3>1. /\ pc[a] \in {"look", "insert"} /\ UNCHANGED <<flags, columns, touched, created>>
          /\ \/ \E n \in Nat \cup {r.uid : r \in uids} \cup {NextUid(cmd[a].box)} : Numbered(a, n)
             \/ pc' = [pc EXCEPT ![a] = "insert"] /\ torn' = torn
      BY <2>1 DEF Look, LookFails, Insert, InsertFails, Missing, GoTo, UidsOf, Derived, dbVars, counters
    <3>2. CASE pc' = [pc EXCEPT ![a] = "insert"] /\ torn' = torn
      <4>1. pc'[a] # "stmt"
        BY <1>1, <3>2 DEF HandsOK
      <4> QED BY <1>4, <2>0, <3>1, <3>2, <4>1
    <3> QED BY <3>1, <3>2, SeenNumbered
  <2>2. CASE Stmt(a) \/ StmtFails(a)
    BY <2>2, SeenStatement
  <2>3. CASE Apply(a) \/ ApplyFails(a) \/ ReadFlags(a) \/ ReadFlagsFails(a) \/ Remove(a)
             \/ RemoveFails(a) \/ List(a) \/ ListFails(a)
    <3>1. /\ pc[a] \in {"apply", "read", "remove", "list"}
          /\ UNCHANGED <<torn, touched, flags, columns>>
      BY <2>3 DEF Apply, ApplyFails, ReadFlags, ReadFlagsFails, Remove, RemoveFails, List, ListFails,
         dbVars, history
    <3>2. \/ \E l \in PC \ {"stmt"} : pc' = [pc EXCEPT ![a] = l]
          \/ \E l \in {"look", "read"} : Advance(a, l)
      BY <2>3 DEF Apply, ApplyFails, ReadFlags, ReadFlagsFails, Remove, RemoveFails, List, ListFails,
         End, GoTo, PC
    <3>3. ASSUME NEW l \in {"look", "read"}, Advance(a, l)
          PROVE  pc'[a] # "stmt"
      <4>1. \E k \in {"idle", "list", l} : pc' = [pc EXCEPT ![a] = k]
        BY <3>3 DEF Advance, End, GoTo
      <4> QED BY <1>1, <4>1 DEF HandsOK
    <3>4. pc'[a] # "stmt"
      BY <1>1, <3>2, <3>3 DEF HandsOK
    <3> QED BY <1>4, <2>0, <3>1, <3>4
  <2> QED BY <1>5, <2>1, <2>2, <2>3 DEF Step
<1>6. ASSUME NEW a \in Actor, Give(a)
      PROVE  SeenInv'
  <2>1. \A v \in Actor \ {a} : Fixed(v)
    BY <1>6, GiveMoves DEF Moved
  <2>2. UNCHANGED <<torn, touched, flags>>
    BY <1>6 DEF Give, Deliver, Fetch, Expunge, Store, Copy, dbVars, history
  <2>3. \A m \in Message : columns'[m] = columns[m] \/ "seen" \notin flags[m]
    <3>1. CASE \E b \in Box : Deliver(a, b)
      <4>1. columns' = [columns EXCEPT ![created + 1] = {}] /\ created + 1 \notin rows
        BY <1>1, <3>1 DEF Deliver, Create, TablesOK
      <4> QED BY <1>1, <4>1 DEF TablesOK
    <3>2. CASE ~ \E b \in Box : Deliver(a, b)
      BY <1>6, <3>2 DEF Give, Fetch, Expunge, Store, Copy, dbVars
    <3> QED BY <3>1, <3>2
  <2>4. pc[a] # "stmt" /\ pc'[a] # "stmt"
    <3>1. ASSUME NEW c, NEW ms, NEW l, l \in {"look", "read"}, Start(a, c, ms, l)
          PROVE  pc'[a] \in {"look", "read"}
      BY <1>1, <3>1 DEF Start, GoTo, HandsOK
    <3>2. ASSUME NEW c, NEW l, l \in {"look", "read"}, Ask(a, c, l)
          PROVE  pc[a] = "idle" /\ pc'[a] \in {"idle", "look", "read"}
      BY <3>1, <3>2 DEF Ask, goVars
    <3> QED BY <1>6, <3>1, <3>2 DEF Give, Deliver, Fetch, Expunge, Store, Copy
  <2> QED BY <1>4, <2>1, <2>2, <2>3, <2>4
<1>7. ASSUME NEW b \in Box, NEW seen \in SUBSET Column, AppendMessage(b, seen)
      PROVE  SeenInv'
  <2>1. /\ columns' = [columns EXCEPT ![created + 1] = seen] /\ flags' = flags
        /\ created + 1 \notin rows
    BY <1>1, <1>7 DEF AppendMessage, Create, TablesOK
  <2>2. \A m \in Message : columns'[m] = columns[m] \/ "seen" \notin flags'[m]
    BY <1>1, <2>1 DEF TablesOK
  <2> QED BY <1>3, <1>7, <2>1, <2>2 DEF AppendMessage, goVars, history
<1>8. CASE Webmail
  <2>1. PICK d \in Message : \/ MarkRead(d) \/ MarkUnread(d) \/ DeleteMessage(d)
                             \/ \E b \in Box : Relabel(d, b)
    BY <1>8 DEF Webmail
  <2>2. CASE MarkRead(d) \/ MarkUnread(d)
    <3>1. /\ UNCHANGED <<pc, todo, stmts, flags>> /\ touched \subseteq touched'
          /\ torn' = IF Changing(d) THEN torn \cup {d} ELSE torn
      BY <2>2 DEF MarkRead, MarkUnread, goVars, Tear
    <3>2. \A m \in Message \ {d} : columns'[m] = columns[m]
      BY <1>1, <2>2 DEF MarkRead, MarkUnread, TablesOK
    <3>3. \/ MarkRead(d) /\ "seen" \in columns'[d]
          \/ d \in touched'
      BY <1>1, <2>2 DEF MarkRead, MarkUnread, TablesOK
    <3>4. ~Excused(d)' => Agrees(d)' /\ ~Changing(d)
      BY <3>1, <3>3 DEF Excused, Agrees
    <3> QED BY <1>3, <3>1, <3>2, <3>4
  <2>3. CASE DeleteMessage(d)
    <3>1. \A m \in Message : \/ flags'[m] = flags[m] /\ columns'[m] = columns[m]
                             \/ "seen" \notin flags'[m]
      BY <1>1, <2>3 DEF DeleteMessage, TablesOK
    <3> QED BY <1>3, <2>3, <3>1 DEF DeleteMessage, goVars, history
  <2>4. CASE \E b \in Box : Relabel(d, b)
    BY <1>3, <2>4 DEF Relabel, goVars
  <2> QED BY <2>1, <2>2, <2>3, <2>4
<1>9. ASSUME NEW as \in SUBSET Actor, Crash(as)
      PROVE  SeenInv'
  <2>1. /\ UNCHANGED <<flags, columns, touched>> /\ torn \subseteq torn'
        /\ \A v \in Actor : v \in as /\ pc[v] = "stmt" => First(v) \in torn'
        /\ \A v \in Actor : v \in as => pc'[v] # "stmt"
        /\ \A v \in Actor : v \notin as => pc'[v] = pc[v] /\ todo'[v] = todo[v] /\ stmts'[v] = stmts[v]
    BY <1>9 DEF Crash, dbVars
  <2> QED BY <1>2, <2>1, SeenKept
<1>10. CASE UNCHANGED vars
  BY <1>3, <1>10 DEF vars, dbVars, goVars, history
<1> QED BY <1>5, <1>6, <1>7, <1>8, <1>9, <1>10 DEF Next

(* The row for \Seen and the is_read column of a message agree, except     *)
(* while a STORE is between its statements, or when the webmail API marked *)
(* the message as unread, or its flags were changed by two at once or by   *)
(* half a command.                                                         *)
THEOREM SeenStaysTold == Spec => []SeenAgrees
<1>1. MailboxInv => TypeInv
  BY DEF MailboxInv
<1>2. Init => SeenInv
  BY DEF Init, SeenInv, LonesAlone, StoresSettle, SeenAgrees
<1>3. TypeInv /\ SeenInv /\ [Next]_vars => SeenInv'
  BY TablesStep, SeenStep
<1>4. SeenInv => SeenAgrees
  BY DEF SeenInv
<1> QED BY <1>1, <1>2, <1>3, <1>4, MailboxInvariant, PTL DEF Spec

-----------------------------------------------------------------------------
(* What EXPUNGE leaves behind.                                             *)

Sweeping(a) == pc[a] \in {"read", "remove", "list"}

(* The message m is still to be removed by a.                              *)
Awaited(a, m) ==
  /\ m \in todo[a]
  /\ "deleted" \in flags[m] \/ (pc[a] = "remove" /\ m = First(a))

SweepInv ==
  \A a \in Actor :
    Sweeping(a) =>
      /\ cmd[a].marked \subseteq 1..created
      /\ \A m \in cmd[a].marked :
           cmd[a].box \in labeled[m] => m \in spared \/ Awaited(a, m)

(* While an EXPUNGE runs a message that gets a label is spared.            *)
LEMMA LabelsMove ==
  ASSUME TypeInv, [Next]_vars, Expunging, NEW m \in 1..created, NEW b, b \in labeled'[m]
  PROVE  b \in labeled[m] \/ m \in spared'
<1>1. TablesOK /\ HandsOK /\ \A v \in Actor : PlaceOK(v)
  BY TypeParts DEF TypeInv
<1>2. m \in Message /\ created \in Nat
  BY <1>1 DEF TablesOK, Message
<1>3. ASSUME NEW n \in Message, NEW c, AddLabel(n, c)
      PROVE  b \in labeled[m] \/ m \in spared'
  BY <1>1, <1>2, <1>3 DEF AddLabel, Spare, TablesOK
<1>4. ASSUME NEW n \in Message, NEW c, DropLabel(n, c)
      PROVE  b \in labeled[m]
  BY <1>1, <1>2, <1>4 DEF DropLabel, TablesOK
<1>5. ASSUME NEW c, NEW seen, Create(c, seen)
      PROVE  b \in labeled[m]
  <2>1. m # created + 1
    BY <1>2
  <2> QED BY <1>1, <1>2, <1>5, <2>1 DEF Create, TablesOK
<1>6. ASSUME NEW a \in Actor, Step(a)
      PROVE  b \in labeled[m] \/ m \in spared'
  <2>1. CASE Apply(a) \/ ApplyFails(a)
    <3>1. First(a) \in Message
      BY <1>1, <2>1, FirstIn DEF Apply, ApplyFails, PlaceOK
    <3> QED BY <1>3, <2>1, <3>1 DEF Apply, ApplyFails
  <2>2. CASE Remove(a) \/ RemoveFails(a)
    <3>1. First(a) \in Message
      BY <1>1, <2>2, FirstIn DEF Remove, RemoveFails, PlaceOK
    <3> QED BY <1>4, <2>2, <3>1 DEF Remove, RemoveFails
  <2>3. CASE \/ Look(a) \/ LookFails(a) \/ Insert(a) \/ InsertFails(a) \/ Stmt(a) \/ StmtFails(a)
             \/ ReadFlags(a) \/ ReadFlagsFails(a) \/ List(a) \/ ListFails(a)
    BY <2>3 DEF Look, LookFails, Insert, InsertFails, Stmt, StmtFails, ReadFlags, ReadFlagsFails,
                List, ListFails, dbVars
  <2> QED BY <1>6, <2>1, <2>2, <2>3 DEF Step
<1>7. ASSUME NEW a \in Actor, Give(a)
      PROVE  b \in labeled[m]
  BY <1>5, <1>7 DEF Give, Deliver, Fetch, Expunge, Store, Copy, dbVars
<1>8. ASSUME NEW c \in Box, NEW seen \in SUBSET Column, AppendMessage(c, seen)
      PROVE  b \in labeled[m]
  BY <1>5, <1>8 DEF AppendMessage
<1>9. CASE Webmail
  <2>1. PICK n \in Message : \/ MarkRead(n) \/ MarkUnread(n) \/ DeleteMessage(n)
                             \/ \E c \in Box : Relabel(n, c)
    BY <1>9 DEF Webmail
  <2>2. CASE MarkRead(n) \/ MarkUnread(n)
    BY <2>2 DEF MarkRead, MarkUnread
  <2>3. CASE DeleteMessage(n)
    BY <1>1, <1>2, <2>3 DEF DeleteMessage, TablesOK
  <2>4. ASSUME NEW c \in Box, Relabel(n, c)
        PROVE  b \in labeled[m] \/ m \in spared'
    BY <1>3, <1>4, <2>4 DEF Relabel
  <2> QED BY <2>1, <2>2, <2>3, <2>4
<1>10. ASSUME NEW as \in SUBSET Actor, Crash(as)
       PROVE  b \in labeled[m]
  BY <1>10 DEF Crash, dbVars
<1>11. CASE UNCHANGED vars
  BY <1>11 DEF vars, dbVars
<1> QED BY <1>6, <1>7, <1>8, <1>9, <1>10, <1>11 DEF Next

(* Where an EXPUNGE goes on, it keeps its command, and where it does not,  *)
(* it is over.                                                             *)
LEMMA SweepingStays ==
  ASSUME TypeInv, [Next]_vars, NEW v \in Actor, Sweeping(v)
  PROVE  pc'[v] = "idle" \/ (Sweeping(v)' /\ cmd'[v] = cmd[v])
<1>1. HandsOK /\ PlaceOK(v) /\ KindOK(v)
  BY TypeParts DEF TypeInv
<1>2. PlaceOK(v)' /\ KindOK(v)' /\ HandsOK'
  BY HandsStep
<1>3. cmd'[v] = cmd[v] \/ cmd'[v] = None
  <2>1. ASSUME NEW a \in Actor, Step(a)
        PROVE  cmd'[v] = cmd[v] \/ cmd'[v] = None
    BY <1>1, <2>1, StepKeepsCommand DEF HandsOK
  <2>2. ASSUME NEW a \in Actor, Give(a)
        PROVE  cmd'[v] = cmd[v]
    <3>1. CASE a = v
      BY <2>2, <3>1 DEF Give, Deliver, Fetch, Expunge, Store, Copy, Ask, Sweeping
    <3>2. CASE a # v
      BY <2>2, <3>2, GiveMoves DEF Moved, Fixed
    <3> QED BY <3>1, <3>2
  <2>3. CASE \/ \E b \in Box, seen \in SUBSET Column : AppendMessage(b, seen)
             \/ Webmail \/ UNCHANGED vars
    <3>1. UNCHANGED goVars
      BY <2>3 DEF AppendMessage, Webmail, MarkRead, MarkUnread, DeleteMessage, Relabel, vars
    <3> QED BY <3>1 DEF goVars
  <2>4. ASSUME NEW as \in SUBSET Actor, Crash(as)
        PROVE  cmd'[v] = cmd[v] \/ cmd'[v] = None
    BY <2>4 DEF Crash
  <2> QED BY <2>1, <2>2, <2>3, <2>4 DEF Next
<1>4. CASE cmd'[v] = None
  BY <1>2, <1>4 DEF PlaceOK
<1>5. CASE cmd'[v] = cmd[v] /\ cmd'[v] # None
  <2>1. cmd'[v].kind = "expunge" /\ pc'[v] \in PC \ {"idle"}
    BY <1>1, <1>2, <1>5 DEF KindOK, Sweeping, HandsOK, PlaceOK
  <2> QED BY <1>2, <1>5, <2>1 DEF KindOK, Sweeping, PC, Setting
<1> QED BY <1>3, <1>4, <1>5

(* A message leaves the list of an EXPUNGE only when it was removed, when  *)
(* it was read and found unmarked, or spared.                              *)
LEMMA SweepMoves ==
  ASSUME TypeInv, [Next]_vars, NEW v \in Actor, Sweeping(v)
  PROVE  \/ cmd[v].marked \subseteq spared'
         \/ todo[v] = {}
         \/ todo'[v] = todo[v] /\ pc'[v] \in {pc[v], "remove"}
         \/ /\ todo[v] \ {First(v)} \subseteq todo'[v] /\ flags' = flags
            /\ \/ cmd[v].box \notin labeled'[First(v)]
               \/ First(v) \in spared'
               \/ pc[v] = "read" /\ "deleted" \notin flags[First(v)]
<1>1. TablesOK /\ HandsOK /\ PlaceOK(v) /\ KindOK(v) /\ Expunging
  BY TypeParts DEF TypeInv, Sweeping, Expunging, PlaceOK, KindOK
<1>2. ASSUME NEW l, Advance(v, l)
      PROVE  todo'[v] = todo[v] \ {First(v)}
  BY <1>1, <1>2 DEF Advance, End, HandsOK
<1>3. ASSUME NEW ms, Spare(ms)
      PROVE  ms \subseteq spared'
  BY <1>1, <1>3 DEF Spare
<1>4. CASE Step(v)
  <2>1. CASE ReadFlags(v)
    <3>1. CASE "deleted" \in flags[First(v)]
      BY <1>1, <2>1, <3>1 DEF ReadFlags, GoTo, HandsOK
    <3>2. CASE "deleted" \notin flags[First(v)]
      BY <1>2, <2>1, <3>2 DEF ReadFlags, dbVars
    <3> QED BY <3>1, <3>2
  <2>2. CASE ReadFlagsFails(v)
    BY <1>2, <1>3, <2>2 DEF ReadFlagsFails, dbVars
  <2>3. CASE Remove(v)
    <3>1. First(v) \in Message
      BY <1>1, <2>3, FirstIn DEF Remove, PlaceOK
    <3>2. cmd[v].box \notin labeled'[First(v)]
      BY <1>1, <2>3, <3>1 DEF Remove, DropLabel, TablesOK
    <3> QED BY <1>2, <2>3, <3>2 DEF Remove
  <2>4. CASE RemoveFails(v)
    BY <1>3, <2>4 DEF RemoveFails
  <2>5. CASE List(v) \/ ListFails(v)
    BY <1>1, <2>5 DEF List, ListFails, PlaceOK
  <2>6. CASE \/ Look(v) \/ LookFails(v) \/ Insert(v) \/ InsertFails(v) \/ Stmt(v) \/ StmtFails(v)
             \/ Apply(v) \/ ApplyFails(v)
    BY <2>6 DEF Look, LookFails, Insert, InsertFails, Stmt, StmtFails, Apply, ApplyFails, Sweeping
  <2> QED BY <1>4, <2>1, <2>2, <2>3, <2>4, <2>5, <2>6 DEF Step
<1>5. ASSUME NEW a \in Actor, Step(a) \/ Give(a), a # v
      PROVE  todo'[v] = todo[v] /\ pc'[v] = pc[v]
  BY <1>5, StepMoves, GiveMoves DEF Moved, Fixed
<1>6. CASE Give(v)
  BY <1>6 DEF Give, Deliver, Fetch, Expunge, Store, Copy, Ask, Sweeping
<1>7. CASE \/ \E b \in Box, seen \in SUBSET Column : AppendMessage(b, seen)
           \/ Webmail \/ UNCHANGED vars
  <2>1. UNCHANGED goVars
    BY <1>7 DEF AppendMessage, Webmail, MarkRead, MarkUnread, DeleteMessage, Relabel, vars
  <2> QED BY <2>1 DEF goVars
<1>8. ASSUME NEW as \in SUBSET Actor, Crash(as)
      PROVE  \/ cmd[v].marked \subseteq spared'
             \/ todo'[v] = todo[v] /\ pc'[v] = pc[v]
  <2>1. CASE v \in as
    <3> DEFINE sweeps == {b \in as : cmd[b] # None /\ cmd[b].kind = "expunge"}
               all == UNION {cmd[b].marked : b \in sweeps}
    <3>1. v \in sweeps
      BY <1>1, <2>1 DEF PlaceOK, KindOK, Sweeping
    <3>2. Spare(all)
      BY <1>8 DEF Crash
    <3> HIDE DEF sweeps
    <3>3. cmd[v].marked \subseteq all
      BY <3>1
    <3> HIDE DEF all
    <3> QED BY <1>3, <3>2, <3>3
  <2>2. CASE v \notin as
    BY <1>8, <2>2 DEF Crash
  <2> QED BY <2>1, <2>2
<1> QED BY <1>4, <1>5, <1>6, <1>7, <1>8 DEF Next

(* A new EXPUNGE awaits what it found marked on its first page.            *)
LEMMA SweepBegins ==
  ASSUME TypeInv, [Next]_vars, NEW v \in Actor, ~Sweeping(v), Sweeping(v)'
  PROVE  /\ cmd'[v].marked \subseteq 1..created'
         /\ \A m \in cmd'[v].marked : Awaited(v, m)'
<1>1. /\ TablesOK /\ HandsOK
      /\ \A a \in Actor : PlaceOK(a) /\ KindOK(a) /\ PlaceOK(a)' /\ KindOK(a)'
  BY TypeParts, HandsStep DEF TypeInv
<1>2. cmd'[v] # None /\ cmd'[v].kind = "expunge" /\ pc'[v] # "idle"
  BY <1>1 DEF PlaceOK, KindOK, Sweeping
<1>3. cmd'[v] # cmd[v]
  <2>1. CASE cmd[v] = None
    BY <1>2, <2>1
  <2>2. CASE cmd[v] # None
    BY <1>1, <1>2, <2>2 DEF PlaceOK, KindOK, HandsOK, PC, Sweeping, Setting
  <2> QED BY <2>1, <2>2
<1>4. ASSUME NEW a \in Actor, Step(a)
      PROVE  FALSE
  BY <1>1, <1>2, <1>3, <1>4, StepKeepsCommand DEF HandsOK
<1>5. CASE \/ \E b \in Box, seen \in SUBSET Column : AppendMessage(b, seen)
           \/ Webmail \/ UNCHANGED vars
  <2>1. UNCHANGED goVars
    BY <1>5 DEF AppendMessage, Webmail, MarkRead, MarkUnread, DeleteMessage, Relabel, vars
  <2> QED BY <1>3, <2>1 DEF goVars
<1>6. ASSUME NEW as \in SUBSET Actor, Crash(as)
      PROVE  FALSE
  BY <1>2, <1>3, <1>6 DEF Crash
<1>7. ASSUME NEW a \in Actor, Give(a), a # v
      PROVE  FALSE
  BY <1>3, <1>7, GiveMoves DEF Moved, Fixed
<1>8. CASE Give(v)
  <2>1. ASSUME NEW c, NEW ms, NEW l, Start(v, c, ms, l)
        PROVE  cmd'[v] = c /\ todo'[v] = ms
    BY <1>1, <2>1 DEF Start, HandsOK
  <2>2. ASSUME NEW c, NEW l, Ask(v, c, l)
        PROVE  cmd'[v] = c /\ todo'[v] = Page(c.box, 0)
    BY <1>3, <2>1, <2>2 DEF Ask, goVars
  <2>3. PICK b \in Box : Expunge(v, b)
    <3>1. ASSUME NEW b \in Box, Deliver(v, b)
          PROVE  FALSE
      BY <1>2, <2>1, <3>1 DEF Deliver
    <3>2. ASSUME NEW b \in Box, Fetch(v, b)
          PROVE  FALSE
      BY <1>2, <2>2, <3>2 DEF Fetch
    <3>3. ASSUME NEW r \in shown, NEW op \in {"add", "remove", "replace"}, NEW f \in Flag,
                 Store(v, r, op, f)
          PROVE  FALSE
      BY <1>2, <2>2, <3>3 DEF Store
    <3>4. ASSUME NEW r \in shown, NEW d \in Box, Copy(v, r, d)
          PROVE  FALSE
      BY <1>2, <2>2, <3>4 DEF Copy
    <3> QED BY <1>8, <3>1, <3>2, <3>3, <3>4 DEF Give
  <2> DEFINE ms == {m \in Page(b, 0) : "deleted" \in flags[m]}
             c == [kind |-> "expunge", box |-> b, marked |-> ms]
  <2>4. Ask(v, c, "read") /\ flags' = flags /\ created' = created
    BY <2>3 DEF Expunge, dbVars
  <2>5. c.marked = ms /\ c.box = b
    OBVIOUS
  <2>6. ms \subseteq Page(b, 0) /\ Page(b, 0) \subseteq 1..created
    BY <1>1, PageOK
  <2>7. \A m \in ms : "deleted" \in flags[m]
    OBVIOUS
  <2> HIDE DEF ms, c
  <2>8. cmd'[v] = c /\ todo'[v] = Page(b, 0)
    BY <2>2, <2>4, <2>5
  <2> QED BY <2>4, <2>5, <2>6, <2>7, <2>8 DEF Awaited
<1> QED BY <1>4, <1>5, <1>6, <1>7, <1>8 DEF Next

(* While it goes on an EXPUNGE has removed, spared or still awaits what it *)
(* found marked.                                                           *)
LEMMA SweepGoesOn ==
  ASSUME TypeInv, SweepInv, [Next]_vars, NEW v \in Actor, Sweeping(v),
         NEW m \in cmd[v].marked, cmd[v].box \in labeled'[m]
  PROVE  m \in spared' \/ Awaited(v, m)'
<1>1. TablesOK /\ HandsOK /\ PlaceOK(v) /\ KindOK(v) /\ Expunging
  BY TypeParts DEF TypeInv, Sweeping, Expunging, PlaceOK, KindOK
<1>2. m \in 1..created /\ m \in Message
  BY <1>1 DEF SweepInv, TablesOK, Message
<1>3. m \in rows'
  BY <1>2, TablesStep DEF TablesOK
<1>4. /\ spared \subseteq spared'
      /\ "deleted" \in flags[m] => "deleted" \in flags'[m] \/ m \in spared'
  BY <1>1, <1>2, <1>3, MarksMove
<1>5. m \in spared' \/ (cmd[v].box \in labeled[m] /\ (m \in spared \/ Awaited(v, m)))
  BY <1>1, <1>2, LabelsMove DEF SweepInv
<1>6. SUFFICES ASSUME Awaited(v, m), m \notin spared'
               PROVE  Awaited(v, m)'
  BY <1>4, <1>5
<1>7. m \in todo[v] /\ ("deleted" \in flags'[m] \/ (pc[v] = "remove" /\ m = First(v)))
  BY <1>4, <1>6 DEF Awaited
<1>8. CASE todo'[v] = todo[v] /\ pc'[v] \in {pc[v], "remove"}
  <2>1. First(v)' = First(v)
    BY <1>8 DEF First
  <2> QED BY <1>7, <1>8, <2>1 DEF Awaited
<1>9. CASE /\ todo[v] \ {First(v)} \subseteq todo'[v] /\ flags' = flags
           /\ \/ cmd[v].box \notin labeled'[First(v)]
              \/ First(v) \in spared'
              \/ pc[v] = "read" /\ "deleted" \notin flags[First(v)]
  BY <1>6, <1>7, <1>9 DEF Awaited
<1> QED BY <1>6, <1>7, <1>8, <1>9, SweepMoves

LEMMA CreatedGrows ==
  ASSUME TypeInv, [Next]_vars
  PROVE  created' \in {created, created + 1}
<1>1. ASSUME NEW a \in Actor, Step(a)
      PROVE  created' = created
  BY <1>1, StepMoves
<1>2. ASSUME NEW a \in Actor, Give(a)
      PROVE  created' \in {created, created + 1}
  BY <1>2 DEF Give, Deliver, Create, Fetch, Expunge, Store, Copy
<1>3. CASE \E b \in Box, seen \in SUBSET Column : AppendMessage(b, seen)
  BY <1>3 DEF AppendMessage, Create
<1>4. CASE Webmail \/ (\E as \in SUBSET Actor : Crash(as)) \/ UNCHANGED vars
  BY <1>4 DEF Webmail, MarkRead, MarkUnread, DeleteMessage, Relabel, Crash, vars, counters
<1> QED BY <1>1, <1>2, <1>3, <1>4 DEF Next

LEMMA SweepStep ==
  ASSUME TypeInv, SweepInv, [Next]_vars
  PROVE  SweepInv'
<1>1. created' \in Nat /\ created \in Nat /\ created <= created'
  BY TypeParts, CreatedGrows DEF TypeInv, TablesOK
<1>2. SUFFICES ASSUME NEW v \in Actor, Sweeping(v)'
               PROVE  /\ cmd'[v].marked \subseteq 1..created'
                      /\ \A m \in cmd'[v].marked :
                           cmd'[v].box \in labeled'[m] => m \in spared' \/ Awaited(v, m)'
  BY DEF SweepInv
<1>3. CASE Sweeping(v)
  <2>1. cmd'[v] = cmd[v]
    BY <1>2, <1>3, SweepingStays DEF Sweeping
  <2>2. cmd[v].marked \subseteq 1..created
    BY <1>3 DEF SweepInv
  <2> QED BY <1>1, <1>3, <2>1, <2>2, SweepGoesOn
<1>4. CASE ~Sweeping(v)
  BY <1>2, <1>4, SweepBegins
<1> QED BY <1>3, <1>4

LEMMA SweepEnds ==
  ASSUME TypeInv, SweepInv, [Next]_vars, NEW v \in Actor, Sweeping(v), pc'[v] = "idle",
         NEW m \in cmd[v].marked, cmd[v].box \in labeled'[m]
  PROVE  m \in spared'
<1>1. todo'[v] = {}
  BY HandsStep DEF PlaceOK
<1> QED BY <1>1, SweepGoesOn DEF Awaited

(* An EXPUNGE that comes to its end has taken from the mailbox every       *)
(* message of its first page that it found marked \Deleted, except those   *)
(* that were unmarked or labelled again as it ran, that it could not read  *)
(* or that it did not reach before it failed.                              *)
THEOREM ExpungeDoesItsWork == Spec => ExpungeComplete
<1>1. MailboxInv => TypeInv
  BY DEF MailboxInv
<1>2. Init => SweepInv
  BY DEF Init, SweepInv, Sweeping
<1>3. TypeInv /\ SweepInv /\ [Next]_vars => SweepInv'
  BY SweepStep
<1>4. TypeInv /\ SweepInv /\ [Next]_vars =>
        [\A a \in Actor :
           pc[a] \in {"read", "remove", "list"} /\ pc'[a] = "idle"
             => \A m \in cmd[a].marked :
                  cmd[a].box \in labeled'[m] => m \in spared']_vars
  BY SweepEnds DEF Sweeping
<1> QED BY <1>1, <1>2, <1>3, <1>4, MailboxInvariant, PTL DEF Spec, ExpungeComplete
=============================================================================
