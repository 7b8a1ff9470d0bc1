--------------------------- MODULE TaskSync_proofs ---------------------------
(***************************************************************************)
(* Proofs about TaskSync, for a list of either kind and any bounds on rows,*)
(* places, edits, other clients' writes and faults: the types; a clean row *)
(* says what the version it names says; on a CalDAV server nothing of      *)
(* another client's is replaced unseen; nothing made here is lost; and no  *)
(* task gets a second object or a second row.                              *)
(*                                                                         *)
(* All rest on IInv, what the rows, the queue, the listing and the choice  *)
(* being settled have to do with the server's versions. The last three     *)
(* add a layer each: Sight (who wrote in sight of what), Accounted (why a  *)
(* change stopped waiting) and Copies (what anybody has in hand of the     *)
(* same task is in one place).                                             *)
(***************************************************************************)
EXTENDS TaskSync, FiniteSetTheorems, WellFoundedInduction, TLAPS


(* The rows and the server.                                                *)

\* What the server keeps was made: places up to names, texts up to texts.
ServerFits ==
  /\ \A p \in Names : Len(history[p]) # 0 => p <= names
  /\ \A p \in Names : \A k \in 1 .. Len(history[p]) : history[p][k] <= texts
  /\ byOther \subseteq 1 .. texts

\* A row, or a copy of one: it says a text that was written, and the version it
\* names is one its object had, and not a deletion.
RowFits(r) ==
  /\ r.text <= texts /\ r.href <= names /\ r.marker <= names
  /\ r.href = 0 => r.etag = 0
  /\ r.etag # 0 => r.etag <= Len(history[r.href]) /\ history[r.href][r.etag] # 0

\* What a row has besides: a marker only before its place, a conflict only with
\* a change and a place, and on Exchange a version with its place.
RowKept(r) ==
  /\ r.marker # 0 => kind = "ews" /\ r.href = 0
  /\ r.conflict \in Unsettled => r.pending # "none" /\ r.href # 0
  /\ kind = "ews" /\ r.href # 0 => r.etag # 0

\* Every row is such a row.
TaskFits == \A i \in DOMAIN task : RowFits(task[i]) /\ RowKept(task[i])

\* The one moment the queue's copy is ahead of the row: created, not yet read back.
AtReadBack(k) == sync.pc = "readback" /\ k = HeadId

\* A copy in the queue waits to be sent; only at the read back has it a place
\* and still its marker, or a place without a version.
QueueFits ==
  \A k \in Queued :
    /\ RowFits(sync.queue[k]) /\ sync.queue[k].pending # "none"
    /\ sync.queue[k].marker # 0 => kind = "ews"
    /\ sync.queue[k].marker # 0 /\ sync.queue[k].href # 0 => AtReadBack(k)
    /\ kind = "ews" /\ sync.queue[k].href # 0 /\ sync.queue[k].etag = 0 => AtReadBack(k)

\* The queue's copy and the row it was read from.
QueueRows ==
  \A k \in Queued : k \in DOMAIN task =>
    /\ task[k].pending # "none" /\ sync.queue[k].seq <= task[k].seq
    /\ sync.queue[k].seq = task[k].seq => sync.queue[k].text = task[k].text \/ task[k].text \in cut
    /\ sync.queue[k].pending = "delete" => task[k].pending = "delete"
    /\ sync.queue[k].marker = task[k].marker
    /\ sync.queue[k].href = task[k].href \/ (AtReadBack(k) /\ task[k].href = 0)

\* While something is being sent, nothing waits for the person.
Unblocked == Queued # {} => \A i \in DOMAIN task : task[i].conflict \notin Unsettled

\* What each step of a sync has in hand.
Phase ==
  /\ sync.pc \in {"idle", "list", "missing", "reconcile"} => Queued = {}
  /\ sync.pc \in {"route", "check", "send", "answer", "readback"} => Queued # {}
  /\ sync.pc \in {"route", "check", "readback", "missing"} => kind = "ews"
  /\ sync.pc \notin {"missing", "reconcile"} => sync.listing = NoListing

\* t is among what the object at p ever said.
Said(t, p) == \E k \in 1 .. Len(history[p]) : history[p][k] = t

\* The head of the queue is what the step at hand needs, and what was answered
\* of it is what the server took.
HeadFits ==
  /\ sync.pc = "check" => Head1.pending = "delete" /\ Head1.href # 0
  /\ sync.pc = "send" /\ (kind = "caldav" \/ Head1.pending = "delete") => Head1.href # 0
  /\ sync.pc = "send" /\ kind = "ews" /\ Head1.href = 0 => Head1.marker # 0
  /\ sync.pc = "readback" => Head1.pending = "put" /\ Head1.href # 0 /\ Said(Head1.text, Head1.href)
  /\ sync.pc = "answer" => Head1.href # 0
  /\ sync.pc = "answer" /\ sync.said = "saved" /\ Head1.pending = "put" =>
       /\ kind = "caldav" /\ Said(Head1.text, Head1.href)
       /\ sync.tag # 0 => /\ sync.tag <= Len(history[Head1.href])
                          /\ history[Head1.href][sync.tag] = Head1.text

\* A listing holds versions the objects had, and no deletion.
ListingFits ==
  \A p \in Names : sync.listing[p] # 0 =>
    sync.listing[p] <= Len(history[p]) /\ history[p][sync.listing[p]] # 0

\* While a choice is being carried out its row still waits for it, at the place
\* that was asked for, and for deletion if it did.
SettlerFits ==
  settler.pc # "idle" =>
    /\ settler.id \in DOMAIN task => /\ task[settler.id].conflict \in Unsettled
                                     /\ task[settler.id].href = settler.href
                                     /\ settler.was = "delete" => task[settler.id].pending = "delete"
    /\ settler.got # 0 => /\ settler.href # 0 /\ settler.got <= Len(history[settler.href])
                          /\ history[settler.href][settler.got] # 0


\* The inductive invariant.
IInv ==
  /\ TypeOK /\ ServerFits /\ TaskFits /\ QueueFits /\ QueueRows /\ Unblocked /\ Phase /\ HeadFits
  /\ ListingFits /\ SettlerFits

-----------------------------------------------------------------------------
(* The operators of the model.                                             *)

\* A nonempty set of numbers has a least one.
LEMMA LeastExists ==
  ASSUME NEW T \in SUBSET Nat, T # {}
  PROVE  \E m \in T : \A x \in T : m <= x
<1>1. PICK m \in T : \A y \in T : ~(<<y, m>> \in OpToRel(<, Nat))
  BY NatLessThanWellFounded, WFMin, Zenon
<1>2. \A y \in T : ~(y < m)
  BY <1>1, Zenon DEF OpToRel
<1> QED
  BY <1>2

\* The queue's head is in the queue.
LEMMA HeadFacts ==
  ASSUME TypeSync, TypeStore, Queued # {}
  PROVE  HeadId \in Queued /\ Head1 \in Row /\ HeadId \in 1 .. lastId
<1>1. Queued \in SUBSET Nat
  BY DEF TypeSync, TypeStore
<1>2. PICK m \in Queued : \A x \in Queued : m <= x
  BY <1>1, LeastExists
<1>3. HeadId \in Queued
  BY <1>2 DEF HeadId, Min
<1> QED
  BY <1>3 DEF TypeSync, Head1

\* The rest of the queue.
LEMMA RestFacts ==
  ASSUME TypeSync
  PROVE  /\ DOMAIN Rest = Queued \ {HeadId} /\ Rest \in [DOMAIN Rest -> Row]
         /\ \A k \in Queued \ {HeadId} : Rest[k] = sync.queue[k]
BY DEF TypeSync, Rest

\* An object's versions, and the one a reader gets.
LEMMA ThereFacts ==
  ASSUME TypeServer, NEW p \in Names
  PROVE  /\ Len(history[p]) \in Nat /\ Version(p) = Len(history[p])
         /\ \A k \in 1 .. Len(history[p]) : history[p][k] \in Texts \cup {0}
         /\ There(p) <=> Len(history[p]) # 0 /\ history[p][Len(history[p])] # 0
         /\ There(p) => Last(history[p]) = history[p][Len(history[p])] /\ Last(history[p]) \in Texts
         /\ Tag(p) = (IF There(p) THEN Len(history[p]) ELSE 0) /\ Tag(p) \in Nat
<1>1. history[p] \in Seq(Texts \cup {0})
  BY DEF TypeServer
<1>2. /\ Len(history[p]) \in Nat /\ \A k \in 1 .. Len(history[p]) : history[p][k] \in Texts \cup {0}
      /\ (history[p] # <<>>) <=> (Len(history[p]) # 0)
  BY <1>1
<1> QED
  BY <1>2 DEF There, Last, Tag, Version

\* The histories only grow.
Kept ==
  \A p \in Names : /\ Len(history[p]) <= Len(history'[p])
                   /\ \A k \in 1 .. Len(history[p]) : history'[p][k] = history[p][k]

\* One more version of one object.
LEMMA AppendFacts ==
  ASSUME TypeServer, NEW p \in Names, NEW t \in Texts \cup {0},
         history' = [history EXCEPT ![p] = Append(@, t)]
  PROVE  /\ history' \in [Names -> Seq(Texts \cup {0})] /\ Kept
         /\ Len(history'[p]) = Len(history[p]) + 1 /\ history'[p][Len(history[p]) + 1] = t
         /\ \A q \in Names : q # p => history'[q] = history[q]
<1>1. \A q \in Names : history[q] \in Seq(Texts \cup {0}) /\ Len(history[q]) \in Nat
  BY DEF TypeServer
<1>2. /\ Append(history[p], t) \in Seq(Texts \cup {0}) /\ Len(Append(history[p], t)) = Len(history[p]) + 1
      /\ Append(history[p], t)[Len(history[p]) + 1] = t
      /\ \A k \in 1 .. Len(history[p]) : Append(history[p], t)[k] = history[p][k]
  BY <1>1
<1>3. history'[p] = Append(history[p], t) /\ \A q \in Names : q # p => history'[q] = history[q]
  BY DEF TypeServer
<1> QED
  BY <1>1, <1>2, <1>3 DEF TypeServer, Kept

\* A row is put in the table.
LEMMA PutFacts ==
  ASSUME task \in [DOMAIN task -> Row], NEW id, NEW r \in Row, Put(id, r)
  PROVE  /\ task' \in [DOMAIN task' -> Row] /\ DOMAIN task' = DOMAIN task \cup {id} /\ task'[id] = r
         /\ \A i \in DOMAIN task : i # id => task'[i] = task[i]
BY DEF Put

\* A row is taken out of it.
LEMMA DropFacts ==
  ASSUME task \in [DOMAIN task -> Row], NEW id, Drop(id)
  PROVE  /\ task' \in [DOMAIN task' -> Row] /\ DOMAIN task' = DOMAIN task \ {id}
         /\ \A i \in DOMAIN task' : task'[i] = task[i]
BY DEF Drop

\* A row is changed where it is still there.
LEMMA UpdateFacts ==
  ASSUME task \in [DOMAIN task -> Row], NEW id, NEW r, id \in DOMAIN task => r \in Row, Update(id, r)
  PROVE  /\ task' \in [DOMAIN task' -> Row] /\ DOMAIN task' = DOMAIN task
         /\ id \in DOMAIN task => task'[id] = r
         /\ \A i \in DOMAIN task : i # id => task'[i] = task[i]
<1>1. CASE id \in DOMAIN task
  <2>1. Put(id, r) /\ r \in Row
    BY <1>1 DEF Update
  <2> QED
    BY <1>1, <2>1 DEF Put
<1>2. CASE id \notin DOMAIN task
  BY <1>2 DEF Update
<1> QED
  BY <1>1, <1>2

\* What a step does not touch, it keeps.
LEMMA SameInv ==
  ASSUME IInv, UNCHANGED <<kind, task, lastId, sync, settler, history, marked, names, byOther, knows, settled,
                           again, cut, root, texts, asked, faults>>, TypeBeside'
  PROVE  IInv'
<1>a. /\ TypeOK /\ ServerFits /\ TaskFits /\ QueueFits /\ QueueRows /\ Unblocked /\ Phase /\ HeadFits
      /\ ListingFits /\ SettlerFits
  BY DEF IInv
<1>1. TypeOK'
  BY <1>a DEF TypeOK, TypeStore, TypeSync, TypeServer, TypeGhosts, Queued
<1>2. ServerFits' /\ TaskFits' /\ QueueFits' /\ QueueRows'
  BY <1>a DEF ServerFits, TaskFits, QueueFits, QueueRows, RowFits, RowKept, AtReadBack, Queued, HeadId
<1>3. Unblocked' /\ Phase' /\ HeadFits' /\ ListingFits' /\ SettlerFits'
  BY <1>a DEF Unblocked, Phase, HeadFits, ListingFits, SettlerFits, Queued, HeadId, Head1, Said
<1> QED
  BY <1>1, <1>2, <1>3 DEF IInv

-----------------------------------------------------------------------------
(* The person.                                                             *)

\* What an edit leaves of a row: it waits, or it was cut short before that.
Edited(i) ==
  /\ task[i].pending # "delete"
  /\ \/ task'[i].pending = "put" /\ task'[i].seq = task[i].seq + 1
     \/ task'[i].pending = task[i].pending /\ task'[i].seq = task[i].seq /\ texts' \in cut'
  /\ task'[i].text = texts' /\ texts < texts' /\ task[i].revision <= task'[i].revision
  /\ task'[i].href = task[i].href /\ task'[i].marker = task[i].marker
  /\ task'[i].etag = task[i].etag /\ task'[i].conflict = task[i].conflict

\* A deletion that waits to be sent.
Deleted(i) ==
  /\ task'[i].pending = "delete" /\ task'[i].seq = task[i].seq + 1 /\ task'[i].text = task[i].text
  /\ task'[i].href = task[i].href /\ task'[i].marker = task[i].marker
  /\ task'[i].etag = task[i].etag /\ task'[i].conflict = task[i].conflict
  /\ task'[i].revision = task[i].revision

\* A task made here.
Made(i) ==
  /\ i > lastId /\ task'[i].pending \in {"none", "put"} /\ task'[i].text > texts /\ task'[i].text <= texts'
  /\ task'[i].href = 0 /\ task'[i].marker = 0 /\ task'[i].etag = 0 /\ task'[i].conflict = "none"

\* What the person does to the rows, beside a sync and a settled conflict.
PersonStep ==
  /\ UNCHANGED <<kind, sync, settler, history, marked, names, byOther, settled, again>> /\ cut \subseteq cut'
  /\ TypeStore' /\ TypeGhosts' /\ texts <= texts' /\ lastId <= lastId'
  /\ \A i \in DOMAIN task' :
       \/ i \in DOMAIN task /\ (task'[i] = task[i] \/ Edited(i) \/ Deleted(i))
       \/ i \notin DOMAIN task /\ Made(i)

\* Who wrote a text stays who wrote it; an edit is written in sight of the row,
\* or of the row as the editor read it, and is of the same task.
InSightOf(i) ==
  \/ knows'[texts'] = InSight(task[i].text)
  \/ editor.id = i /\ EditorCurrent /\ knows'[texts'] = InSight(editor.text)
PersonSight ==
  /\ \A t \in Texts : t <= texts => knows'[t] = knows[t] /\ root'[t] = root[t]
  /\ \A t \in Texts : t > texts /\ t # texts' => root'[t] = root[t]
  /\ \A i \in DOMAIN task' :
       i \in DOMAIN task /\ Edited(i) => InSightOf(i) /\ root'[texts'] = root[task[i].text]
  /\ \A i \in DOMAIN task' : i \notin DOMAIN task => root'[task'[i].text] = IF task'[i].text = texts'
                                                         THEN texts' ELSE root[task'[i].text]

\* Such a step keeps everything but the types.
LEMMA PersonStepInv ==
  ASSUME IInv, PersonStep
  PROVE  /\ ServerFits' /\ TaskFits' /\ QueueFits' /\ QueueRows' /\ Unblocked' /\ Phase' /\ HeadFits'
         /\ ListingFits' /\ SettlerFits' /\ TypeSync' /\ TypeServer'
<1>a. /\ TypeOK /\ ServerFits /\ TaskFits /\ QueueFits /\ QueueRows /\ Unblocked /\ Phase /\ HeadFits
      /\ ListingFits /\ SettlerFits
  BY DEF IInv
<1>b. /\ UNCHANGED <<kind, sync, settler, history, marked, names, byOther, settled, again>> /\ cut \subseteq cut'
      /\ TypeStore' /\ TypeGhosts' /\ texts <= texts' /\ lastId <= lastId'
      /\ texts \in Nat /\ texts' \in Nat /\ lastId \in Nat /\ lastId' \in Nat
      /\ Queued' = Queued /\ HeadId' = HeadId /\ Queued \subseteq 1 .. lastId
  BY <1>a DEF PersonStep, TypeOK, TypeStore, TypeGhosts, TypeSync, Queued, HeadId
<1>c. /\ \A i \in DOMAIN task : task[i] \in Row
      /\ \A i \in DOMAIN task' : task'[i] \in Row
      /\ \A k \in Queued : sync.queue[k] \in Row
  BY <1>a, <1>b DEF TypeOK, TypeStore, TypeSync
<1>d. \A i \in DOMAIN task' :
       \/ i \in DOMAIN task /\ (task'[i] = task[i] \/ Edited(i) \/ Deleted(i))
       \/ i \notin DOMAIN task /\ Made(i)
  BY DEF PersonStep
<1>p1. ServerFits'
  <2>1. \A p \in Names : Len(history[p]) \in Nat /\ \A k \in 1 .. Len(history[p]) : history[p][k] \in Nat
    BY <1>a, ThereFacts DEF TypeOK, Texts
  <2> QED
    BY <1>a, <1>b, <2>1 DEF ServerFits
<1>p2. TaskFits'
  <2> SUFFICES ASSUME NEW i \in DOMAIN task' PROVE (RowFits(task[i]) /\ RowKept(task[i]))'
    BY DEF TaskFits
  <2>r. task'[i] \in Row /\ names \in Nat /\ names' = names
    BY <1>a, <1>b, <1>c DEF TypeOK, TypeServer
  <2>1. CASE i \in DOMAIN task /\ task'[i] = task[i]
    <3>1. RowFits(task[i]) /\ RowKept(task[i]) /\ task[i] \in Row
      BY <1>a, <1>c, <2>1 DEF TaskFits
    <3> QED
      BY <1>b, <2>1, <2>r, <3>1 DEF RowFits, RowKept, Row, Texts
  <2>2. CASE i \in DOMAIN task /\ (Edited(i) \/ Deleted(i))
    <3>1. RowFits(task[i]) /\ RowKept(task[i]) /\ task[i] \in Row
      BY <1>a, <1>c, <2>2 DEF TaskFits
    <3> QED
      BY <1>b, <2>2, <2>r, <3>1 DEF RowFits, RowKept, Row, Texts, Edited, Deleted
  <2>3. CASE Made(i)
    BY <1>b, <2>3, <2>r DEF RowFits, RowKept, Made, Unsettled
  <2> QED
    BY <1>d, <2>1, <2>2, <2>3
<1>p3. QueueFits'
  <2> SUFFICES ASSUME NEW k \in Queued
               PROVE  (/\ RowFits(sync.queue[k]) /\ sync.queue[k].pending # "none"
                       /\ sync.queue[k].marker # 0 => kind = "ews"
                       /\ sync.queue[k].marker # 0 /\ sync.queue[k].href # 0 => AtReadBack(k)
                       /\ kind = "ews" /\ sync.queue[k].href # 0 /\ sync.queue[k].etag = 0 => AtReadBack(k))'
    BY <1>b DEF QueueFits
  <2>1. sync.queue[k].text \in Nat /\ RowFits(sync.queue[k])
    BY <1>a, <1>c DEF QueueFits, Row, Texts
  <2>2. RowFits(sync.queue[k])'
    BY <1>b, <2>1 DEF RowFits
  <2> QED
    BY <1>a, <1>b, <2>2 DEF QueueFits, AtReadBack
<1>p4. QueueRows'
  <2> SUFFICES ASSUME NEW k \in Queued, k \in DOMAIN task'
               PROVE  (/\ task[k].pending # "none" /\ sync.queue[k].seq <= task[k].seq
                       /\ sync.queue[k].seq = task[k].seq => sync.queue[k].text = task[k].text \/ task[k].text \in cut
                       /\ sync.queue[k].pending = "delete" => task[k].pending = "delete"
                       /\ sync.queue[k].marker = task[k].marker
                       /\ sync.queue[k].href = task[k].href \/ (AtReadBack(k) /\ task[k].href = 0))'
    BY <1>b DEF QueueRows
  <2>1. k \in DOMAIN task /\ (task'[k] = task[k] \/ Edited(k) \/ Deleted(k))
    BY <1>b, <1>d DEF Made
  <2>2. task[k].seq \in Nat /\ sync.queue[k].seq \in Nat
    BY <1>c, <2>1 DEF Row
  <2> QED
    BY <1>a, <1>b, <2>1, <2>2 DEF QueueRows, AtReadBack, Edited, Deleted
<1>p5. Unblocked'
  BY <1>a, <1>b, <1>d DEF Unblocked, Edited, Deleted, Made, Unsettled
<1>p6. Phase' /\ HeadFits' /\ ListingFits'
  BY <1>a, <1>b DEF Phase, HeadFits, ListingFits, Head1, Said
<1>p7. SettlerFits'
  <2>1. settler.id \in Nat /\ settler.id <= lastId
    BY <1>a, <1>b DEF TypeOK, TypeBeside
  <2>2. settler.id \in DOMAIN task' =>
          /\ settler.id \in DOMAIN task /\ task'[settler.id].href = task[settler.id].href
          /\ task'[settler.id].conflict = task[settler.id].conflict
          /\ task[settler.id].pending = "delete" => task'[settler.id].pending = "delete"
    BY <1>b, <1>d, <2>1 DEF Edited, Deleted, Made
  <2> QED
    BY <1>a, <1>b, <2>2 DEF SettlerFits
<1>p8. TypeSync' /\ TypeServer'
  BY <1>a, <1>b DEF TypeOK, TypeSync, TypeServer
<1> QED
  BY <1>p1, <1>p2, <1>p3, <1>p4, <1>p5, <1>p6, <1>p7, <1>p8

\* Other clients wrote finitely many texts.
LEMMA OthersFacts ==
  ASSUME TypeGhosts
  PROVE  IsFiniteSet(byOther) /\ Cardinality(byOther) \in Nat
<1>1. IsFiniteSet(Texts)
  BY FS_Interval, TaskSyncBounds DEF Texts
<1>2. IsFiniteSet(byOther)
  BY <1>1, FS_Subset DEF TypeGhosts
<1> QED
  BY <1>2, FS_CardinalityType

\* There is room for what an action of the person writes.
LEMMA RoomFacts ==
  ASSUME TypeGhosts, Asked
  PROVE  /\ texts + 1 \in Texts /\ texts + 2 \in Texts /\ asked' \in 0 .. MaxEdits
         /\ texts + 2 <= 2 * asked' + Cardinality(byOther) /\ Cardinality(byOther) \in Nat
<1>1. Cardinality(byOther) \in Nat
  BY OthersFacts
<1>2. asked \in Nat /\ asked < MaxEdits /\ asked' = asked + 1 /\ texts \in Nat
  BY TaskSyncBounds DEF TypeGhosts, Asked
<1> QED
  BY <1>1, <1>2, TaskSyncBounds DEF TypeGhosts, Texts

\* What is in sight of a text is texts.
LEMMA InSightFacts ==
  ASSUME TypeGhosts, NEW n \in Texts
  PROVE  InSight(n) \in SUBSET Texts
BY DEF TypeGhosts, InSight

\* A new text is told from the ones before.
LEMMA WritesFacts ==
  ASSUME TypeGhosts, texts + 1 \in Texts, NEW seen \in SUBSET Texts, NEW of \in Texts \cup {0},
         Writes(seen, of)
  PROVE  /\ texts' = texts + 1 /\ knows' \in [Texts -> SUBSET Texts] /\ root' \in [Texts -> Texts]
         /\ knows'[texts + 1] = seen
         /\ root'[texts + 1] = (IF of = 0 THEN texts + 1 ELSE root[of])
         /\ \A t \in Texts : t # texts + 1 => knows'[t] = knows[t] /\ root'[t] = root[t]
BY DEF TypeGhosts, Writes

\* A row with another change pending, and a row with another text.
Waiting(r, x, n) == [r EXCEPT !.pending = x, !.seq = n]
Reworded(r, t, v) == [r EXCEPT !.text = t, !.revision = v]

\* It keeps the rest.
LEMMA RewordedFacts ==
  ASSUME NEW r \in Row, NEW t \in Texts, NEW v \in Nat
  PROVE  /\ Reworded(r, t, v) \in Row /\ Reworded(r, t, v).text = t /\ Reworded(r, t, v).revision = v
         /\ Reworded(r, t, v).href = r.href /\ Reworded(r, t, v).marker = r.marker
         /\ Reworded(r, t, v).etag = r.etag /\ Reworded(r, t, v).conflict = r.conflict
         /\ Reworded(r, t, v).pending = r.pending /\ Reworded(r, t, v).seq = r.seq
BY DEF Reworded, Row

\* A row that is touched waits to be sent.
LEMMA TouchedFacts ==
  ASSUME NEW r \in Row
  PROVE  /\ Touched(r) \in Row /\ Touched(r).pending = "put" /\ Touched(r).seq = r.seq + 1
         /\ Touched(r).text = r.text /\ Touched(r).href = r.href /\ Touched(r).marker = r.marker
         /\ Touched(r).etag = r.etag /\ Touched(r).conflict = r.conflict
         /\ Touched(r).revision = r.revision
<1> DEFINE n == r.seq + 1
<1>1. Touched(r) = Waiting(r, "put", n) /\ n \in Nat
  BY DEF Touched, Waiting, Row
<1>2. n = r.seq + 1 /\ "put" \in {"none", "put", "delete"}
  OBVIOUS
<1> HIDE DEF n
<1> QED
  BY <1>1, <1>2 DEF Waiting, Row

\* A task that was never on the server.
LEMMA BlankFacts ==
  ASSUME NEW t \in Texts
  PROVE  /\ Blank(t) \in Row /\ Blank(t).text = t /\ Blank(t).href = 0 /\ Blank(t).marker = 0
         /\ Blank(t).etag = 0 /\ Blank(t).conflict = "none" /\ Blank(t).pending = "none"
BY DEF Blank, Row

\* What an edit does, once what the action does to the bounds is known.
LEMMA EditFacts ==
  ASSUME TypeStore, TypeGhosts, TypeGhosts', NEW id \in DOMAIN task, NEW t \in Texts, NEW v \in Nat,
         t = texts', texts < texts', task[id].pending # "delete", task[id].revision <= v, lastId' = lastId,
         Put(id, Touched([task[id] EXCEPT !.text = t, !.revision = v]))
  PROVE  /\ TypeStore' /\ Edited(id) /\ DOMAIN task' = DOMAIN task
         /\ \A i \in DOMAIN task : i # id => task'[i] = task[i]
<1>1. task[id] \in Row
  BY DEF TypeStore
<1> DEFINE e == Reworded(task[id], t, v)
<1>2. /\ e \in Row /\ e.text = t /\ e.revision = v /\ e.href = task[id].href
      /\ e.marker = task[id].marker /\ e.etag = task[id].etag
      /\ e.conflict = task[id].conflict /\ e.pending = task[id].pending /\ e.seq = task[id].seq
  BY <1>1, RewordedFacts
<1>3. /\ Touched(e) \in Row /\ Touched(e).pending = "put" /\ Touched(e).seq = e.seq + 1
      /\ Touched(e).text = e.text /\ Touched(e).href = e.href /\ Touched(e).marker = e.marker
      /\ Touched(e).etag = e.etag /\ Touched(e).conflict = e.conflict
      /\ Touched(e).revision = e.revision
  BY <1>2, TouchedFacts
<1>4. Put(id, Touched(e))
  BY DEF Reworded
<1> HIDE DEF e
<1>5. /\ task' \in [DOMAIN task' -> Row] /\ DOMAIN task' = DOMAIN task \cup {id} /\ task'[id] = Touched(e)
      /\ \A i \in DOMAIN task : i # id => task'[i] = task[i]
  BY <1>3, <1>4, PutFacts DEF TypeStore
<1> QED
  BY <1>2, <1>3, <1>5 DEF TypeStore, Edited

\* A row that stays as it is was not edited.
LEMMA NotEdited ==
  ASSUME IInv, NEW i \in DOMAIN task, texts' \in Nat, task'[i].text = task[i].text
  PROVE  ~Edited(i)
<1>1. task[i].text <= texts /\ task[i].text \in Nat /\ texts \in Nat
  BY DEF IInv, TypeOK, TypeStore, TypeGhosts, TaskFits, RowFits, Row, Texts
<1> QED
  BY <1>1 DEF Edited

\* What an edit cut short before the row waits does.
LEMMA CutFacts ==
  ASSUME TypeStore, TypeGhosts, TypeGhosts', NEW id \in DOMAIN task, NEW t \in Texts, NEW v \in Nat,
         t = texts', texts < texts', task[id].pending # "delete", task[id].revision <= v, lastId' = lastId,
         texts' \in cut', Put(id, [task[id] EXCEPT !.text = t, !.revision = v])
  PROVE  /\ TypeStore' /\ Edited(id) /\ DOMAIN task' = DOMAIN task
         /\ \A i \in DOMAIN task : i # id => task'[i] = task[i]
<1>1. task[id] \in Row
  BY DEF TypeStore
<1> DEFINE e == Reworded(task[id], t, v)
<1>2. /\ e \in Row /\ e.text = t /\ e.revision = v /\ e.href = task[id].href
      /\ e.marker = task[id].marker /\ e.etag = task[id].etag
      /\ e.conflict = task[id].conflict /\ e.pending = task[id].pending /\ e.seq = task[id].seq
  BY <1>1, RewordedFacts
<1>3. Put(id, e)
  BY DEF Reworded
<1> HIDE DEF e
<1>4. /\ task' \in [DOMAIN task' -> Row] /\ DOMAIN task' = DOMAIN task \cup {id} /\ task'[id] = e
      /\ \A i \in DOMAIN task : i # id => task'[i] = task[i]
  BY <1>2, <1>3, PutFacts DEF TypeStore
<1> QED
  BY <1>2, <1>4 DEF TypeStore, Edited

\* Whether a row written is marked as waiting too is the one difference.
LEMMA PutAndTouchFacts ==
  ASSUME TypeGhosts, NEW id, NEW r, texts' \in Texts, PutAndTouch(id, r)
  PROVE  /\ cut \subseteq cut' /\ cut' \in SUBSET Texts /\ faults' \in 0 .. MaxFaults
         /\ Put(id, Touched(r)) \/ (Put(id, r) /\ texts' \in cut')
BY TaskSyncBounds DEF PutAndTouch, TypeGhosts

\* "tasks.setCompleted".
LEMMA CompleteInv ==
  ASSUME IInv, NEW id \in DOMAIN task, NEW stops \in BOOLEAN, Complete(id, stops)
  PROVE  IInv' /\ PersonStep /\ PersonSight
<1>a. TypeOK /\ TypeStore /\ TypeGhosts /\ task[id] \in Row /\ task[id].text \in Texts /\ task[id].revision \in Nat
  BY DEF IInv, TypeOK, TypeStore, Row
<1>b. /\ UNCHANGED <<kind, sync, settler, editor, history, marked, names, byOther, settled, again, lastId>>
      /\ Asked /\ task[id].pending # "delete"
  BY DEF Complete, server
<1>w. /\ cut \subseteq cut' /\ cut' \in SUBSET Texts /\ faults' \in 0 .. MaxFaults
  <2>1. texts' \in Texts
    BY <1>a, <1>b, RoomFacts DEF Complete, Writes
  <2> QED
    BY <1>a, <2>1, PutAndTouchFacts DEF Complete
<1>c. /\ texts' = texts + 1 /\ texts + 1 \in Texts /\ TypeGhosts'
      /\ knows'[texts + 1] = InSight(task[id].text) /\ root'[texts + 1] = root[task[id].text]
      /\ \A t \in Texts : t # texts + 1 => knows'[t] = knows[t] /\ root'[t] = root[t]
  <2>1. /\ texts + 1 \in Texts /\ asked' \in 0 .. MaxEdits /\ texts + 2 <= 2 * asked' + Cardinality(byOther)
          /\ Cardinality(byOther) \in Nat /\ texts \in Nat
    BY <1>a, <1>b, RoomFacts DEF TypeGhosts
  <2>0. task[id].text # 0
    BY <1>a DEF Texts
  <2>2. /\ texts' = texts + 1 /\ knows' \in [Texts -> SUBSET Texts] /\ root' \in [Texts -> Texts]
        /\ knows'[texts + 1] = InSight(task[id].text) /\ root'[texts + 1] = root[task[id].text]
        /\ \A t \in Texts : t # texts + 1 => knows'[t] = knows[t] /\ root'[t] = root[t]
    BY <1>a, <2>0, <2>1, InSightFacts, WritesFacts DEF Complete
  <2> QED
    BY <1>a, <1>b, <1>w, <2>1, <2>2 DEF TypeGhosts
<1> DEFINE v == IF stops THEN task[id].revision + 1 ELSE task[id].revision
<1>d. v \in Nat /\ task[id].revision <= v
  BY <1>a
<1>e. \/ Put(id, Touched([task[id] EXCEPT !.text = texts', !.revision = v]))
      \/ Put(id, [task[id] EXCEPT !.text = texts', !.revision = v]) /\ texts' \in cut'
  <2>1. PutAndTouch(id, [task[id] EXCEPT !.text = texts', !.revision = v])
    BY <1>a DEF Complete
  <2> QED
    BY <1>a, <1>c, <2>1, PutAndTouchFacts
<1> HIDE DEF v
<1>f. /\ TypeStore' /\ Edited(id) /\ DOMAIN task' = DOMAIN task
      /\ \A i \in DOMAIN task : i # id => task'[i] = task[i]
  <2>1. texts < texts'
    BY <1>a, <1>c DEF TypeGhosts
  <2> QED
    BY <1>a, <1>b, <1>c, <1>d, <1>e, <2>1, EditFacts, CutFacts
<1>g. PersonStep
  BY <1>a, <1>b, <1>c, <1>w, <1>f DEF PersonStep, TypeGhosts, TypeStore
<1>h. TypeBeside'
  BY <1>a, <1>b DEF TypeOK, TypeBeside
<1>s. PersonSight
  <2>1. texts \in Nat /\ texts' \in Nat
    BY <1>a, <1>c DEF TypeGhosts
  <2>2. \A i \in DOMAIN task : i # id => ~Edited(i)
    BY <1>f, <2>1, NotEdited
  <2> QED
    BY <1>c, <1>f, <2>1, <2>2 DEF PersonSight, InSightOf
<1> QED
  BY <1>a, <1>b, <1>c, <1>f, <1>g, <1>h, <1>s, PersonStepInv DEF IInv, TypeOK

\* "tasks.create".
LEMMA CreateInv ==
  ASSUME IInv, Create
  PROVE  IInv' /\ PersonStep /\ PersonSight
<1>a. TypeOK /\ TypeStore /\ TypeGhosts
  BY DEF IInv, TypeOK
<1>b. /\ UNCHANGED <<kind, sync, settler, editor, history, marked, names, byOther, settled, again>>
      /\ Asked /\ lastId' = lastId + 1 /\ lastId' \in 0 .. MaxRows
  BY <1>a, TaskSyncBounds DEF Create, server, TypeStore
<1>w. /\ cut \subseteq cut' /\ cut' \in SUBSET Texts /\ faults' \in 0 .. MaxFaults
      /\ Put(lastId', Touched(Blank(texts'))) \/ Put(lastId', Blank(texts'))
  <2>1. texts' \in Texts
    BY <1>a, <1>b, RoomFacts DEF Create, Writes
  <2> QED
    BY <1>a, <2>1, PutAndTouchFacts DEF Create
<1>c. /\ texts' = texts + 1 /\ texts + 1 \in Texts /\ TypeGhosts' /\ root'[texts + 1] = texts + 1
      /\ \A t \in Texts : t # texts + 1 => knows'[t] = knows[t] /\ root'[t] = root[t]
  <2>1. /\ texts + 1 \in Texts /\ asked' \in 0 .. MaxEdits /\ texts + 2 <= 2 * asked' + Cardinality(byOther)
        /\ Cardinality(byOther) \in Nat /\ texts \in Nat
    BY <1>a, <1>b, RoomFacts DEF TypeGhosts
  <2>2. /\ texts' = texts + 1 /\ knows' \in [Texts -> SUBSET Texts] /\ root' \in [Texts -> Texts]
        /\ root'[texts + 1] = texts + 1
        /\ \A t \in Texts : t # texts + 1 => knows'[t] = knows[t] /\ root'[t] = root[t]
    BY <1>a, <2>1, WritesFacts DEF Create
  <2> QED
    BY <1>a, <1>b, <1>w, <2>1, <2>2 DEF TypeGhosts
<1>d. /\ Blank(texts') \in Row /\ Blank(texts').text = texts' /\ Blank(texts').href = 0
      /\ Blank(texts').marker = 0 /\ Blank(texts').etag = 0 /\ Blank(texts').conflict = "none"
      /\ Blank(texts').pending = "none"
  BY <1>c, BlankFacts
<1>e. PICK r \in {Blank(texts'), Touched(Blank(texts'))} : Put(lastId', r)
  BY <1>w
<1>f. /\ r \in Row /\ r.text = texts' /\ r.pending \in {"none", "put"} /\ r.href = 0 /\ r.marker = 0 /\ r.etag = 0
      /\ r.conflict = "none"
  BY <1>d, TouchedFacts
<1>g. /\ task' \in [DOMAIN task' -> Row] /\ DOMAIN task' = DOMAIN task \cup {lastId'} /\ task'[lastId'] = r
      /\ \A i \in DOMAIN task : i # lastId' => task'[i] = task[i]
  BY <1>a, <1>e, <1>f, PutFacts DEF TypeStore
<1>h. TypeStore' /\ lastId \in Nat /\ lastId' \notin DOMAIN task /\ texts \in Nat
  BY <1>a, <1>b, <1>g DEF TypeStore, TypeGhosts
<1>i. Made(lastId')
  BY <1>b, <1>c, <1>f, <1>g, <1>h DEF Made
<1>j. PersonStep
  BY <1>a, <1>b, <1>c, <1>w, <1>g, <1>h, <1>i DEF PersonStep
<1>k. TypeBeside'
  BY <1>a, <1>b, <1>h DEF TypeOK, TypeBeside
<1>s. PersonSight
  <2>1. \A i \in DOMAIN task : ~Edited(i)
    BY <1>c, <1>g, <1>h, NotEdited
  <2> QED
    BY <1>c, <1>f, <1>g, <1>h, <2>1 DEF PersonSight
<1> QED
  BY <1>a, <1>b, <1>c, <1>h, <1>j, <1>k, <1>s, PersonStepInv DEF IInv, TypeOK

\* A repeating task moves on, and the occurrence done is a new task.
LEMMA CompleteOccurrenceInv ==
  ASSUME IInv, NEW id \in DOMAIN task, CompleteOccurrence(id)
  PROVE  IInv' /\ PersonStep /\ PersonSight
<1>a. /\ TypeOK /\ TypeStore /\ TypeGhosts /\ task[id] \in Row /\ task[id].text \in Texts
      /\ task[id].revision \in Nat /\ lastId \in Nat /\ texts \in Nat
  BY DEF IInv, TypeOK, TypeStore, Row, TypeGhosts
<1>b. /\ UNCHANGED <<kind, sync, settler, editor, history, marked, names, byOther, settled, again, cut, faults>>
      /\ Asked /\ task[id].pending # "delete" /\ lastId' = lastId + 1 /\ lastId' \in 0 .. MaxRows
      /\ lastId' \notin DOMAIN task /\ texts' = texts + 2
  BY <1>a, TaskSyncBounds DEF CompleteOccurrence, server, TypeStore
<1>c. /\ texts + 1 \in Texts /\ texts + 2 \in Texts /\ TypeGhosts'
      /\ knows'[texts + 2] = InSight(task[id].text) /\ root'[texts + 2] = root[task[id].text]
      /\ \A t \in Texts : t # texts + 2 => knows'[t] = knows[t] /\ root'[t] = root[t]
  <2>1. /\ texts + 1 \in Texts /\ texts + 2 \in Texts /\ asked' \in 0 .. MaxEdits
        /\ texts + 2 <= 2 * asked' + Cardinality(byOther) /\ Cardinality(byOther) \in Nat
    BY <1>a, <1>b, RoomFacts
  <2>2. InSight(task[id].text) \in SUBSET Texts
    BY <1>a, InSightFacts
  <2>3. knows' \in [Texts -> SUBSET Texts] /\ root' \in [Texts -> Texts]
    BY <1>a, <2>1, <2>2 DEF CompleteOccurrence, TypeGhosts
  <2>4. /\ knows'[texts + 2] = InSight(task[id].text) /\ root'[texts + 2] = root[task[id].text]
        /\ \A t \in Texts : t # texts + 2 => knows'[t] = knows[t] /\ root'[t] = root[t]
    BY <1>a, <2>1, <2>2 DEF CompleteOccurrence, TypeGhosts
  <2> QED
    BY <1>a, <1>b, <2>1, <2>3, <2>4 DEF TypeGhosts
<1>d. /\ Blank(texts + 1) \in Row /\ Blank(texts + 1).text = texts + 1 /\ Blank(texts + 1).href = 0
      /\ Blank(texts + 1).marker = 0 /\ Blank(texts + 1).etag = 0 /\ Blank(texts + 1).conflict = "none"
  BY <1>c, BlankFacts
<1> DEFINE v == task[id].revision + 1
           r == Touched(Blank(texts + 1))
           o == Reworded(task[id], texts', v)
           e == Touched(o)
<1>e. /\ r \in Row /\ r.text = texts + 1 /\ r.pending = "put" /\ r.href = 0 /\ r.marker = 0 /\ r.etag = 0
      /\ r.conflict = "none"
  BY <1>d, TouchedFacts
<1>f. /\ o \in Row /\ o.text = texts' /\ o.revision = v /\ o.href = task[id].href
      /\ o.marker = task[id].marker /\ o.etag = task[id].etag
      /\ o.conflict = task[id].conflict /\ o.seq = task[id].seq
  <2>1. texts' \in Texts /\ v \in Nat
    BY <1>a, <1>b, <1>c
  <2> HIDE DEF v
  <2> QED
    BY <1>a, <2>1, RewordedFacts
<1>t. task' = [i \in DOMAIN task \cup {lastId'} |-> IF i = lastId' THEN r ELSE IF i = id THEN e ELSE task[i]]
  BY <1>a DEF CompleteOccurrence, Reworded
<1> HIDE DEF o
<1>g. /\ e \in Row /\ e.pending = "put" /\ e.seq = o.seq + 1
      /\ e.text = o.text /\ e.href = o.href /\ e.marker = o.marker
      /\ e.etag = o.etag /\ e.conflict = o.conflict /\ e.revision = o.revision
  BY <1>f, TouchedFacts
<1> HIDE DEF r, e
<1>h. /\ task' \in [DOMAIN task' -> Row] /\ DOMAIN task' = DOMAIN task \cup {lastId'}
      /\ task'[lastId'] = r /\ task'[id] = e
      /\ \A i \in DOMAIN task : i # id => task'[i] = task[i]
  BY <1>a, <1>b, <1>e, <1>g, <1>t DEF TypeStore
<1>i. TypeStore'
  BY <1>a, <1>b, <1>h DEF TypeStore
<1>v. task[id].revision <= v
  BY <1>a
<1> HIDE DEF v
<1>j. Made(lastId') /\ Edited(id)
  BY <1>a, <1>b, <1>e, <1>f, <1>g, <1>h, <1>v DEF Made, Edited
<1>k. PersonStep
  BY <1>a, <1>b, <1>c, <1>h, <1>i, <1>j DEF PersonStep
<1>l. TypeBeside'
  BY <1>a, <1>b DEF TypeOK, TypeBeside
<1>s. PersonSight
  <2>1. \A i \in DOMAIN task : i # id => ~Edited(i)
    BY <1>a, <1>b, <1>h, NotEdited
  <2> QED
    BY <1>a, <1>b, <1>c, <1>e, <1>h, <2>1 DEF PersonSight, InSightOf
<1> QED
  BY <1>a, <1>b, <1>c, <1>i, <1>k, <1>l, <1>s, PersonStepInv DEF IInv, TypeOK

\* "tasks.delete".
LEMMA DeleteInv ==
  ASSUME IInv, NEW id \in DOMAIN task, Delete(id)
  PROVE  IInv' /\ PersonStep /\ PersonSight
<1>a. /\ TypeOK /\ TypeStore /\ TypeGhosts /\ task[id] \in Row /\ task[id].seq \in Nat
      /\ texts \in Nat /\ lastId \in Nat
  BY DEF IInv, TypeOK, TypeStore, TypeGhosts, Row
<1>b. /\ UNCHANGED <<kind, sync, settler, editor, history, marked, names, byOther, settled, again, cut, faults>>
      /\ UNCHANGED <<lastId, knows, root, texts>> /\ Asked
  BY DEF Delete, server, ghosts
<1>c. TypeGhosts'
  <2>1. asked' \in 0 .. MaxEdits /\ texts + 2 <= 2 * asked' + Cardinality(byOther) /\ Cardinality(byOther) \in Nat
    BY <1>a, <1>b, RoomFacts
  <2> QED
    BY <1>a, <1>b, <2>1 DEF TypeGhosts
<1> DEFINE n == task[id].seq + 1
           e == Waiting(task[id], "delete", n)
<1>n. n \in Nat /\ n = task[id].seq + 1 /\ "delete" \in {"none", "put", "delete"}
  BY <1>a
<1>e. Put(id, e) \/ Drop(id)
  BY <1>a DEF Delete, Waiting
<1> HIDE DEF n
<1>d. /\ e \in Row /\ e.pending = "delete" /\ e.seq = n /\ e.text = task[id].text
      /\ e.href = task[id].href /\ e.marker = task[id].marker /\ e.etag = task[id].etag
      /\ e.conflict = task[id].conflict /\ e.revision = task[id].revision
  BY <1>a, <1>n DEF Waiting, Row
<1> HIDE DEF e
<1>j. PersonStep
  <2>1. CASE Put(id, e)
    <3>1. /\ task' \in [DOMAIN task' -> Row] /\ DOMAIN task' = DOMAIN task \cup {id} /\ task'[id] = e
          /\ \A i \in DOMAIN task : i # id => task'[i] = task[i]
      BY <1>a, <1>d, <2>1, PutFacts DEF TypeStore
    <3>2. TypeStore' /\ Deleted(id) /\ DOMAIN task' = DOMAIN task
      BY <1>a, <1>b, <1>d, <1>n, <3>1 DEF TypeStore, Deleted
    <3>3. TypeStore' /\ \A i \in DOMAIN task' : i \in DOMAIN task /\ (task'[i] = task[i] \/ Deleted(i))
      BY <3>1, <3>2
    <3> QED
      BY <1>a, <1>b, <1>c, <3>3 DEF PersonStep
  <2>2. CASE Drop(id)
    <3>1. /\ task' \in [DOMAIN task' -> Row] /\ DOMAIN task' = DOMAIN task \ {id}
          /\ \A i \in DOMAIN task' : task'[i] = task[i]
      BY <1>a, <2>2, DropFacts DEF TypeStore
    <3>2. TypeStore'
      BY <1>a, <1>b, <3>1 DEF TypeStore
    <3> QED
      BY <1>a, <1>b, <1>c, <3>1, <3>2 DEF PersonStep
  <2> QED
    BY <1>e, <2>1, <2>2
<1>k. TypeBeside' /\ TypeStore'
  BY <1>a, <1>b, <1>j DEF TypeOK, TypeBeside, PersonStep
<1>s. PersonSight
  <2>1. texts' \in Nat
    BY <1>a, <1>b DEF TypeOK, TypeGhosts
  <2>2. \A i \in DOMAIN task' : i \in DOMAIN task /\ ~Edited(i)
    <3>1. CASE Put(id, e)
      <4>1. /\ DOMAIN task' = DOMAIN task \cup {id} /\ task'[id] = e
            /\ \A i \in DOMAIN task : i # id => task'[i] = task[i]
        BY <1>a, <1>d, <3>1, PutFacts DEF TypeStore
      <4> QED
        BY <1>a, <1>d, <2>1, <4>1, NotEdited
    <3>2. CASE Drop(id)
      <4>1. DOMAIN task' = DOMAIN task \ {id} /\ \A i \in DOMAIN task' : task'[i] = task[i]
        BY <1>a, <3>2, DropFacts DEF TypeStore
      <4> QED
        BY <2>1, <4>1, NotEdited
    <3> QED
      BY <1>e, <3>1, <3>2
  <2> QED
    BY <1>b, <2>2 DEF PersonSight
<1> QED
  BY <1>a, <1>b, <1>c, <1>j, <1>k, <1>s, PersonStepInv DEF IInv, TypeOK

\* "tasks.get".
LEMMA OpenEditorInv ==
  ASSUME IInv, NEW id \in DOMAIN task, OpenEditor(id)
  PROVE  IInv'
<1>a. TypeOK /\ TypeStore /\ task[id] \in Row
  BY DEF IInv, TypeOK, TypeStore
<1>b. UNCHANGED <<kind, task, lastId, sync, settler, history, marked, names, byOther, knows, settled, again, cut,
                  root, texts, asked, faults>>
  BY DEF OpenEditor, server, ghosts, bounds
<1>c. TypeBeside'
  BY <1>a, <1>b DEF OpenEditor, TypeOK, TypeBeside, TypeStore, Row, Texts
<1> QED
  BY <1>a, <1>b, <1>c, SameInv DEF IInv

\* "tasks.update".
LEMMA SaveEditorInv ==
  ASSUME IInv, SaveEditor
  PROVE  IInv' /\ PersonStep /\ PersonSight
<1>a. TypeOK /\ TypeStore /\ TypeGhosts /\ TypeBeside
  BY DEF IInv, TypeOK
<1>b. /\ UNCHANGED <<kind, lastId, sync, settler, history, marked, names, byOther, settled, again, cut, faults>>
      /\ Asked /\ editor' = NoEditor /\ editor # NoEditor
  BY DEF SaveEditor, server
<1>r. /\ texts + 1 \in Texts /\ asked' \in 0 .. MaxEdits /\ texts + 2 <= 2 * asked' + Cardinality(byOther)
      /\ Cardinality(byOther) \in Nat /\ texts \in Nat
  BY <1>a, <1>b, RoomFacts DEF TypeGhosts
<1>k. TypeBeside'
  BY <1>a, <1>b DEF TypeStore, TypeBeside, NoEditor
<1>1. CASE EditorCurrent
  <2> DEFINE id == editor.id
  <2>a. /\ id \in DOMAIN task /\ task[id] \in Row /\ task[id].pending # "delete" /\ task[id].text \in Texts
        /\ task[id].revision \in Nat
    BY <1>a, <1>1 DEF EditorCurrent, TypeStore, Row
  <2>b. editor.text \in Texts
    BY <1>a, <1>1 DEF TypeBeside, TypeStore, EditorCurrent
  <2>c. /\ texts' = texts + 1 /\ TypeGhosts'
        /\ knows'[texts + 1] = InSight(editor.text) /\ root'[texts + 1] = root[task[id].text]
        /\ \A t \in Texts : t # texts + 1 => knows'[t] = knows[t] /\ root'[t] = root[t]
    <3>1. task[id].text # 0
      BY <2>a DEF Texts
    <3>2. /\ texts' = texts + 1 /\ knows' \in [Texts -> SUBSET Texts] /\ root' \in [Texts -> Texts]
          /\ knows'[texts + 1] = InSight(editor.text) /\ root'[texts + 1] = root[task[id].text]
          /\ \A t \in Texts : t # texts + 1 => knows'[t] = knows[t] /\ root'[t] = root[t]
      <4>1. Writes(InSight(editor.text), task[id].text) /\ InSight(editor.text) \in SUBSET Texts
        BY <1>a, <1>1, <2>b, InSightFacts DEF SaveEditor
      <4>2. task[id].text \in Texts \cup {0} /\ texts + 1 \in Texts /\ TypeGhosts
        BY <1>a, <1>r, <2>a
      <4> HIDE DEF id
      <4> QED
        BY <3>1, <4>1, <4>2, WritesFacts
    <3> QED
      BY <1>a, <1>b, <1>r, <3>2 DEF TypeGhosts
  <2> DEFINE v == task[id].revision + 1
  <2>d. v \in Nat /\ task[id].revision <= v
    BY <2>a
  <2>e. Put(id, Touched([task[id] EXCEPT !.text = texts', !.revision = v]))
    BY <1>1, <2>a DEF SaveEditor
  <2> HIDE DEF v, id
  <2>f. /\ TypeStore' /\ Edited(id) /\ DOMAIN task' = DOMAIN task
        /\ \A i \in DOMAIN task : i # id => task'[i] = task[i]
    <3>1. texts < texts'
      BY <1>r, <2>c
    <3> QED
      BY <1>a, <1>b, <1>r, <2>a, <2>c, <2>d, <2>e, <3>1, EditFacts
  <2>g. PersonStep
    BY <1>a, <1>b, <1>r, <2>c, <2>f DEF PersonStep, TypeStore
  <2>s. PersonSight
    <3>1. \A i \in DOMAIN task : i # id => ~Edited(i)
      BY <1>r, <2>c, <2>f, NotEdited
    <3>2. id = editor.id
      BY DEF id
    <3> QED
      BY <1>1, <1>r, <2>c, <2>f, <3>1, <3>2 DEF PersonSight, InSightOf
  <2> QED
    BY <1>a, <1>b, <1>k, <2>c, <2>f, <2>g, <2>s, PersonStepInv DEF IInv, TypeOK
<1>2. CASE ~EditorCurrent
  <2>1. UNCHANGED <<task, knows, root, texts>>
    BY <1>2 DEF SaveEditor
  <2>2. TypeStore' /\ TypeGhosts'
    BY <1>a, <1>b, <1>r, <2>1 DEF TypeStore, TypeGhosts
  <2>g. PersonStep
    BY <1>a, <1>b, <1>r, <2>1, <2>2 DEF PersonStep, TypeStore
  <2>s. PersonSight
    <3>1. \A i \in DOMAIN task : ~Edited(i)
      BY <1>r, <2>1, NotEdited
    <3> QED
      BY <2>1, <3>1 DEF PersonSight
  <2> QED
    BY <1>a, <1>b, <1>k, <2>2, <2>g, <2>s, PersonStepInv DEF IInv, TypeOK
<1> QED
  BY <1>1, <1>2

-----------------------------------------------------------------------------
(* A sync: moving on.                                                      *)

\* What the store and the person's side know of the server holds when the
\* server comes to hold more.
LEMMA KeptFits ==
  ASSUME IInv, Kept, TypeServer', names <= names', texts <= texts', texts' \in Nat,
         UNCHANGED <<kind, task, settler>>
  PROVE  TaskFits' /\ SettlerFits'
<1>a. TypeOK /\ TaskFits /\ SettlerFits /\ names \in Nat /\ names' \in Nat /\ texts \in Nat
  BY DEF IInv, TypeOK, TypeServer, TypeGhosts
<1>b. \A p \in Names : Len(history[p]) \in Nat /\ Len(history'[p]) \in Nat
  BY <1>a DEF TypeOK, TypeServer
<1>c. \A i \in DOMAIN task : /\ task[i].text \in Nat /\ task[i].href \in Names \cup {0}
                             /\ task[i].marker \in Nat /\ task[i].etag \in Nat
  BY <1>a DEF TypeOK, TypeStore, Row, Texts, Names
<1>1. TaskFits'
  BY <1>a, <1>b, <1>c DEF TaskFits, RowFits, RowKept, Kept, Names
<1>2. SettlerFits'
  <2>1. settler.href \in Names \cup {0} /\ settler.got \in Nat
    BY <1>a DEF TypeOK, TypeBeside
  <2> QED
    BY <1>a, <1>b, <2>1 DEF SettlerFits, Kept, Names
<1> QED
  BY <1>1, <1>2

\* A row that fits still fits then.
LEMMA FitsKept ==
  ASSUME TypeServer, TypeServer', Kept, names <= names', texts <= texts', texts \in Nat, texts' \in Nat,
         NEW r \in Row, RowFits(r)
  PROVE  /\ r.text <= texts' /\ r.href <= names' /\ r.marker <= names'
         /\ r.href = 0 => r.etag = 0
         /\ r.etag # 0 => r.etag <= Len(history'[r.href]) /\ history'[r.href][r.etag] # 0
<1>1. /\ r.text \in Nat /\ r.href \in Names \cup {0} /\ r.href \in Nat /\ r.marker \in Nat /\ r.etag \in Nat
      /\ names \in Nat /\ names' \in Nat
  BY DEF Row, Texts, Names, TypeServer
<1>2. ASSUME r.etag # 0 PROVE r.etag <= Len(history'[r.href]) /\ history'[r.href][r.etag] # 0
  <2>1. r.href \in Names /\ r.etag <= Len(history[r.href]) /\ history[r.href][r.etag] # 0
    BY <1>1, <1>2 DEF RowFits
  <2>2. /\ Len(history[r.href]) \in Nat /\ Len(history'[r.href]) \in Nat
        /\ Len(history[r.href]) <= Len(history'[r.href])
        /\ \A n \in 1 .. Len(history[r.href]) : history'[r.href][n] = history[r.href][n]
    BY <2>1 DEF Kept, TypeServer
  <2> QED
    BY <1>1, <1>2, <2>1, <2>2
<1> QED
  BY <1>1, <1>2 DEF RowFits

\* The sync moves on with the same queue; the server may come to hold more.
LEMMA MoveInv ==
  ASSUME IInv, TypeServer', Kept, ServerFits', names <= names', TypeSync', sync'.queue = sync.queue,
         sync'.listing = sync.listing, sync.pc # "readback", Phase', HeadFits',
         UNCHANGED <<kind, task, lastId, settler, editor>>,
         UNCHANGED <<byOther, knows, settled, again, cut, root, texts, asked, faults>>
  PROVE  IInv'
<1>a. /\ TypeOK /\ ServerFits /\ TaskFits /\ QueueFits /\ QueueRows /\ Unblocked /\ Phase /\ HeadFits
      /\ ListingFits /\ SettlerFits /\ names \in Nat /\ names' \in Nat /\ texts \in Nat /\ texts' = texts
  BY DEF IInv, TypeOK, TypeServer, TypeGhosts
<1>b. Queued' = Queued /\ HeadId' = HeadId
  BY DEF Queued, HeadId
<1>c. \A p \in Names : Len(history[p]) \in Nat /\ Len(history'[p]) \in Nat
  BY <1>a DEF TypeOK, TypeServer
<1>d. \A k \in Queued :
        /\ sync.queue[k].text \in Nat /\ sync.queue[k].href \in Names \cup {0}
        /\ sync.queue[k].marker \in Nat /\ sync.queue[k].etag \in Nat
  BY <1>a DEF TypeOK, TypeSync, Row, Texts, Names
<1>1. TypeOK'
  BY <1>a DEF TypeOK, TypeStore, TypeBeside, TypeGhosts
<1>2. TaskFits' /\ SettlerFits'
  BY <1>a, KeptFits
<1>3. QueueFits'
  <2> SUFFICES ASSUME NEW k \in Queued
               PROVE  (/\ RowFits(sync.queue[k]) /\ sync.queue[k].pending # "none"
                       /\ sync.queue[k].marker # 0 => kind = "ews"
                       /\ sync.queue[k].marker # 0 /\ sync.queue[k].href # 0 => AtReadBack(k)
                       /\ kind = "ews" /\ sync.queue[k].href # 0 /\ sync.queue[k].etag = 0 => AtReadBack(k))'
    BY <1>b DEF QueueFits
  <2>1. RowFits(sync.queue[k])'
    <3>1. /\ RowFits(sync.queue[k]) /\ sync'.queue[k] = sync.queue[k]
          /\ sync.queue[k].text \in Nat /\ sync.queue[k].href \in Names \cup {0}
          /\ sync.queue[k].marker \in Nat /\ sync.queue[k].etag \in Nat
      BY <1>a, <1>d DEF QueueFits
    <3>2. sync.queue[k] \in Row
      BY <1>a DEF TypeOK, TypeSync
    <3> QED
      BY <1>a, <3>1, <3>2, FitsKept DEF RowFits, TypeOK
  <2> QED
    BY <1>a, <2>1 DEF QueueFits, AtReadBack
<1>4. QueueRows' /\ Unblocked'
  BY <1>a, <1>b DEF QueueRows, Unblocked, AtReadBack
<1>5. ListingFits'
  <2>1. \A p \in Names : sync.listing[p] \in Nat
    BY <1>a DEF TypeOK, TypeSync
  <2> QED
    BY <1>a, <1>c, <2>1 DEF ListingFits, Kept
<1> QED
  BY <1>1, <1>2, <1>3, <1>4, <1>5 DEF IInv

\* The sync is over, or its queue is: nothing of it is left but the listing.
LEMMA OverInv ==
  ASSUME IInv, TypeSync', Queued' = {}, Phase', ListingFits', sync'.pc \notin {"check", "send", "readback", "answer"},
         UNCHANGED <<kind, task, lastId, settler, history, marked, names, byOther, texts>>,
         TypeBeside', TypeGhosts'
  PROVE  IInv'
<1>a. /\ TypeOK /\ ServerFits /\ TaskFits /\ SettlerFits
  BY DEF IInv
<1>1. TypeOK'
  BY <1>a DEF TypeOK, TypeStore, TypeServer
<1>2. ServerFits' /\ TaskFits' /\ SettlerFits'
  BY <1>a DEF ServerFits, TaskFits, SettlerFits, RowFits, RowKept
<1>3. QueueFits' /\ QueueRows' /\ Unblocked' /\ HeadFits'
  BY DEF QueueFits, QueueRows, Unblocked, HeadFits
<1> QED
  BY <1>1, <1>2, <1>3 DEF IInv

\* No sync runs, or one that reads the list.
LEMMA NoSyncFacts ==
  /\ DOMAIN NoSync.queue = {} /\ NoSync.listing = NoListing /\ NoSync.pc = "idle"
  /\ NoListing \in [Names -> Nat] /\ NoSync.queue \in [{} -> Row]
  /\ NoSync \in [pc: {"idle"}, queue: {NoSync.queue}, said: {"none"}, tag: {0}, listing: [Names -> Nat]]
  /\ \A p \in Names : NoListing[p] = 0
BY DEF NoSync, NoRows, NoListing

\* The process ends, the sync fails, or what was written is gone already.
LEMMA IdleInv ==
  ASSUME IInv, sync' = NoSync, UNCHANGED <<kind, task, lastId, settler, history, marked, names, byOther, texts>>,
         TypeBeside', TypeGhosts'
  PROVE  IInv'
<1>1. Queued' = {} /\ sync'.pc = "idle" /\ sync'.listing = NoListing
  BY NoSyncFacts DEF Queued
<1>2. TypeSync'
  BY <1>1, NoSyncFacts DEF TypeSync, Queued
<1>3. Phase' /\ ListingFits'
  BY <1>1, NoSyncFacts DEF Phase, ListingFits
<1> QED
  BY <1>1, <1>2, <1>3, OverInv

\* A request or an answer is lost.
LEMMA SyncFailsInv ==
  ASSUME IInv, SyncFails
  PROVE  IInv'
<1>1. /\ TypeOK /\ UNCHANGED <<kind, task, lastId, settler, editor, history, marked, names>>
      /\ UNCHANGED <<byOther, knows, settled, again, cut, root, texts, asked>>
      /\ sync' = NoSync /\ faults < MaxFaults /\ faults' = faults + 1
  BY DEF IInv, SyncFails, server, ghosts
<1>2. TypeBeside' /\ TypeGhosts'
  BY <1>1, TaskSyncBounds DEF TypeOK, TypeBeside, TypeGhosts
<1> QED
  BY <1>1, <1>2, IdleInv

\* The task just written is gone.
LEMMA EwsReadBackGoneInv ==
  ASSUME IInv, EwsReadBackGone
  PROVE  IInv'
<1>1. /\ TypeOK /\ UNCHANGED <<kind, task, lastId, settler, editor, history, marked, names>>
      /\ UNCHANGED <<byOther, knows, settled, again, cut, root, texts, asked, faults>> /\ sync' = NoSync
  BY DEF IInv, EwsReadBackGone, server, ghosts, bounds
<1>2. TypeBeside' /\ TypeGhosts'
  BY <1>1 DEF TypeOK, TypeBeside, TypeGhosts
<1> QED
  BY <1>1, <1>2, IdleInv

\* The process ends.
LEMMA CrashInv ==
  ASSUME IInv, Crash
  PROVE  IInv'
<1>a. /\ TypeOK /\ ServerFits /\ TaskFits
  BY DEF IInv
<1>1. /\ UNCHANGED <<kind, task, lastId, history, marked, names>>
      /\ UNCHANGED <<byOther, knows, settled, again, cut, root, texts, asked>>
      /\ sync' = NoSync /\ settler' = NoSettler /\ editor' = NoEditor
      /\ faults < MaxFaults /\ faults' = faults + 1
  BY DEF Crash, server, ghosts
<1>2. Queued' = {} /\ sync'.pc = "idle" /\ sync'.listing = NoListing
  BY <1>1, NoSyncFacts DEF Queued
<1>3. TypeSync'
  BY <1>1, <1>2, NoSyncFacts DEF TypeSync, Queued
<1>4. Phase' /\ ListingFits' /\ QueueFits' /\ QueueRows' /\ Unblocked' /\ HeadFits'
  BY <1>2, NoSyncFacts DEF Phase, ListingFits, QueueFits, QueueRows, Unblocked, HeadFits
<1>5. TypeBeside' /\ TypeGhosts' /\ TypeStore' /\ TypeServer' /\ kind' \in Kinds
  <2>1. TypeBeside'
    BY <1>a, <1>1 DEF TypeOK, TypeBeside, TypeStore, NoEditor, NoSettler
  <2>2. TypeGhosts'
    BY <1>a, <1>1, TaskSyncBounds DEF TypeOK, TypeGhosts
  <2>3. TypeStore' /\ TypeServer' /\ kind' \in Kinds
    BY <1>a, <1>1 DEF TypeOK, TypeStore, TypeServer
  <2> QED
    BY <2>1, <2>2, <2>3
<1>6. ServerFits' /\ TaskFits' /\ SettlerFits'
  BY <1>a, <1>1 DEF ServerFits, TaskFits, SettlerFits, RowFits, RowKept, NoSettler
<1> QED
  BY <1>3, <1>4, <1>5, <1>6 DEF IInv, TypeOK

\* Nothing happens on the server.
LEMMA QuietServer ==
  ASSUME IInv, UNCHANGED <<history, marked, names>>, UNCHANGED <<byOther, texts>>
  PROVE  TypeServer' /\ Kept /\ ServerFits' /\ names <= names'
<1>1. TypeServer /\ ServerFits /\ \A p \in Names : Len(history[p]) \in Nat
  BY ThereFacts DEF IInv, TypeOK
<1> QED
  BY <1>1 DEF TypeServer, ServerFits, Kept

\* After the last of the queue the list is read.
LEMMA QueueDoneInv ==
  ASSUME IInv, QueueDone
  PROVE  IInv'
<1>a. TypeSync /\ Phase
  BY DEF IInv, TypeOK
<1>1. /\ UNCHANGED <<kind, task, lastId, settler, editor>> /\ UNCHANGED <<history, marked, names>>
      /\ UNCHANGED <<byOther, knows, settled, again, cut, root, texts, asked, faults>>
      /\ sync.pc = "next" /\ Queued = {}
  BY DEF QueueDone, At, server, ghosts, bounds
<1>2. sync'.pc = "list" /\ sync'.queue = sync.queue /\ sync'.listing = sync.listing /\ TypeSync'
  BY <1>a, <1>1 DEF QueueDone, Go, TypeSync, Queued
<1>3. Phase' /\ HeadFits'
  BY <1>a, <1>1, <1>2 DEF Phase, HeadFits, Queued
<1> QED
  BY <1>1, <1>2, <1>3, QuietServer, MoveInv

\* CalDAV, a task that has a place.
LEMMA HasPlaceInv ==
  ASSUME IInv, HasPlace
  PROVE  IInv'
<1>a. TypeSync /\ Phase
  BY DEF IInv, TypeOK
<1>1. /\ UNCHANGED <<kind, task, lastId, settler, editor>> /\ UNCHANGED <<history, marked, names>>
      /\ UNCHANGED <<byOther, knows, settled, again, cut, root, texts, asked, faults>>
      /\ sync.pc = "next" /\ Queued # {} /\ kind = "caldav" /\ Head1.href # 0
  BY DEF HasPlace, At, server, ghosts, bounds
<1>2. sync'.pc = "send" /\ sync'.queue = sync.queue /\ sync'.listing = sync.listing /\ TypeSync'
  BY <1>a, <1>1 DEF HasPlace, Go, TypeSync, Queued
<1>3. Head1' = Head1 /\ Queued' = Queued
  BY <1>2 DEF Head1, HeadId, Queued
<1>4. Phase' /\ HeadFits'
  BY <1>a, <1>1, <1>2, <1>3 DEF Phase, HeadFits
<1> QED
  BY <1>1, <1>2, <1>4, QuietServer, MoveInv

\* Exchange's delete_task reads the task first.
LEMMA EwsCheckInv ==
  ASSUME IInv, EwsCheck
  PROVE  IInv'
<1>a. TypeSync /\ Phase /\ HeadFits
  BY DEF IInv, TypeOK
<1>1. /\ UNCHANGED <<kind, task, lastId, settler, editor>> /\ UNCHANGED <<history, marked, names>>
      /\ UNCHANGED <<byOther, knows, settled, again, cut, root, texts, asked, faults>>
      /\ sync.pc = "check"
  BY DEF EwsCheck, At, server, ghosts, bounds
<1>c. \/ sync' = [sync EXCEPT !.pc = "answer", !.said = "saved"]
      \/ sync' = [sync EXCEPT !.pc = "answer", !.said = "conflict"]
      \/ sync' = [sync EXCEPT !.pc = "send"]
  BY DEF EwsCheck
<1>2. /\ sync'.pc \in {"send", "answer"} /\ sync'.queue = sync.queue /\ sync'.listing = sync.listing
      /\ TypeSync'
  BY <1>a, <1>1, <1>c DEF TypeSync, Queued
<1>3. Head1' = Head1 /\ Queued' = Queued
  BY <1>2 DEF Head1, HeadId, Queued
<1>4. Phase' /\ HeadFits'
  BY <1>a, <1>1, <1>2, <1>3 DEF Phase, HeadFits
<1> QED
  BY <1>1, <1>2, <1>4, QuietServer, MoveInv

\* A sync starts.
LEMMA SyncStartInv ==
  ASSUME IInv, SyncStart
  PROVE  IInv'
<1>a. /\ TypeOK /\ TypeStore /\ TypeBeside /\ TypeGhosts /\ TaskFits /\ ServerFits /\ SettlerFits
  BY DEF IInv, TypeOK
<1>1. /\ UNCHANGED <<kind, task, lastId, settler, editor>> /\ UNCHANGED <<history, marked, names>>
      /\ UNCHANGED <<byOther, knows, settled, again, cut, root, texts, asked, faults>>
  BY DEF SyncStart, server, ghosts, bounds
<1>t. TypeBeside' /\ TypeGhosts'
  BY <1>a, <1>1 DEF TypeBeside, TypeGhosts
<1>2. CASE Blocked
  <2>1. sync' = [NoSync EXCEPT !.pc = "list"]
    BY <1>2 DEF SyncStart
  <2>2. Queued' = {} /\ sync'.pc = "list" /\ sync'.listing = NoListing /\ TypeSync'
    BY <2>1, NoSyncFacts DEF Queued, TypeSync
  <2>3. Phase' /\ ListingFits'
    BY <2>2, NoSyncFacts DEF Phase, ListingFits
  <2> QED
    BY <1>1, <1>t, <2>2, <2>3, OverInv
<1>3. CASE ~Blocked
  <2>1. sync' = [NoSync EXCEPT !.pc = "next", !.queue = QueueOf]
    BY <1>3 DEF SyncStart
  <2>2. /\ DOMAIN QueueOf = {i \in DOMAIN task : task[i].pending # "none"}
        /\ \A i \in DOMAIN QueueOf : QueueOf[i] = task[i]
        /\ QueueOf \in [DOMAIN QueueOf -> Row]
    BY <1>a DEF QueueOf, TypeStore
  <2>3. /\ sync'.pc = "next" /\ sync'.queue = QueueOf /\ sync'.listing = NoListing /\ Queued' = DOMAIN QueueOf
    BY <2>1, NoSyncFacts DEF Queued
  <2>4. TypeSync'
    <3>1. sync' = [pc |-> "next", queue |-> QueueOf, said |-> "none", tag |-> 0, listing |-> NoListing]
      BY <2>1 DEF NoSync
    <3> QED
      BY <1>a, <1>1, <2>2, <2>3, <3>1, NoSyncFacts DEF TypeSync, Queued, TypeStore
  <2>5. TypeOK'
    BY <1>a, <1>1, <1>t, <2>4 DEF TypeOK, TypeStore, TypeServer
  <2>6. ServerFits' /\ TaskFits' /\ SettlerFits'
    BY <1>a, <1>1 DEF ServerFits, TaskFits, SettlerFits, RowFits, RowKept
  <2>7. QueueFits'
    BY <1>a, <1>1, <2>2, <2>3 DEF QueueFits, TaskFits, RowFits, RowKept
  <2>8. QueueRows'
    <3>1. \A i \in DOMAIN task : task[i].seq \in Nat
      BY <1>a DEF TypeStore, Row
    <3> QED
      BY <1>1, <2>2, <2>3, <3>1 DEF QueueRows
  <2>9. Unblocked'
    BY <1>1, <1>3 DEF Unblocked, Blocked
  <2>10. Phase' /\ HeadFits' /\ ListingFits'
    BY <2>3, NoSyncFacts DEF Phase, HeadFits, ListingFits
  <2> QED
    BY <2>5, <2>6, <2>7, <2>8, <2>9, <2>10 DEF IInv
<1> QED
  BY <1>2, <1>3

\* The list is read.
LEMMA ListsInv ==
  ASSUME IInv, NEW pc \in {"missing", "reconcile"}, NEW l \in [Names -> Nat], sync.pc \in {"list", "missing"},
         pc = "missing" => kind = "ews",
         \A p \in Names : l[p] = 0 \/ l[p] = Tag(p) \/ l[p] = sync.listing[p],
         sync'.pc = pc, Queued' = {}, sync'.listing = l, TypeSync',
         UNCHANGED <<kind, task, lastId, settler, editor>>, UNCHANGED <<history, marked, names>>,
         UNCHANGED <<byOther, knows, settled, again, cut, root, texts, asked, faults>>
  PROVE  IInv'
<1>a. TypeOK /\ ListingFits
  BY DEF IInv
<1>t. TypeBeside' /\ TypeGhosts'
  BY <1>a DEF TypeOK, TypeBeside, TypeGhosts
<1>1. Phase'
  BY DEF Phase
<1>2. ListingFits'
  <2>1. \A p \in Names : Tag(p) # 0 => Tag(p) <= Len(history[p]) /\ history[p][Tag(p)] # 0
    BY <1>a, ThereFacts DEF TypeOK
  <2> QED
    BY <1>a, <2>1 DEF ListingFits
<1> QED
  BY <1>t, <1>1, <1>2, OverInv

\* CalDAV: one request.
LEMMA ListInv ==
  ASSUME IInv, List
  PROVE  IInv'
<1>a. TypeOK
  BY DEF IInv
<1>1. /\ UNCHANGED <<kind, task, lastId, settler, editor>> /\ UNCHANGED <<history, marked, names>>
      /\ UNCHANGED <<byOther, knows, settled, again, cut, root, texts, asked, faults>> /\ sync.pc = "list"
  BY DEF List, At, server, ghosts, bounds
<1> DEFINE l == [p \in Names |-> Tag(p)]
<1>2. l \in [Names -> Nat] /\ \A p \in Names : l[p] = Tag(p)
  BY <1>a, ThereFacts DEF TypeOK
<1>3. sync' = [NoSync EXCEPT !.pc = "reconcile", !.listing = l]
  BY DEF List
<1> HIDE DEF l
<1>4. sync'.pc = "reconcile" /\ Queued' = {} /\ sync'.listing = l /\ TypeSync'
  <2>1. sync' = [pc |-> "reconcile", queue |-> NoSync.queue, said |-> "none", tag |-> 0, listing |-> l]
    BY <1>3 DEF NoSync
  <2> QED
    BY <1>2, <2>1, NoSyncFacts DEF TypeSync, Queued
<1> QED
  BY <1>1, <1>2, <1>4, ListsInv

\* Exchange: page by page.
LEMMA EwsListInv ==
  ASSUME IInv, EwsList
  PROVE  IInv'
<1>a. TypeOK
  BY DEF IInv
<1>1. /\ UNCHANGED <<kind, task, lastId, settler, editor>> /\ UNCHANGED <<history, marked, names>>
      /\ UNCHANGED <<byOther, knows, settled, again, cut, root, texts, asked, faults>>
      /\ sync.pc = "list" /\ kind = "ews"
  BY DEF EwsList, At, server, ghosts, bounds
<1>2. PICK missed \in SUBSET Objects :
        sync' = [NoSync EXCEPT !.pc = "missing",
                      !.listing = [p \in Names |-> IF p \in missed THEN 0 ELSE Tag(p)]]
  BY DEF EwsList
<1> DEFINE l == [p \in Names |-> IF p \in missed THEN 0 ELSE Tag(p)]
<1>3. l \in [Names -> Nat] /\ \A p \in Names : l[p] = 0 \/ l[p] = Tag(p)
  BY <1>a, ThereFacts DEF TypeOK
<1> HIDE DEF l
<1>4. sync'.pc = "missing" /\ Queued' = {} /\ sync'.listing = l /\ TypeSync'
  <2>1. sync' = [pc |-> "missing", queue |-> NoSync.queue, said |-> "none", tag |-> 0, listing |-> l]
    BY <1>2 DEF NoSync, l
  <2> QED
    BY <1>3, <2>1, NoSyncFacts DEF TypeSync, Queued
<1> QED
  BY <1>1, <1>3, <1>4, ListsInv

\* Exchange: what is known here and was not listed.
LEMMA EwsMissingInv ==
  ASSUME IInv, EwsMissing
  PROVE  IInv'
<1>a. TypeOK /\ TypeSync /\ Phase
  BY DEF IInv, TypeOK
<1>1. /\ UNCHANGED <<kind, task, lastId, settler, editor>> /\ UNCHANGED <<history, marked, names>>
      /\ UNCHANGED <<byOther, knows, settled, again, cut, root, texts, asked, faults>> /\ sync.pc = "missing"
  BY DEF EwsMissing, At, server, ghosts, bounds
<1> DEFINE l == [p \in Names |-> IF sync.listing[p] = 0 /\ p \in Hrefs THEN Tag(p) ELSE sync.listing[p]]
<1>2. sync' = [sync EXCEPT !.pc = "reconcile", !.listing = l]
  BY <1>a DEF EwsMissing, TypeSync
<1>3. l \in [Names -> Nat] /\ \A p \in Names : l[p] = sync.listing[p] \/ l[p] = Tag(p)
  BY <1>a, ThereFacts DEF TypeOK, TypeSync
<1> HIDE DEF l
<1>4. sync'.pc = "reconcile" /\ Queued' = {} /\ sync'.listing = l /\ TypeSync'
  BY <1>a, <1>1, <1>2, <1>3 DEF TypeSync, Queued, Phase
<1> QED
  BY <1>1, <1>3, <1>4, ListsInv

-----------------------------------------------------------------------------
(* A sync: the task at the head of the queue.                              *)

\* RowFits, of what the server has after the step.
StaysFit(r) ==
  /\ r.text <= texts' /\ r.href <= names' /\ r.marker <= names'
  /\ r.href = 0 => r.etag = 0
  /\ r.etag # 0 => r.etag <= Len(history'[r.href]) /\ history'[r.href][r.etag] # 0

\* AtReadBack, after the step.
ReadBackNext(h) == sync'.pc = "readback" /\ h = HeadId'

\* A step about the row h at the head of the queue: the others stay as they are.
HeadStep(h) ==
  /\ h = HeadId /\ Queued # {}
  /\ TypeStore' /\ TypeSync' /\ TypeServer' /\ Kept /\ ServerFits' /\ names <= names'
  /\ UNCHANGED <<kind, lastId, settler, editor, byOther, texts>> /\ sync'.listing = sync.listing
  /\ UNCHANGED <<knows, settled, again, cut, root, asked, faults>>
  /\ DOMAIN task' \subseteq DOMAIN task /\ \A i \in DOMAIN task' : i # h => task'[i] = task[i]
  /\ Queued' \subseteq Queued /\ \A k \in Queued' : k # h => sync'.queue[k] = sync.queue[k]

\* It keeps the invariant when the row and its copy are as they should be.
LEMMA HeadStepInv ==
  ASSUME IInv, NEW h, HeadStep(h), Phase', HeadFits',
         h \in DOMAIN task' => /\ StaysFit(task'[h]) /\ RowKept(task'[h])
                               /\ task'[h].conflict \notin Unsettled \/ Queued' = {},
         h \in Queued' =>
            /\ StaysFit(sync'.queue[h]) /\ sync'.queue[h].pending # "none"
            /\ sync'.queue[h].marker # 0 => kind = "ews"
            /\ sync'.queue[h].marker # 0 /\ sync'.queue[h].href # 0 => ReadBackNext(h)
            /\ kind = "ews" /\ sync'.queue[h].href # 0 /\ sync'.queue[h].etag = 0 => ReadBackNext(h),
         h \in Queued' /\ h \in DOMAIN task' =>
            /\ task'[h].pending # "none" /\ sync'.queue[h].seq <= task'[h].seq
            /\ sync'.queue[h].seq = task'[h].seq => sync'.queue[h].text = task'[h].text \/ task'[h].text \in cut
            /\ sync'.queue[h].pending = "delete" => task'[h].pending = "delete"
            /\ sync'.queue[h].marker = task'[h].marker
            /\ sync'.queue[h].href = task'[h].href \/ (ReadBackNext(h) /\ task'[h].href = 0)
  PROVE  IInv'
<1>a. /\ TypeOK /\ TaskFits /\ QueueFits /\ QueueRows /\ Unblocked /\ ListingFits /\ SettlerFits
      /\ TypeStore /\ TypeSync /\ TypeServer
  BY DEF IInv, TypeOK
<1>b. /\ h = HeadId /\ Queued # {} /\ UNCHANGED <<kind, lastId, settler, editor, byOther, texts>>
      /\ UNCHANGED <<knows, settled, again, cut, root, asked, faults>>
      /\ TypeStore' /\ TypeSync' /\ TypeServer' /\ Kept /\ ServerFits' /\ names <= names'
      /\ DOMAIN task' \subseteq DOMAIN task /\ \A i \in DOMAIN task' : i # h => task'[i] = task[i]
      /\ Queued' \subseteq Queued /\ \A k \in Queued' : k # h => sync'.queue[k] = sync.queue[k]
      /\ texts \in Nat /\ texts' = texts /\ sync'.listing = sync.listing
  BY <1>a DEF HeadStep, TypeOK, TypeGhosts
<1>1. TypeOK'
  BY <1>a, <1>b DEF TypeOK, TypeBeside, TypeGhosts
<1>2. TaskFits'
  <2> SUFFICES ASSUME NEW i \in DOMAIN task' PROVE (RowFits(task[i]) /\ RowKept(task[i]))'
    BY DEF TaskFits
  <2>1. CASE i = h
    BY <1>b, <2>1 DEF StaysFit, RowFits, RowKept
  <2>2. CASE i # h
    <3>1. task'[i] = task[i] /\ task[i] \in Row /\ RowFits(task[i]) /\ RowKept(task[i])
      BY <1>a, <1>b, <2>2 DEF TaskFits, TypeStore
    <3>2. StaysFit(task[i])
      BY <1>a, <1>b, <3>1, FitsKept DEF StaysFit
    <3> QED
      BY <1>b, <3>1, <3>2 DEF StaysFit, RowFits, RowKept
  <2> QED
    BY <2>1, <2>2
<1>3. QueueFits'
  <2> SUFFICES ASSUME NEW k \in Queued'
               PROVE  (/\ RowFits(sync.queue[k]) /\ sync.queue[k].pending # "none"
                       /\ sync.queue[k].marker # 0 => kind = "ews"
                       /\ sync.queue[k].marker # 0 /\ sync.queue[k].href # 0 => AtReadBack(k)
                       /\ kind = "ews" /\ sync.queue[k].href # 0 /\ sync.queue[k].etag = 0 => AtReadBack(k))'
    BY DEF QueueFits
  <2>1. CASE k = h
    BY <1>b, <2>1 DEF StaysFit, RowFits, ReadBackNext, AtReadBack
  <2>2. CASE k # h
    <3>1. /\ sync'.queue[k] = sync.queue[k] /\ sync.queue[k] \in Row /\ RowFits(sync.queue[k]) /\ ~AtReadBack(k)
      BY <1>a, <1>b, <2>2 DEF QueueFits, TypeSync, AtReadBack
    <3>2. StaysFit(sync.queue[k])
      BY <1>a, <1>b, <3>1, FitsKept DEF StaysFit
    <3>3. RowFits(sync.queue[k])'
      BY <3>1, <3>2 DEF StaysFit, RowFits
    <3> QED
      BY <1>a, <1>b, <3>1, <3>3 DEF QueueFits
  <2> QED
    BY <2>1, <2>2
<1>4. QueueRows'
  <2> SUFFICES ASSUME NEW k \in Queued', k \in DOMAIN task'
               PROVE  (/\ task[k].pending # "none" /\ sync.queue[k].seq <= task[k].seq
                       /\ sync.queue[k].seq = task[k].seq => sync.queue[k].text = task[k].text \/ task[k].text \in cut
                       /\ sync.queue[k].pending = "delete" => task[k].pending = "delete"
                       /\ sync.queue[k].marker = task[k].marker
                       /\ sync.queue[k].href = task[k].href \/ (AtReadBack(k) /\ task[k].href = 0))'
    BY DEF QueueRows
  <2>1. CASE k = h
    BY <1>b, <2>1 DEF ReadBackNext, AtReadBack
  <2>2. CASE k # h
    BY <1>a, <1>b, <2>2 DEF QueueRows, AtReadBack
  <2> QED
    BY <2>1, <2>2
<1>5. Unblocked'
  BY <1>a, <1>b DEF Unblocked
<1>6. ListingFits'
  <2>1. \A p \in Names : sync.listing[p] \in Nat /\ Len(history[p]) \in Nat /\ Len(history'[p]) \in Nat
    BY <1>a, <1>b DEF TypeSync, TypeServer
  <2> QED
    BY <1>a, <1>b, <2>1 DEF ListingFits, Kept
<1>7. SettlerFits'
  <2>1. settler.href \in Names \cup {0} /\ settler.got \in Nat
    BY <1>a DEF TypeOK, TypeBeside
  <2>2. \A p \in Names : Len(history[p]) \in Nat /\ Len(history'[p]) \in Nat
    BY <1>a, <1>b DEF TypeServer
  <2>3. settler.pc # "idle" => settler.id \notin DOMAIN task'
    BY <1>a, <1>b DEF SettlerFits, Unblocked
  <2> QED
    BY <1>a, <1>b, <2>1, <2>2, <2>3 DEF SettlerFits, Kept, Names
<1> QED
  BY <1>1, <1>2, <1>3, <1>4, <1>5, <1>6, <1>7, <1>b DEF IInv

\* The queue moves on to its next task.
LEMMA NextTaskFacts ==
  ASSUME TypeStore, TypeSync, Queued # {}, NextTask, lastId' = lastId
  PROVE  /\ Queued' = Queued \ {HeadId} /\ \A k \in Queued' : sync'.queue[k] = sync.queue[k]
         /\ sync'.pc = "next" /\ sync'.listing = sync.listing /\ TypeSync'
<1>1. /\ DOMAIN Rest = Queued \ {HeadId} /\ Rest \in [DOMAIN Rest -> Row]
      /\ \A k \in Queued \ {HeadId} : Rest[k] = sync.queue[k]
  BY RestFacts
<1>2. sync' = [sync EXCEPT !.pc = "next", !.queue = Rest, !.said = "none", !.tag = 0]
  BY DEF NextTask
<1>3. /\ sync'.queue = Rest /\ sync'.pc = "next" /\ sync'.listing = sync.listing
      /\ sync' \in [pc: {"next"}, queue: {Rest}, said: {"none"}, tag: {0}, listing: [Names -> Nat]]
  BY <1>2 DEF TypeSync
<1>4. Queued' = DOMAIN Rest
  BY <1>3 DEF Queued
<1> QED
  BY <1>1, <1>3, <1>4 DEF TypeSync

\* The row at the head of the queue is done with, one way or another.
LEMMA DoneInv ==
  ASSUME IInv, NEW h, h = HeadId, Queued # {}, NextTask,
         TypeStore', UNCHANGED <<kind, lastId, settler, editor>>, UNCHANGED <<history, marked, names>>,
         UNCHANGED <<byOther, knows, settled, again, cut, root, texts, asked, faults>>,
         DOMAIN task' \subseteq DOMAIN task, \A i \in DOMAIN task' : i # h => task'[i] = task[i],
         h \in DOMAIN task' => /\ RowFits(task'[h]) /\ RowKept(task'[h]) /\ task'[h].conflict \notin Unsettled
  PROVE  IInv'
<1>a. TypeStore /\ TypeSync /\ Phase
  BY DEF IInv, TypeOK
<1>1. /\ Queued' = Queued \ {HeadId} /\ \A k \in Queued' : sync'.queue[k] = sync.queue[k]
      /\ sync'.pc = "next" /\ sync'.listing = sync.listing /\ TypeSync'
  BY <1>a, NextTaskFacts
<1>2. TypeServer' /\ Kept /\ ServerFits' /\ names <= names'
  BY QuietServer
<1>3. HeadStep(h)
  BY <1>1, <1>2 DEF HeadStep
<1>4. h \in DOMAIN task' => StaysFit(task'[h])
  BY DEF StaysFit, RowFits
<1>5. Phase' /\ HeadFits'
  <2>1. sync'.listing = NoListing
    <3>1. sync.pc \notin {"missing", "reconcile"}
      BY <1>a DEF Phase
    <3> QED
      BY <1>a, <1>1, <3>1 DEF Phase
  <2> QED
    BY <1>1, <2>1 DEF Phase, HeadFits
<1> QED
  BY <1>1, <1>3, <1>4, <1>5, HeadStepInv

\* A deletion of a task the server does not have.
LEMMA DropDeletedInv ==
  ASSUME IInv, DropDeleted
  PROVE  IInv'
<1>a. TypeStore
  BY DEF IInv, TypeOK
<1>1. /\ UNCHANGED <<kind, lastId, settler, editor>> /\ UNCHANGED <<history, marked, names>>
      /\ UNCHANGED <<byOther, knows, settled, again, cut, root, texts, asked, faults>>
      /\ Queued # {} /\ NextTask /\ Drop(HeadId)
  BY DEF DropDeleted, server, ghosts, bounds
<1>2. /\ task' \in [DOMAIN task' -> Row] /\ DOMAIN task' = DOMAIN task \ {HeadId}
      /\ \A i \in DOMAIN task' : task'[i] = task[i]
  BY <1>a, <1>1, DropFacts DEF TypeStore
<1>3. TypeStore'
  BY <1>a, <1>1, <1>2 DEF TypeStore
<1> QED
  BY <1>1, <1>2, <1>3, DoneInv

\* The copy at the head of the queue is replaced.
LEMMA SwapFacts ==
  ASSUME TypeStore, TypeSync, Queued # {}, lastId' = lastId, NEW r \in Row,
         NEW x \in {"route", "send", "readback"},
         sync' = [sync EXCEPT !.pc = x, !.queue = [sync.queue EXCEPT ![HeadId] = r]]
  PROVE  /\ Queued' = Queued /\ HeadId' = HeadId /\ Head1' = r /\ sync'.queue[HeadId] = r
         /\ \A k \in Queued : k # HeadId => sync'.queue[k] = sync.queue[k]
         /\ sync'.pc = x /\ sync'.listing = sync.listing /\ TypeSync'
<1>1. HeadId \in Queued
  BY HeadFacts
<1> DEFINE q == [sync.queue EXCEPT ![HeadId] = r]
<1>2. /\ DOMAIN q = Queued /\ q \in [Queued -> Row] /\ q[HeadId] = r
      /\ \A k \in Queued : k # HeadId => q[k] = sync.queue[k]
  BY <1>1 DEF TypeSync, Queued
<1>3. sync' = [sync EXCEPT !.pc = x, !.queue = q]
  OBVIOUS
<1> HIDE DEF q
<1>4. /\ sync'.queue = q /\ sync'.pc = x /\ sync'.listing = sync.listing
      /\ sync' \in [pc: {x}, queue: {q}, said: {"none", "saved", "conflict"}, tag: Nat, listing: [Names -> Nat]]
  BY <1>3 DEF TypeSync
<1>5. Queued' = Queued /\ HeadId' = HeadId
  BY <1>2, <1>4 DEF Queued, HeadId
<1>6. TypeSync'
  BY <1>2, <1>4, <1>5 DEF TypeSync
<1> QED
  BY <1>2, <1>4, <1>5, <1>6 DEF Head1

\* A row, or its copy, gets a place, a marker and a version.
Placed(r, p, m, e) == [r EXCEPT !.href = p, !.marker = m, !.etag = e]

\* What happens to the row at the head and to its copy then.
PlacesHead(p, m, e, f, x) ==
  /\ Update(HeadId, Placed(task[HeadId], p, m, e))
  /\ sync' = [sync EXCEPT !.pc = x, !.queue = [sync.queue EXCEPT ![HeadId] = Placed(Head1, p, m, f)]]

\* The row at the head and its copy get the same place, marker and version.
LEMMA PlaceInv ==
  ASSUME IInv, Queued # {}, NEW p \in Names \cup {0}, NEW m \in Names \cup {0}, NEW e \in Nat, NEW f \in Nat,
         NEW x \in {"route", "send"}, sync.pc \in {"next", "route"},
         UNCHANGED <<kind, lastId, settler, editor>>, UNCHANGED <<history, marked>>,
         UNCHANGED <<byOther, knows, settled, again, cut, root, texts, asked, faults>>,
         names <= names', names' \in 0 .. MaxNames, p <= names', m <= names',
         x = "route" => kind = "ews", x = "send" => p # 0 \/ (m # 0 /\ kind = "ews" /\ Head1.pending = "put"),
         m # 0 => kind = "ews" /\ p = 0, p = 0 => e = 0 /\ f = 0, kind = "ews" /\ p # 0 => e # 0 /\ f # 0,
         e # 0 => e <= Len(history[p]) /\ history[p][e] # 0,
         f # 0 => f <= Len(history[p]) /\ history[p][f] # 0,
         PlacesHead(p, m, e, f, x)
  PROVE  IInv'
<1>a. /\ TypeStore /\ TypeSync /\ TypeServer /\ Phase /\ Unblocked /\ QueueFits /\ QueueRows /\ ServerFits
      /\ TaskFits /\ names \in Nat /\ names' \in Nat /\ texts \in Nat
  BY DEF IInv, TypeOK, TypeServer, TypeGhosts
<1>b. HeadId \in Queued /\ Head1 \in Row /\ Head1 = sync.queue[HeadId]
  BY <1>a, HeadFacts DEF Head1
<1> DEFINE h == HeadId
           r == Placed(task[h], p, m, e)
           c == Placed(Head1, p, m, f)
<1>c. /\ c \in Row /\ c.href = p /\ c.marker = m /\ c.etag = f /\ c.text = Head1.text /\ c.seq = Head1.seq
      /\ c.pending = Head1.pending
  <2> HIDE DEF h, r
  <2> QED
    BY <1>b DEF Placed, Row
<1>d. h \in DOMAIN task =>
        /\ r \in Row /\ r.href = p /\ r.marker = m /\ r.etag = e /\ r.text = task[h].text /\ r.seq = task[h].seq
        /\ r.pending = task[h].pending /\ r.conflict = task[h].conflict
  <2>1. h \in DOMAIN task => task[h] \in Row
    BY <1>a DEF TypeStore
  <2> HIDE DEF h, c
  <2> QED
    BY <2>1 DEF Placed, Row
<1>e. /\ Update(h, r) /\ sync' = [sync EXCEPT !.pc = x, !.queue = [sync.queue EXCEPT ![HeadId] = c]]
  BY DEF PlacesHead
<1> HIDE DEF r, c
<1>1. /\ task' \in [DOMAIN task' -> Row] /\ DOMAIN task' = DOMAIN task
      /\ h \in DOMAIN task => task'[h] = r
      /\ \A i \in DOMAIN task : i # h => task'[i] = task[i]
  BY <1>a, <1>d, <1>e, UpdateFacts DEF TypeStore
<1>2. /\ Queued' = Queued /\ HeadId' = HeadId /\ Head1' = c /\ sync'.queue[h] = c
      /\ \A k \in Queued : k # HeadId => sync'.queue[k] = sync.queue[k]
      /\ sync'.pc = x /\ sync'.listing = sync.listing /\ TypeSync'
  <2>1. x \in {"route", "send", "readback"}
    OBVIOUS
  <2> QED
    BY <1>a, <1>c, <1>e, <2>1, SwapFacts
<1>3. TypeServer' /\ Kept /\ ServerFits'
  <2>1. \A q \in Names : Len(history[q]) \in Nat /\ q \in Nat
    BY <1>a DEF TypeServer, Names
  <2> QED
    BY <1>a, <2>1 DEF TypeServer, Kept, ServerFits
<1>4. HeadStep(h)
  BY <1>a, <1>1, <1>2, <1>3 DEF HeadStep, TypeStore
<1>5. StaysFit(c) /\ (h \in DOMAIN task => StaysFit(r))
  <2>1. Head1.text <= texts /\ (h \in DOMAIN task => task[h].text <= texts)
    BY <1>a, <1>b DEF QueueFits, TaskFits, RowFits
  <2> QED
    BY <1>c, <1>d, <2>1 DEF StaysFit
<1>6. h \in DOMAIN task => RowKept(r) /\ r.conflict \notin Unsettled
  BY <1>a, <1>d DEF RowKept, Unblocked
<1>7. Phase' /\ HeadFits'
  BY <1>a, <1>c, <1>2 DEF Phase, HeadFits
<1>8. c.pending # "none" /\ (c.marker # 0 => kind = "ews") /\ ~(c.marker # 0 /\ c.href # 0)
      /\ ~(kind = "ews" /\ c.href # 0 /\ c.etag = 0)
  BY <1>a, <1>b, <1>c DEF QueueFits
<1>9. h \in DOMAIN task =>
            /\ r.pending # "none" /\ c.seq <= r.seq
            /\ c.seq = r.seq => c.text = r.text \/ r.text \in cut
            /\ c.pending = "delete" => r.pending = "delete"
            /\ c.marker = r.marker
            /\ c.href = r.href
  BY <1>a, <1>b, <1>c, <1>d DEF QueueRows
<1> HIDE DEF h
<1> QED
  BY <1>1, <1>2, <1>4, <1>5, <1>6, <1>7, <1>8, <1>9, HeadStepInv

\* A new place or marker.
LEMMA NewNameFacts ==
  ASSUME TypeServer, NewName
  PROVE  /\ names' = names + 1 /\ names' \in Names /\ names' \in 0 .. MaxNames /\ names <= names'
         /\ names \in Nat /\ names' # 0
BY TaskSyncBounds DEF TypeServer, NewName, Names

\* CalDAV, a new task: its place.
LEMMA KeepPlaceInv ==
  ASSUME IInv, KeepPlace
  PROVE  IInv'
<1>a. /\ TypeStore /\ TypeSync /\ TypeServer /\ QueueFits /\ QueueRows /\ TaskFits
  BY DEF IInv, TypeOK
<1>1. /\ UNCHANGED <<kind, lastId, settler, editor>> /\ UNCHANGED <<history, marked>>
      /\ UNCHANGED <<byOther, knows, settled, again, cut, root, texts, asked, faults>>
      /\ Queued # {} /\ sync.pc = "next" /\ kind = "caldav" /\ NewName /\ Head1.href = 0
      /\ Update(HeadId, [task[HeadId] EXCEPT !.href = names'])
      /\ sync' = [sync EXCEPT !.pc = "send", !.queue[HeadId].href = names']
  BY DEF KeepPlace, At, ghosts, bounds
<1>b. HeadId \in Queued /\ Head1 \in Row /\ Head1 = sync.queue[HeadId]
  BY <1>a, <1>1, HeadFacts DEF Head1
<1>2. names' \in Names /\ names' \in 0 .. MaxNames /\ names <= names' /\ names' # 0 /\ names \in Nat
  BY <1>a, <1>1, NewNameFacts
<1>3. Head1.marker = 0 /\ Head1.etag = 0
  BY <1>a, <1>1, <1>b DEF QueueFits, RowFits
<1>4. HeadId \in DOMAIN task => task[HeadId].marker = 0 /\ task[HeadId].etag = 0 /\ task[HeadId] \in Row
  BY <1>a, <1>1, <1>b, <1>3 DEF QueueRows, TaskFits, RowFits, TypeStore, AtReadBack
<1>5. Head1 = [text |-> Head1.text, href |-> Head1.href, marker |-> 0, etag |-> 0, pending |-> Head1.pending,
               conflict |-> Head1.conflict, seq |-> Head1.seq, revision |-> Head1.revision]
  BY <1>b, <1>3 DEF Row
<1>6. Placed(Head1, names', 0, 0) = [Head1 EXCEPT !.href = names']
  BY <1>b, <1>3, <1>5 DEF Placed
<1>7. HeadId \in DOMAIN task => Placed(task[HeadId], names', 0, 0) = [task[HeadId] EXCEPT !.href = names']
  BY <1>4 DEF Placed, Row
<1>8. Update(HeadId, Placed(task[HeadId], names', 0, 0))
  BY <1>1, <1>7 DEF Update
<1>9. sync' = [sync EXCEPT !.pc = "send", !.queue = [sync.queue EXCEPT ![HeadId] = Placed(Head1, names', 0, 0)]]
  BY <1>1, <1>b, <1>6
<1>10. PlacesHead(names', 0, 0, 0, "send")
  BY <1>8, <1>9 DEF PlacesHead
<1> QED
  <2>1. /\ "send" \in {"route", "send"} /\ 0 \in Nat /\ 0 <= names' /\ "send" # "route"
        /\ names' <= names' /\ sync.pc \in {"next", "route"} /\ kind # "ews" /\ names' \in Names \cup {0}
        /\ 0 \in Names \cup {0}
    BY <1>1, <1>2
  <2> QED
    BY <1>1, <1>2, <1>10, <2>1, PlaceInv

\* The sync goes on with the same queue and an untouched store.
LEMMA GoInv ==
  ASSUME IInv, Queued # {}, sync.pc # "readback", NEW x \in {"route", "check", "send", "readback"}, Go(x),
         x = "readback" => kind = "ews" /\ Head1.pending = "put" /\ Head1.href # 0 /\ Said(Head1.text, Head1.href),
         x \in {"route", "check"} => kind = "ews",
         x = "check" => Head1.pending = "delete" /\ Head1.href # 0,
         x = "send" => /\ kind = "caldav" \/ Head1.pending = "delete" => Head1.href # 0
                       /\ kind = "ews" /\ Head1.href = 0 => Head1.marker # 0,
         UNCHANGED <<kind, task, lastId, settler, editor>>, UNCHANGED <<history, marked, names>>,
         UNCHANGED <<byOther, knows, settled, again, cut, root, texts, asked, faults>>
  PROVE  IInv'
<1>a. TypeSync /\ Phase
  BY DEF IInv, TypeOK
<1>2. sync'.pc = x /\ sync'.queue = sync.queue /\ sync'.listing = sync.listing /\ TypeSync'
  BY <1>a DEF Go, TypeSync, Queued
<1>3. Head1' = Head1 /\ Queued' = Queued
  BY <1>2 DEF Head1, HeadId, Queued
<1>4. Said(Head1.text, Head1.href) => Said(Head1.text, Head1.href)'
  BY <1>3 DEF Said
<1>5. Phase' /\ HeadFits'
  BY <1>a, <1>2, <1>3, <1>4 DEF Phase, HeadFits
<1> QED
  BY <1>2, <1>5, QuietServer, MoveInv

\* Exchange, a creation whose answer was lost.
LEMMA EwsFindInv ==
  ASSUME IInv, EwsFind
  PROVE  IInv'
<1>a. /\ TypeStore /\ TypeSync /\ TypeServer /\ QueueFits /\ QueueRows /\ TaskFits /\ ServerFits
  BY DEF IInv, TypeOK
<1>1. /\ UNCHANGED <<kind, lastId, settler, editor>> /\ UNCHANGED <<history, marked, names>>
      /\ UNCHANGED <<byOther, knows, settled, again, cut, root, texts, asked, faults>>
      /\ Queued # {} /\ sync.pc = "next" /\ kind = "ews"
  BY DEF EwsFind, At, ghosts, bounds, server
<1>2. \/ Go("route") /\ UNCHANGED task
      \/ \E p \in Objects :
          /\ Update(HeadId, Placed(task[HeadId], p, 0, Version(p)))
          /\ sync' = [sync EXCEPT !.pc = "route", !.queue[HeadId] = Placed(Head1, p, 0, Version(p))]
  BY DEF EwsFind, Placed
<1>3. CASE Go("route") /\ UNCHANGED task
  <2>1. "route" \in {"route", "check", "send", "readback"}
    OBVIOUS
  <2> QED
    BY <1>1, <1>3, <2>1, GoInv
<1>4. CASE \E p \in Objects :
          /\ Update(HeadId, Placed(task[HeadId], p, 0, Version(p)))
          /\ sync' = [sync EXCEPT !.pc = "route", !.queue[HeadId] = Placed(Head1, p, 0, Version(p))]
  <2>1. PICK p \in Objects :
          /\ Update(HeadId, Placed(task[HeadId], p, 0, Version(p)))
          /\ sync' = [sync EXCEPT !.pc = "route", !.queue[HeadId] = Placed(Head1, p, 0, Version(p))]
    BY <1>4
  <2> DEFINE v == Version(p)
  <2>2. p \in Names /\ There(p)
    BY DEF Objects
  <2>3. v \in Nat /\ v # 0 /\ v <= Len(history[p]) /\ history[p][v] # 0 /\ v = Len(history[p])
    BY <1>a, <2>2, ThereFacts
  <2>4. PlacesHead(p, 0, v, v, "route")
    BY <2>1 DEF PlacesHead
  <2>5. p <= names /\ p # 0 /\ names \in Nat /\ names \in 0 .. MaxNames
    BY <1>a, <2>2, <2>3 DEF ServerFits, Names, TypeServer
  <2> HIDE DEF v
  <2>6. /\ "route" \in {"route", "send"} /\ 0 \in Nat /\ 0 <= names' /\ "route" # "send"
        /\ names <= names' /\ sync.pc \in {"next", "route"} /\ p \in Names \cup {0} /\ p <= names'
        /\ names' \in 0 .. MaxNames /\ 0 \in Names \cup {0}
    BY <1>1, <2>2, <2>5
  <2> QED
    BY <1>1, <2>3, <2>4, <2>5, <2>6, PlaceInv
<1> QED
  BY <1>2, <1>3, <1>4

\* Exchange: what is to be done with the task at the head.
LEMMA EwsRouteInv ==
  ASSUME IInv, EwsRoute
  PROVE  IInv'
<1>a. /\ TypeStore /\ TypeSync /\ TypeServer /\ QueueFits /\ QueueRows /\ TaskFits /\ ServerFits /\ Phase
      /\ Unblocked
  BY DEF IInv, TypeOK
<1>1. /\ UNCHANGED <<kind, lastId, settler, editor>> /\ UNCHANGED <<history, marked>>
      /\ UNCHANGED <<byOther, knows, settled, again, cut, root, texts, asked, faults>>
      /\ sync.pc = "route"
  BY DEF EwsRoute, At, ghosts, bounds
<1>b. Queued # {} /\ kind = "ews"
  BY <1>a, <1>1 DEF Phase
<1>h. HeadId \in Queued /\ Head1 \in Row /\ Head1 = sync.queue[HeadId]
  BY <1>a, <1>b, HeadFacts DEF Head1
<1> DEFINE rejected == [task[HeadId] EXCEPT !.conflict = "rejected", !.marker = IF Head1.href = 0 THEN 0 ELSE @]
<1>2. CASE Head1.pending = "delete" /\ Head1.href = 0 /\ Drop(HeadId) /\ NextTask /\ UNCHANGED names
  <2>2. /\ task' \in [DOMAIN task' -> Row] /\ DOMAIN task' = DOMAIN task \ {HeadId}
        /\ \A i \in DOMAIN task' : task'[i] = task[i]
    BY <1>a, <1>2, DropFacts DEF TypeStore
  <2>3. TypeStore'
    BY <1>a, <1>1, <2>2 DEF TypeStore
  <2> QED
    BY <1>1, <1>b, <1>2, <2>2, <2>3, DoneInv
<1>3. CASE Head1.pending = "delete" /\ Head1.href # 0 /\ Go("check") /\ UNCHANGED <<task, names>>
  <2>1. "check" \in {"route", "check", "send", "readback"}
    OBVIOUS
  <2> QED
    BY <1>1, <1>b, <1>3, <2>1, GoInv
<1>4. CASE Update(HeadId, rejected) /\ NextTask /\ UNCHANGED names
  <2> DEFINE m == IF Head1.href = 0 THEN 0 ELSE task[HeadId].marker
  <2>1. HeadId \in DOMAIN task => task[HeadId] \in Row /\ m \in Names \cup {0} /\ (m = 0 \/ m = task[HeadId].marker)
    BY <1>a DEF TypeStore, Row
  <2>2. HeadId \in DOMAIN task => rejected = [task[HeadId] EXCEPT !.conflict = "rejected", !.marker = m]
    BY <2>1 DEF Row
  <2>3. Update(HeadId, rejected)
    BY <1>4
  <2> HIDE DEF rejected, m
  <2>4. HeadId \in DOMAIN task =>
          /\ rejected \in Row /\ rejected.conflict = "rejected" /\ rejected.marker = m
          /\ rejected.text = task[HeadId].text /\ rejected.href = task[HeadId].href
          /\ rejected.etag = task[HeadId].etag
    BY <2>1, <2>2 DEF Row
  <2>5. /\ task' \in [DOMAIN task' -> Row] /\ DOMAIN task' = DOMAIN task
        /\ HeadId \in DOMAIN task => task'[HeadId] = rejected
        /\ \A i \in DOMAIN task : i # HeadId => task'[i] = task[i]
    BY <1>a, <2>3, <2>4, UpdateFacts DEF TypeStore
  <2>6. HeadId \in DOMAIN task => RowFits(rejected) /\ RowKept(rejected) /\ rejected.conflict \notin Unsettled
    <3>1. HeadId \in DOMAIN task => RowFits(task[HeadId]) /\ RowKept(task[HeadId]) /\ names \in Nat
      BY <1>a DEF TaskFits, TypeServer
    <3> QED
      BY <2>1, <2>4, <3>1 DEF RowFits, RowKept, Unsettled
  <2>7. TypeStore'
    BY <1>a, <1>1, <2>5 DEF TypeStore
  <2> QED
    BY <1>1, <1>b, <1>4, <2>5, <2>6, <2>7, DoneInv
<1>5. CASE Head1.pending = "put" /\ Head1.href = 0 /\ Head1.marker # 0 /\ Go("send") /\ UNCHANGED <<task, names>>
  <2>1. "send" \in {"route", "check", "send", "readback"}
    OBVIOUS
  <2> QED
    BY <1>1, <1>b, <1>5, <2>1, GoInv
<1>6. CASE /\ Head1.pending = "put" /\ Head1.href = 0 /\ Head1.marker = 0 /\ NewName
           /\ Update(HeadId, [task[HeadId] EXCEPT !.marker = names'])
           /\ sync' = [sync EXCEPT !.pc = "send", !.queue[HeadId].marker = names']
  <2>2. names' \in Names /\ names' \in 0 .. MaxNames /\ names <= names' /\ names' # 0 /\ names \in Nat
    BY <1>a, <1>6, NewNameFacts
  <2>3. Head1.etag = 0
    BY <1>a, <1>6, <1>h DEF QueueFits, RowFits
  <2>4. HeadId \in DOMAIN task => task[HeadId].href = 0 /\ task[HeadId].etag = 0 /\ task[HeadId] \in Row
    BY <1>a, <1>1, <1>6, <1>h DEF QueueRows, TaskFits, RowFits, TypeStore, AtReadBack
  <2>6. Placed(Head1, 0, names', 0) = [Head1 EXCEPT !.marker = names']
    BY <1>h, <1>6, <2>3 DEF Placed, Row
  <2>7. HeadId \in DOMAIN task => Placed(task[HeadId], 0, names', 0) = [task[HeadId] EXCEPT !.marker = names']
    BY <2>4 DEF Placed, Row
  <2>8. Update(HeadId, Placed(task[HeadId], 0, names', 0))
    BY <1>6, <2>7 DEF Update
  <2>9. sync' = [sync EXCEPT !.pc = "send", !.queue = [sync.queue EXCEPT ![HeadId] = Placed(Head1, 0, names', 0)]]
    BY <1>6, <1>h, <2>6
  <2>10. PlacesHead(0, names', 0, 0, "send")
    BY <2>8, <2>9 DEF PlacesHead
  <2>11. /\ "send" \in {"route", "send"} /\ 0 \in Nat /\ 0 <= names' /\ "send" # "route"
         /\ names' <= names' /\ sync.pc \in {"next", "route"} /\ names' \in Names \cup {0}
         /\ 0 \in Names \cup {0}
    BY <1>1, <2>2
  <2> QED
    BY <1>1, <1>b, <1>6, <2>2, <2>10, <2>11, PlaceInv
<1>7. CASE Head1.pending = "put" /\ Head1.href # 0 /\ Go("send") /\ UNCHANGED <<task, names>>
  <2>1. "send" \in {"route", "check", "send", "readback"}
    OBVIOUS
  <2> QED
    BY <1>1, <1>b, <1>7, <2>1, GoInv
<1>8. CASE Head1.pending = "put" /\ Head1.href # 0 /\ ~Differs(Head1) /\ Go("readback") /\ UNCHANGED <<task, names>>
  <2>1. "readback" \in {"route", "check", "send", "readback"}
    OBVIOUS
  <2>2. Said(Head1.text, Head1.href)
    <3>1. Head1.etag # 0 /\ RowFits(Head1) /\ Head1.etag \in Nat /\ Head1.href \in Names
      BY <1>a, <1>1, <1>b, <1>h, <1>8 DEF QueueFits, AtReadBack, Row
    <3>2. Len(history[Head1.href]) \in Nat
      BY <1>a, <3>1 DEF TypeServer
    <3>3. Head1.etag \in 1 .. Len(history[Head1.href]) /\ history[Head1.href][Head1.etag] = Head1.text
      BY <1>8, <3>1, <3>2 DEF RowFits, Differs
    <3> QED
      BY <3>3 DEF Said
  <2> QED
    BY <1>1, <1>b, <1>8, <2>1, <2>2, GoInv
<1> QED
  BY <1>2, <1>3, <1>4, <1>5, <1>6, <1>7, <1>8, Zenon DEF EwsRoute

-----------------------------------------------------------------------------
(* The server takes, or refuses, what is sent.                             *)

\* One more version of one object.
LEMMA GrowFacts ==
  ASSUME IInv, NEW p \in Names, NEW t \in Texts \cup {0}, history' = [history EXCEPT ![p] = Append(@, t)],
         p <= names', t <= texts', names <= names', names' \in 0 .. MaxNames, texts <= texts', texts' \in Nat,
         marked' \in [Names -> Names \cup {0}], byOther' \subseteq 1 .. texts'
  PROVE  /\ TypeServer' /\ Kept /\ ServerFits'
         /\ Len(history[p]) \in Nat /\ Len(history'[p]) = Len(history[p]) + 1
         /\ history'[p][Len(history[p]) + 1] = t
         /\ \A q \in Names : q # p => history'[q] = history[q]
<1>a. TypeServer /\ ServerFits /\ names \in Nat /\ texts \in Nat
  BY DEF IInv, TypeOK, TypeServer, TypeGhosts
<1>1. /\ history' \in [Names -> Seq(Texts \cup {0})] /\ Kept
      /\ Len(history'[p]) = Len(history[p]) + 1 /\ history'[p][Len(history[p]) + 1] = t
      /\ \A q \in Names : q # p => history'[q] = history[q]
  BY <1>a, AppendFacts
<1>2. TypeServer'
  BY <1>1 DEF TypeServer
<1>3. \A q \in Names : Len(history[q]) \in Nat /\ Len(history'[q]) \in Nat /\ q \in Nat
                       /\ \A k \in 1 .. Len(history[q]) : history[q][k] \in Nat
  <2>1. \A q \in Names : /\ Len(history[q]) \in Nat /\ \A k \in 1 .. Len(history[q]) : history[q][k] \in Texts \cup {0}
    BY <1>a, ThereFacts
  <2>2. \A q \in Names : Len(history'[q]) \in Nat /\ q \in Nat
    BY <1>1 DEF Names
  <2> QED
    BY <2>1, <2>2 DEF Texts
<1>4. ServerFits'
  <2>1. \A q \in Names : Len(history'[q]) # 0 => q <= names'
    BY <1>a, <1>1, <1>3 DEF ServerFits
  <2>2. \A q \in Names : \A k \in 1 .. Len(history'[q]) : history'[q][k] <= texts'
    BY <1>a, <1>1, <1>3 DEF ServerFits, Kept
  <2> QED
    BY <2>1, <2>2 DEF ServerFits
<1> QED
  BY <1>1, <1>2, <1>3, <1>4

\* The answer is on its way.
LEMMA SaysFacts ==
  ASSUME TypeSync, NEW said \in {"saved", "conflict"}, NEW tag \in Nat, Says(said, tag), lastId' = lastId
  PROVE  /\ sync'.pc = "answer" /\ sync'.queue = sync.queue /\ sync'.listing = sync.listing /\ TypeSync'
         /\ sync'.said = said /\ sync'.tag = tag /\ Head1' = Head1 /\ Queued' = Queued
<1>1. /\ sync'.pc = "answer" /\ sync'.queue = sync.queue /\ sync'.listing = sync.listing
      /\ sync'.said = said /\ sync'.tag = tag
      /\ sync' \in [pc: {"answer"}, queue: {sync.queue}, said: {"saved", "conflict"}, tag: Nat,
                    listing: [Names -> Nat]]
  BY DEF Says, TypeSync
<1>2. Head1' = Head1 /\ Queued' = Queued
  BY <1>1 DEF Head1, HeadId, Queued
<1> QED
  BY <1>1, <1>2 DEF TypeSync, Queued

\* CalDAV PUT.
LEMMA ServerPutsInv ==
  ASSUME IInv, ServerPuts
  PROVE  IInv'
<1>a. TypeStore /\ TypeSync /\ TypeServer /\ Phase /\ HeadFits /\ QueueFits /\ ServerFits
  BY DEF IInv, TypeOK
<1>1. /\ UNCHANGED <<kind, task, lastId, settler, editor>> /\ UNCHANGED <<marked, names>>
      /\ UNCHANGED <<byOther, knows, settled, again, cut, root, texts, asked, faults>>
      /\ sync.pc = "send" /\ kind = "caldav" /\ Head1.pending = "put"
  BY DEF ServerPuts, At, ghosts, bounds
<1>b. Queued # {}
  BY <1>a, <1>1 DEF Phase
<1>h. /\ HeadId \in Queued /\ Head1 \in Row /\ Head1 = sync.queue[HeadId] /\ Head1.href \in Names
      /\ Head1.text \in Texts /\ RowFits(Head1)
  BY <1>a, <1>1, <1>b, HeadFacts DEF Head1, HeadFits, Row, QueueFits
<1> DEFINE p == Head1.href
           v == Version(p) + 1
<1>v. v \in Nat /\ v = Len(history[p]) + 1
  BY <1>a, <1>h, ThereFacts
<1>c. \/ history' = [history EXCEPT ![p] = Append(@, Head1.text)] /\ (Says("saved", v) \/ Says("saved", 0))
      \/ Says("conflict", 0) /\ UNCHANGED history
  BY DEF ServerPuts
<1> HIDE DEF v
<1>2. CASE history' = [history EXCEPT ![p] = Append(@, Head1.text)] /\ (Says("saved", v) \/ Says("saved", 0))
  <2>1. PICK tag \in {v, 0} : Says("saved", tag)
    BY <1>2
  <2>2. /\ sync'.pc = "answer" /\ sync'.queue = sync.queue /\ sync'.listing = sync.listing /\ TypeSync'
        /\ sync'.said = "saved" /\ sync'.tag = tag /\ Head1' = Head1 /\ Queued' = Queued
    <3>1. tag \in Nat /\ "saved" \in {"saved", "conflict"}
      BY <1>v
    <3> QED
      BY <1>a, <1>1, <2>1, <3>1, SaysFacts
  <2>3. /\ TypeServer' /\ Kept /\ ServerFits' /\ names <= names'
        /\ Len(history[p]) \in Nat /\ Len(history'[p]) = Len(history[p]) + 1
        /\ history'[p][Len(history[p]) + 1] = Head1.text
    <3>1. p \in Names /\ p <= names' /\ names <= names' /\ names' \in 0 .. MaxNames /\ texts <= texts' /\ texts' \in Nat
          /\ marked' \in [Names -> Names \cup {0}] /\ byOther' \subseteq 1 .. texts' /\ Head1.text <= texts'
          /\ Head1.text \in Texts \cup {0}
      BY <1>a, <1>1, <1>h DEF RowFits, TypeServer, ServerFits, IInv, TypeOK, TypeGhosts
    <3> HIDE DEF p
    <3> QED
      BY <1>2, <3>1, GrowFacts
  <2>4. Phase' /\ HeadFits'
    <3>1. Said(Head1.text, Head1.href)'
      BY <2>2, <2>3 DEF Said
    <3> QED
      BY <1>a, <1>1, <1>b, <1>h, <1>v, <2>2, <2>3, <3>1 DEF Phase, HeadFits
  <2> QED
    BY <1>1, <2>2, <2>3, <2>4, MoveInv
<1>3. CASE Says("conflict", 0) /\ UNCHANGED history
  <2>2. /\ sync'.pc = "answer" /\ sync'.queue = sync.queue /\ sync'.listing = sync.listing /\ TypeSync'
        /\ sync'.said = "conflict" /\ Head1' = Head1 /\ Queued' = Queued
    <3>1. 0 \in Nat /\ "conflict" \in {"saved", "conflict"}
      OBVIOUS
    <3> QED
      BY <1>a, <1>1, <1>3, <3>1, SaysFacts
  <2>4. Phase' /\ HeadFits'
    BY <1>a, <1>1, <1>b, <1>h, <2>2 DEF Phase, HeadFits, Names
  <2> QED
    BY <1>1, <1>3, <2>2, <2>4, QuietServer, MoveInv
<1> QED
  BY <1>c, <1>2, <1>3

\* A DELETE.
LEMMA ServerDeletesInv ==
  ASSUME IInv, ServerDeletes
  PROVE  IInv'
<1>a. TypeStore /\ TypeSync /\ TypeServer /\ Phase /\ HeadFits /\ QueueFits /\ ServerFits
  BY DEF IInv, TypeOK
<1>1. /\ UNCHANGED <<kind, task, lastId, settler, editor>> /\ UNCHANGED <<marked, names>>
      /\ UNCHANGED <<byOther, knows, settled, again, cut, root, texts, asked, faults>>
      /\ sync.pc = "send" /\ Head1.pending = "delete"
  BY DEF ServerDeletes, At, ghosts, bounds
<1>b. Queued # {}
  BY <1>a, <1>1 DEF Phase
<1>h. /\ HeadId \in Queued /\ Head1 \in Row /\ Head1 = sync.queue[HeadId] /\ Head1.href \in Names
      /\ RowFits(Head1) /\ Head1.href # 0
  BY <1>a, <1>1, <1>b, HeadFacts DEF Head1, HeadFits, Row, QueueFits
<1> DEFINE p == Head1.href
<1>c. \/ history' = [history EXCEPT ![p] = Append(@, 0)] /\ Says("saved", 0)
      \/ Says("conflict", 0) /\ UNCHANGED history
      \/ Says("saved", 0) /\ UNCHANGED history
  BY DEF ServerDeletes
<1>d. PICK said \in {"saved", "conflict"} : Says(said, 0)
  BY <1>c
<1>2. /\ sync'.pc = "answer" /\ sync'.queue = sync.queue /\ sync'.listing = sync.listing /\ TypeSync'
      /\ Head1' = Head1 /\ Queued' = Queued
  BY <1>a, <1>1, <1>d, SaysFacts
<1>3. Phase' /\ HeadFits'
  BY <1>a, <1>1, <1>b, <1>h, <1>2 DEF Phase, HeadFits
<1>4. TypeServer' /\ Kept /\ ServerFits' /\ names <= names'
  <2>1. CASE history' = [history EXCEPT ![p] = Append(@, 0)]
    <3>1. p \in Names /\ p <= names' /\ names <= names' /\ names' \in 0 .. MaxNames /\ texts <= texts' /\ texts' \in Nat
          /\ marked' \in [Names -> Names \cup {0}] /\ byOther' \subseteq 1 .. texts' /\ 0 <= texts'
          /\ 0 \in Texts \cup {0}
      BY <1>a, <1>1, <1>h DEF RowFits, TypeServer, ServerFits, IInv, TypeOK, TypeGhosts
    <3> HIDE DEF p
    <3> QED
      BY <2>1, <3>1, GrowFacts
  <2>2. CASE UNCHANGED history
    BY <1>1, <2>2, QuietServer
  <2> QED
    BY <1>c, <2>1, <2>2
<1> QED
  BY <1>1, <1>2, <1>3, <1>4, MoveInv

\* Exchange UpdateItem.
LEMMA EwsUpdatesInv ==
  ASSUME IInv, EwsUpdates
  PROVE  IInv'
<1>a. TypeStore /\ TypeSync /\ TypeServer /\ Phase /\ HeadFits /\ QueueFits /\ ServerFits
  BY DEF IInv, TypeOK
<1>1. /\ UNCHANGED <<kind, task, lastId, settler, editor>> /\ UNCHANGED <<marked, names>>
      /\ UNCHANGED <<byOther, knows, settled, again, cut, root, texts, asked, faults>>
      /\ sync.pc = "send" /\ kind = "ews" /\ Head1.pending = "put" /\ Head1.href # 0
  BY DEF EwsUpdates, At, ghosts, bounds
<1>b. Queued # {}
  BY <1>a, <1>1 DEF Phase
<1>h. /\ HeadId \in Queued /\ Head1 \in Row /\ Head1 = sync.queue[HeadId] /\ Head1.href \in Names
      /\ Head1.text \in Texts /\ RowFits(Head1)
  BY <1>a, <1>1, <1>b, HeadFacts DEF Head1, Row, QueueFits
<1> DEFINE p == Head1.href
<1>c. \/ history' = [history EXCEPT ![p] = Append(@, Head1.text)] /\ Go("readback")
      \/ Says("conflict", 0) /\ UNCHANGED history
  BY DEF EwsUpdates
<1>2. CASE history' = [history EXCEPT ![p] = Append(@, Head1.text)] /\ Go("readback")
  <2>2. sync'.pc = "readback" /\ sync'.queue = sync.queue /\ sync'.listing = sync.listing /\ TypeSync'
    BY <1>a, <1>1, <1>2 DEF Go, TypeSync, Queued
  <2>5. Head1' = Head1 /\ Queued' = Queued
    BY <2>2 DEF Head1, HeadId, Queued
  <2>3. /\ TypeServer' /\ Kept /\ ServerFits' /\ names <= names'
        /\ Len(history[p]) \in Nat /\ Len(history'[p]) = Len(history[p]) + 1
        /\ history'[p][Len(history[p]) + 1] = Head1.text
    <3>1. p \in Names /\ p <= names' /\ names <= names' /\ names' \in 0 .. MaxNames /\ texts <= texts' /\ texts' \in Nat
          /\ marked' \in [Names -> Names \cup {0}] /\ byOther' \subseteq 1 .. texts' /\ Head1.text <= texts'
          /\ Head1.text \in Texts \cup {0}
      BY <1>a, <1>1, <1>h DEF RowFits, TypeServer, ServerFits, IInv, TypeOK, TypeGhosts
    <3> HIDE DEF p
    <3> QED
      BY <1>2, <3>1, GrowFacts
  <2>4. Phase' /\ HeadFits'
    <3>1. Said(Head1.text, Head1.href)'
      BY <2>5, <2>3 DEF Said
    <3> QED
      BY <1>a, <1>1, <1>b, <1>h, <2>2, <2>5, <3>1 DEF Phase, HeadFits
  <2> QED
    BY <1>1, <2>2, <2>3, <2>4, MoveInv
<1>3. CASE Says("conflict", 0) /\ UNCHANGED history
  <2>2. /\ sync'.pc = "answer" /\ sync'.queue = sync.queue /\ sync'.listing = sync.listing /\ TypeSync'
        /\ sync'.said = "conflict" /\ Head1' = Head1 /\ Queued' = Queued
    <3>1. 0 \in Nat /\ "conflict" \in {"saved", "conflict"}
      OBVIOUS
    <3> QED
      BY <1>a, <1>1, <1>3, <3>1, SaysFacts
  <2>4. Phase' /\ HeadFits'
    BY <1>a, <1>1, <1>b, <1>h, <2>2 DEF Phase, HeadFits
  <2> QED
    BY <1>1, <1>3, <2>2, <2>4, QuietServer, MoveInv
<1> QED
  BY <1>c, <1>2, <1>3

\* Exchange CreateItem.
LEMMA EwsCreatesInv ==
  ASSUME IInv, EwsCreates
  PROVE  IInv'
<1>a. /\ TypeStore /\ TypeSync /\ TypeServer /\ Phase /\ HeadFits /\ QueueFits /\ QueueRows /\ ServerFits
      /\ TaskFits /\ Unblocked /\ texts \in Nat
  BY DEF IInv, TypeOK, TypeGhosts
<1>1. /\ UNCHANGED <<kind, task, lastId, settler, editor>>
      /\ UNCHANGED <<byOther, knows, settled, again, cut, root, texts, asked, faults>>
      /\ sync.pc = "send" /\ kind = "ews" /\ Head1.pending = "put" /\ Head1.href = 0 /\ NewName
      /\ history' = [history EXCEPT ![names'] = Append(@, Head1.text)]
      /\ marked' = [marked EXCEPT ![names'] = Head1.marker]
      /\ sync' = [sync EXCEPT !.pc = "readback", !.queue[HeadId].href = names']
  BY DEF EwsCreates, At, ghosts, bounds
<1>b. Queued # {}
  BY <1>a, <1>1 DEF Phase
<1>h. /\ HeadId \in Queued /\ Head1 \in Row /\ Head1 = sync.queue[HeadId] /\ Head1.etag = 0
      /\ Head1.text \in Texts /\ RowFits(Head1) /\ Head1.marker \in Names \cup {0}
  BY <1>a, <1>1, <1>b, HeadFacts DEF Head1, Row, QueueFits, RowFits
<1>n. /\ names' = names + 1 /\ names' \in Names /\ names' \in 0 .. MaxNames /\ names <= names' /\ names \in Nat
      /\ names' # 0
  BY <1>a, <1>1, NewNameFacts
<1> DEFINE h == HeadId
           c == [Head1 EXCEPT !.href = names']
<1>2. sync' = [sync EXCEPT !.pc = "readback", !.queue = [sync.queue EXCEPT ![HeadId] = c]]
  BY <1>1, <1>h
<1>3. /\ c \in Row /\ c.href = names' /\ c.marker = Head1.marker /\ c.etag = 0 /\ c.text = Head1.text
      /\ c.seq = Head1.seq /\ c.pending = "put"
  BY <1>1, <1>h, <1>n DEF Row
<1> HIDE DEF c
<1>4. /\ Queued' = Queued /\ HeadId' = HeadId /\ Head1' = c /\ sync'.queue[HeadId] = c
      /\ \A k \in Queued : k # HeadId => sync'.queue[k] = sync.queue[k]
      /\ sync'.pc = "readback" /\ sync'.listing = sync.listing /\ TypeSync'
  <2>1. "readback" \in {"route", "send", "readback"} /\ lastId' = lastId
    BY <1>1
  <2> QED
    BY <1>a, <1>b, <1>2, <1>3, <2>1, SwapFacts
<1>5. /\ TypeServer' /\ Kept /\ ServerFits' /\ Len(history[names']) \in Nat
      /\ Len(history'[names']) = Len(history[names']) + 1
      /\ history'[names'][Len(history[names']) + 1] = Head1.text
  <2>1. /\ texts <= texts' /\ texts' \in Nat /\ names' <= names' /\ marked' \in [Names -> Names \cup {0}]
        /\ byOther' \subseteq 1 .. texts' /\ Head1.text <= texts' /\ Head1.text \in Texts \cup {0}
    BY <1>a, <1>1, <1>h, <1>n DEF RowFits, TypeServer, ServerFits
  <2> QED
    BY <1>1, <1>n, <2>1, GrowFacts
<1>6. HeadStep(h)
  <2>1. TypeStore'
    BY <1>a, <1>1 DEF TypeStore
  <2> QED
    BY <1>1, <1>b, <1>n, <1>4, <1>5, <2>1 DEF HeadStep
<1>7. StaysFit(c)
  BY <1>1, <1>h, <1>n, <1>3 DEF StaysFit, RowFits, Names
<1>8. h \in DOMAIN task => /\ StaysFit(task[h]) /\ RowKept(task[h]) /\ task[h].conflict \notin Unsettled
                           /\ task[h].href = 0
  <2>1. ASSUME h \in DOMAIN task PROVE StaysFit(task[h])
    <3>1. task[h] \in Row /\ RowFits(task[h]) /\ texts <= texts' /\ texts' \in Nat
      BY <1>a, <1>1, <2>1 DEF TypeStore, TaskFits
    <3> QED
      BY <1>a, <1>n, <1>5, <3>1, FitsKept DEF StaysFit
  <2> QED
    BY <1>a, <1>1, <1>b, <1>h, <2>1 DEF TaskFits, Unblocked, QueueRows, AtReadBack
<1>9. ReadBackNext(h)
  BY <1>4 DEF ReadBackNext
<1>10. Phase' /\ HeadFits'
  <2>1. Said(Head1.text, Head1.href)'
    BY <1>3, <1>4, <1>5 DEF Said
  <2> QED
    BY <1>a, <1>1, <1>b, <1>n, <1>3, <1>4, <2>1 DEF Phase, HeadFits
<1>11. h \in DOMAIN task => /\ task[h].pending # "none" /\ c.seq <= task[h].seq
                            /\ c.seq = task[h].seq => c.text = task[h].text \/ task[h].text \in cut
                            /\ c.marker = task[h].marker
  BY <1>a, <1>h, <1>3 DEF QueueRows
<1>12. h = HeadId /\ task' = task
  BY <1>1
<1> HIDE DEF h
<1>13. /\ sync'.queue[h] = c /\ c.pending # "none" /\ kind = "ews" /\ c.pending # "delete"
  BY <1>1, <1>3, <1>4, <1>12
<1> QED
  BY <1>6, <1>7, <1>8, <1>9, <1>10, <1>11, <1>12, <1>13, HeadStepInv

\* Exchange: the task just written is read.
LEMMA EwsReadBackInv ==
  ASSUME IInv, EwsReadBack
  PROVE  IInv'
<1>a. /\ TypeStore /\ TypeSync /\ TypeServer /\ Phase /\ HeadFits /\ QueueFits /\ QueueRows /\ ServerFits
      /\ TaskFits /\ Unblocked
  BY DEF IInv, TypeOK
<1> DEFINE h == HeadId
           p == Head1.href
           v == Version(p)
           s == Sent(task[h])
           c == IF task[h].conflict = "rejected" THEN "none" ELSE task[h].conflict
           r == [task[h] EXCEPT !.href = p, !.marker = 0, !.etag = v, !.pending = s, !.conflict = c]
<1>1. /\ UNCHANGED <<kind, lastId, settler, editor>> /\ UNCHANGED <<history, marked, names>>
      /\ UNCHANGED <<byOther, knows, settled, again, cut, root, texts, asked, faults>>
      /\ sync.pc = "readback" /\ NextTask /\ There(p)
  BY DEF EwsReadBack, At, ghosts, bounds, server
<1>2. Update(h, [task[h] EXCEPT !.href = p, !.marker = 0, !.etag = v, !.pending = s,
                                !.conflict = IF @ = "rejected" THEN "none" ELSE @])
  BY DEF EwsReadBack
<1>b. Queued # {} /\ kind = "ews"
  BY <1>a, <1>1 DEF Phase
<1>h. /\ h \in Queued /\ Head1 \in Row /\ Head1 = sync.queue[h] /\ p \in Names /\ RowFits(Head1) /\ p # 0
  BY <1>a, <1>1, <1>b, HeadFacts DEF Head1, Row, QueueFits, HeadFits
<1>3. v \in Nat /\ v # 0 /\ v <= Len(history[p]) /\ history[p][v] # 0 /\ p <= names
  BY <1>a, <1>1, <1>h, ThereFacts DEF ServerFits
<1>4. h \in DOMAIN task =>
        /\ task[h] \in Row /\ s \in {"none", "put", "delete"} /\ c \in {"none", "changed", "deleted", "rejected"}
        /\ c \notin Unsettled
  BY <1>a, <1>b DEF TypeStore, Row, Sent, Unblocked, Unsettled
<1>5. h \in DOMAIN task => r = [task[h] EXCEPT !.href = p, !.marker = 0, !.etag = v, !.pending = s,
                                !.conflict = IF @ = "rejected" THEN "none" ELSE @]
  BY <1>4 DEF Row
<1>6. Update(h, r)
  BY <1>2, <1>5 DEF Update
<1> HIDE DEF v, s, c
<1>7. h \in DOMAIN task =>
        /\ r \in Row /\ r.href = p /\ r.marker = 0 /\ r.etag = v /\ r.pending = s /\ r.conflict = c
        /\ r.text = task[h].text
  BY <1>h, <1>3, <1>4 DEF Row
<1> HIDE DEF r
<1>8. /\ task' \in [DOMAIN task' -> Row] /\ DOMAIN task' = DOMAIN task
      /\ h \in DOMAIN task => task'[h] = r
      /\ \A i \in DOMAIN task : i # h => task'[i] = task[i]
  BY <1>a, <1>6, <1>7, UpdateFacts DEF TypeStore
<1>9. h \in DOMAIN task => RowFits(r) /\ RowKept(r) /\ r.conflict \notin Unsettled
  <2>1. h \in DOMAIN task => task[h].text <= texts /\ names \in Nat
    BY <1>a DEF TaskFits, RowFits, TypeServer
  <2> QED
    BY <1>h, <1>3, <1>4, <1>7, <2>1 DEF RowFits, RowKept
<1>10. TypeStore'
  BY <1>a, <1>1, <1>8 DEF TypeStore
<1> HIDE DEF h
<1>11. h = HeadId
  BY DEF h
<1> QED
  BY <1>1, <1>b, <1>8, <1>9, <1>10, <1>11, DoneInv

\* The answer to a write.
LEMMA AnswerInv ==
  ASSUME IInv, Answer
  PROVE  IInv'
<1>a. /\ TypeStore /\ TypeSync /\ TypeServer /\ Phase /\ HeadFits /\ QueueFits /\ QueueRows /\ ServerFits
      /\ TaskFits /\ Unblocked
  BY DEF IInv, TypeOK
<1> DEFINE h == HeadId
<1>1. /\ UNCHANGED <<kind, lastId, settler, editor>> /\ UNCHANGED <<history, marked, names>>
      /\ UNCHANGED <<byOther, knows, settled, again, cut, root, texts, asked, faults>>
      /\ sync.pc = "answer"
  BY DEF Answer, At, ghosts, bounds, server
<1>b. Queued # {}
  BY <1>a, <1>1 DEF Phase
<1>h. /\ h \in Queued /\ Head1 \in Row /\ Head1 = sync.queue[h] /\ Head1.href # 0
  BY <1>a, <1>1, <1>b, HeadFacts DEF Head1, HeadFits
<1>r. h \in DOMAIN task => /\ task[h] \in Row /\ RowFits(task[h]) /\ RowKept(task[h]) /\ task[h].href = Head1.href
                           /\ task[h].pending # "none" /\ task[h].conflict \notin Unsettled
  BY <1>a, <1>1, <1>b, <1>h DEF TypeStore, TaskFits, QueueRows, Unblocked, AtReadBack
<1>2. CASE Update(h, [task[h] EXCEPT !.conflict = "changed"]) /\ sync' = [NoSync EXCEPT !.pc = "list"]
  <2> DEFINE r == [task[h] EXCEPT !.conflict = "changed"]
  <2>1. h \in DOMAIN task =>
          /\ r \in Row /\ r.href = task[h].href /\ r.marker = task[h].marker /\ r.etag = task[h].etag
          /\ r.pending = task[h].pending /\ r.text = task[h].text /\ r.conflict = "changed"
    BY <1>r DEF Row
  <2>2. Update(h, r)
    BY <1>2
  <2> HIDE DEF r
  <2>3. /\ task' \in [DOMAIN task' -> Row] /\ DOMAIN task' = DOMAIN task
        /\ h \in DOMAIN task => task'[h] = r
        /\ \A i \in DOMAIN task : i # h => task'[i] = task[i]
    BY <1>a, <2>1, <2>2, UpdateFacts DEF TypeStore
  <2>4. Queued' = {} /\ sync'.pc = "list" /\ sync'.listing = NoListing /\ TypeSync' /\ sync.listing = NoListing
    BY <1>a, <1>1, <1>2, NoSyncFacts DEF Queued, TypeSync, Phase
  <2>5. TypeServer' /\ Kept /\ ServerFits' /\ names <= names'
    BY <1>1, QuietServer
  <2>6. HeadStep(h)
    BY <1>a, <1>1, <1>b, <2>3, <2>4, <2>5 DEF HeadStep, TypeStore
  <2>7. Phase' /\ HeadFits'
    BY <2>4 DEF Phase, HeadFits
  <2>8. h \in DOMAIN task => StaysFit(r) /\ RowKept(r)
    BY <1>1, <1>h, <1>r, <2>1 DEF StaysFit, RowFits, RowKept
  <2> HIDE DEF h
  <2> QED
    BY <2>3, <2>4, <2>6, <2>7, <2>8, HeadStepInv
<1>3. CASE /\ NextTask
           /\ IF h \in DOMAIN task /\ task[h].pending = "delete" THEN Drop(h) ELSE UNCHANGED task
  <2>1. /\ task' \in [DOMAIN task' -> Row] /\ DOMAIN task' \subseteq DOMAIN task
        /\ \A i \in DOMAIN task' : task'[i] = task[i]
    <3>1. CASE h \in DOMAIN task /\ task[h].pending = "delete"
      BY <1>a, <1>3, <3>1, DropFacts DEF TypeStore
    <3>2. CASE ~(h \in DOMAIN task /\ task[h].pending = "delete")
      BY <1>a, <1>3, <3>2 DEF TypeStore
    <3> QED
      BY <3>1, <3>2
  <2>2. TypeStore'
    BY <1>a, <1>1, <2>1 DEF TypeStore
  <2>3. h \in DOMAIN task' => RowFits(task'[h]) /\ RowKept(task'[h]) /\ task'[h].conflict \notin Unsettled
    BY <1>r, <2>1
  <2> HIDE DEF h
  <2>4. h = HeadId
    BY DEF h
  <2> QED
    BY <1>1, <1>b, <1>3, <2>1, <2>2, <2>3, <2>4, DoneInv
<1>4. CASE /\ sync.said = "saved" /\ Head1.pending = "put"
           /\ Update(h, [task[h] EXCEPT !.etag = sync.tag, !.pending = Sent(task[h])]) /\ NextTask
  <2> DEFINE s == Sent(task[h])
             v == sync.tag
             r == [task[h] EXCEPT !.etag = v, !.pending = s]
  <2>1. /\ h \in DOMAIN task => s \in {"none", "put", "delete"}
        /\ v \in Nat
    BY <1>a, <1>r DEF Sent, TypeSync, Row
  <2>2. Update(h, r)
    BY <1>4
  <2>3. /\ kind = "caldav"
        /\ v # 0 => v <= Len(history[Head1.href]) /\ history[Head1.href][v] = Head1.text
    BY <1>a, <1>1, <1>4 DEF HeadFits
  <2> HIDE DEF s, v
  <2>4. h \in DOMAIN task =>
          /\ r \in Row /\ r.href = task[h].href /\ r.marker = task[h].marker /\ r.etag = v
          /\ r.pending = s /\ r.text = task[h].text /\ r.conflict = task[h].conflict
    BY <1>r, <2>1 DEF Row
  <2> HIDE DEF r
  <2>5. /\ task' \in [DOMAIN task' -> Row] /\ DOMAIN task' = DOMAIN task
        /\ h \in DOMAIN task => task'[h] = r
        /\ \A i \in DOMAIN task : i # h => task'[i] = task[i]
    BY <1>a, <2>2, <2>4, UpdateFacts DEF TypeStore
  <2>6. TypeStore'
    BY <1>a, <1>1, <2>5 DEF TypeStore
  <2>7. Head1.text # 0
    BY <1>h DEF Row, Texts
  <2>8. h \in DOMAIN task => RowFits(r) /\ RowKept(r) /\ r.conflict \notin Unsettled
    BY <1>h, <1>r, <2>1, <2>3, <2>4, <2>7 DEF RowFits, RowKept
  <2> HIDE DEF h
  <2>9. h = HeadId
    BY DEF h
  <2> QED
    BY <1>1, <1>b, <1>4, <2>5, <2>6, <2>8, <2>9, DoneInv
<1> QED
  BY <1>2, <1>3, <1>4, Zenon DEF Answer

-----------------------------------------------------------------------------
(* The listing is reconciled with the rows.                                *)

\* A row takes another client's version, and one waits for the person.
LEMMA TakenFacts ==
  ASSUME NEW r \in Row, NEW p \in Names, NEW tag \in Nat, history[p][tag] \in Texts
  PROVE  /\ Taken(r, p, tag) \in Row /\ Taken(r, p, tag).text = history[p][tag] /\ Taken(r, p, tag).href = p
         /\ Taken(r, p, tag).marker = 0 /\ Taken(r, p, tag).etag = tag /\ Taken(r, p, tag).pending = "none"
         /\ Taken(r, p, tag).conflict = "none" /\ Taken(r, p, tag).seq = r.seq
         /\ Taken(r, p, tag).revision = r.revision + 1
<1> DEFINE t == history[p][tag]
           n == r.revision + 1
           e == [r EXCEPT !.text = t, !.href = p, !.marker = 0, !.etag = tag, !.pending = "none",
                          !.conflict = "none", !.revision = n]
<1>1. t \in Texts /\ n \in Nat
  BY DEF Row
<1>2. Taken(r, p, tag) = e
  BY DEF Taken, Row
<1> HIDE DEF t, n
<1>3. /\ e \in Row /\ e.text = t /\ e.href = p /\ e.marker = 0 /\ e.etag = tag /\ e.pending = "none"
      /\ e.conflict = "none" /\ e.seq = r.seq /\ e.revision = n
  BY <1>1 DEF Row
<1> HIDE DEF e
<1> QED
  BY <1>2, <1>3 DEF t, n

\* An object not known here becomes a row.
LEMMA CopyFacts ==
  ASSUME NEW p \in Names, NEW tag \in Nat, history[p][tag] \in Texts
  PROVE  /\ Copy(p, tag) \in Row /\ Copy(p, tag).text = history[p][tag] /\ Copy(p, tag).href = p
         /\ Copy(p, tag).marker = 0 /\ Copy(p, tag).etag = tag /\ Copy(p, tag).pending = "none"
         /\ Copy(p, tag).conflict = "none" /\ Copy(p, tag).seq = 0
BY DEF Copy, Row

\* The same row, waiting for the person.
Waits(r, c) == [r EXCEPT !.conflict = c]

\* What may become of a row that stays: nothing; the object its lost creation
\* made is its own; it takes the version listed; or it waits for the person.
Adopted(i) ==
  /\ task[i].href = 0
  /\ \E p \in Names : Adopts(i, p) /\ task'[i] = Placed(task[i], p, 0, sync.listing[p])
Took(i) ==
  /\ task[i].href \in Names /\ sync.listing[task[i].href] # 0 /\ task[i].pending = "none"
  /\ task'[i] = Taken(task[i], task[i].href, sync.listing[task[i].href])
Held(i) ==
  /\ task[i].href # 0 /\ task[i].pending # "none"
  /\ \E c \in Unsettled : task'[i] = Waits(task[i], c)

\* An object of the listing that no row is, and the row made of it.
Unknown(p) == p \in Names /\ sync.listing[p] # 0 /\ p \notin Hrefs /\ \A i \in DOMAIN task : ~Adopts(i, p)
Listed(i, p) == Unknown(p) /\ task'[i] = Copy(p, sync.listing[p])

\* The rows after the listing is reconciled.
ReconcileStep ==
  /\ lastId' \in 0 .. MaxRows /\ lastId <= lastId'
  /\ DOMAIN task' \subseteq 1 .. lastId'
  /\ \A i \in DOMAIN task' :
       \/ i \in DOMAIN task /\ (task'[i] = task[i] \/ Adopted(i) \/ Took(i) \/ Held(i))
       \/ i \notin DOMAIN task /\ i > lastId /\ \E p \in Names : Listed(i, p)
  /\ \A i \in DOMAIN task : i \notin DOMAIN task' => Gone(task[i])
  /\ \A i, j \in DOMAIN task' : \A p \in Names :
       i \notin DOMAIN task /\ j \notin DOMAIN task /\ i # j => ~(Listed(i, p) /\ Listed(j, p))

\* What becomes of one row.
LEMMA ReconciledFacts ==
  ASSUME IInv, sync.pc = "reconcile", NEW i \in DOMAIN task, ~Gone(task[i]), task'[i] = Reconciled(i)
  PROVE  task'[i] = task[i] \/ Adopted(i) \/ Took(i) \/ Held(i)
<1>a. TypeStore /\ TypeSync /\ TaskFits /\ task[i] \in Row
  BY DEF IInv, TypeOK, TypeStore
<1>b. task[i].href \in Names \cup {0} /\ 0 \notin Names /\ task[i].pending \in {"none", "put", "delete"}
  BY <1>a DEF Row, Names
<1> DEFINE row == task[i]
           tag == IF row.href = 0 THEN 0 ELSE sync.listing[row.href]
           ours == {p \in Names : Adopts(i, p)}
<1>1. CASE row.href = 0 /\ ours # {}
  <2> DEFINE p == CHOOSE p \in ours : TRUE
  <2>1. p \in ours
    BY <1>1
  <2>2. Reconciled(i) = Placed(row, p, 0, sync.listing[p])
    BY <1>1 DEF Reconciled, Placed
  <2> HIDE DEF p
  <2>3. p \in Names /\ Adopts(i, p)
    BY <2>1
  <2> QED
    BY <1>1, <2>2, <2>3 DEF Adopted
<1>2. CASE row.href = 0 /\ ours = {}
  BY <1>2 DEF Reconciled
<1>3. CASE tag # 0 /\ tag = row.etag
  BY <1>3 DEF Reconciled
<1>4. CASE tag # 0 /\ tag # row.etag /\ row.pending = "none"
  <2>1. Reconciled(i) = Taken(row, row.href, tag) /\ row.href # 0 /\ tag = sync.listing[row.href]
    BY <1>4 DEF Reconciled
  <2> HIDE DEF tag
  <2> QED
    BY <1>b, <1>4, <2>1 DEF Took
<1>5. CASE tag # 0 /\ tag # row.etag /\ row.pending # "none"
  <2>1. Reconciled(i) = Waits(row, "changed") /\ row.href # 0
    BY <1>5 DEF Reconciled, Waits
  <2> QED
    BY <1>5, <2>1 DEF Held, Unsettled
<1>6. CASE tag = 0 /\ row.href # 0
  <2>1. row.pending # "none"
    BY <1>6 DEF Gone
  <2>2. Reconciled(i) = row \/ Reconciled(i) = Waits(row, "deleted")
    BY <1>6 DEF Reconciled, Waits
  <2> QED
    BY <1>6, <2>1, <2>2 DEF Held, Unsettled
<1> QED
  BY <1>1, <1>2, <1>3, <1>4, <1>5, <1>6

\* What becomes of the table.
LEMMA ReconcileFacts ==
  ASSUME IInv, Reconcile
  PROVE  /\ sync.pc = "reconcile" /\ ReconcileStep
         /\ UNCHANGED <<kind, settler, editor>> /\ UNCHANGED <<history, marked, names>>
         /\ UNCHANGED <<byOther, knows, settled, again, cut, root, texts, asked, faults>> /\ sync' = NoSync
<1>a. TypeStore /\ TypeSync
  BY DEF IInv, TypeOK
<1>1. /\ UNCHANGED <<kind, settler, editor>> /\ UNCHANGED <<history, marked, names>>
      /\ UNCHANGED <<byOther, knows, settled, again, cut, root, texts, asked, faults>> /\ sync' = NoSync
      /\ sync.pc = "reconcile"
  BY DEF Reconcile, At, server, ghosts, bounds
<1> DEFINE new == {p \in Names : Unknown(p)}
           stay == {i \in DOMAIN task : ~Gone(task[i])}
<1>2. PICK order \in SetToSeqs(new) :
         /\ lastId' = lastId + Cardinality(new) /\ lastId' <= MaxRows
         /\ task' = [i \in stay \cup (lastId + 1 .. lastId') |->
                       IF i \in stay THEN Reconciled(i)
                       ELSE Copy(order[i - lastId], sync.listing[order[i - lastId]])]
  <2>1. new = {p \in Names : /\ sync.listing[p] # 0 /\ p \notin Hrefs
                             /\ \A i \in DOMAIN task : ~Adopts(i, p)}
    BY DEF Unknown
  <2> HIDE DEF new
  <2> QED
    BY <2>1 DEF Reconcile
<1>3. /\ order \in [1 .. Cardinality(new) -> new]
      /\ \A m, n \in 1 .. Cardinality(new) : m # n => order[m] # order[n]
  BY DEF SetToSeqs, IsInjective
<1>4. Cardinality(new) \in Nat /\ lastId \in Nat
  <2>1. IsFiniteSet(Names) /\ new \subseteq Names
    BY FS_Interval, TaskSyncBounds DEF Names
  <2> HIDE DEF new
  <2> QED
    BY <1>a, <2>1, FS_Subset, FS_CardinalityType DEF TypeStore
<1>5. \A p \in new : p \in Names /\ Unknown(p)
  OBVIOUS
<1> HIDE DEF new
<1>6. /\ DOMAIN task' = stay \cup (lastId + 1 .. lastId')
      /\ \A i \in stay : task'[i] = Reconciled(i)
      /\ \A i \in lastId + 1 .. lastId' : i \notin stay =>
            task'[i] = Copy(order[i - lastId], sync.listing[order[i - lastId]])
  BY <1>2
<1>7. \A i \in DOMAIN task : i \in Nat /\ i <= lastId /\ i >= 1
  BY <1>a DEF TypeStore
<1>8. /\ lastId' \in 0 .. MaxRows /\ lastId <= lastId' /\ DOMAIN task' \subseteq 1 .. lastId'
  BY <1>2, <1>4, <1>6, <1>7, TaskSyncBounds
<1>9. \A i \in DOMAIN task' : i \notin DOMAIN task =>
         /\ i > lastId /\ i - lastId \in 1 .. Cardinality(new) /\ order[i - lastId] \in new
         /\ task'[i] = Copy(order[i - lastId], sync.listing[order[i - lastId]])
  BY <1>2, <1>3, <1>4, <1>6, <1>7
<1>10. \A i \in DOMAIN task' :
         \/ i \in DOMAIN task /\ (task'[i] = task[i] \/ Adopted(i) \/ Took(i) \/ Held(i))
         \/ i \notin DOMAIN task /\ i > lastId /\ \E p \in Names : Listed(i, p)
  <2> SUFFICES ASSUME NEW i \in DOMAIN task'
               PROVE  \/ i \in DOMAIN task /\ (task'[i] = task[i] \/ Adopted(i) \/ Took(i) \/ Held(i))
                      \/ i \notin DOMAIN task /\ i > lastId /\ \E p \in Names : Listed(i, p)
    OBVIOUS
  <2>1. CASE i \in DOMAIN task
    <3>1. i \in stay /\ task'[i] = Reconciled(i) /\ ~Gone(task[i])
      BY <1>4, <1>6, <1>7, <2>1
    <3> QED
      BY <1>1, <2>1, <3>1, ReconciledFacts
  <2>2. CASE i \notin DOMAIN task
    BY <1>5, <1>9, <2>2 DEF Listed
  <2> QED
    BY <2>1, <2>2
<1>11. \A i \in DOMAIN task : i \notin DOMAIN task' => Gone(task[i])
  BY <1>6
<1>12. \A i, j \in DOMAIN task' : \A p \in Names :
         i \notin DOMAIN task /\ j \notin DOMAIN task /\ i # j => ~(Listed(i, p) /\ Listed(j, p))
  <2> SUFFICES ASSUME NEW i \in DOMAIN task', NEW j \in DOMAIN task', NEW p \in Names, i \notin DOMAIN task,
                      j \notin DOMAIN task, i # j, Listed(i, p), Listed(j, p)
               PROVE  FALSE
    OBVIOUS
  <2>1. /\ i - lastId \in 1 .. Cardinality(new) /\ j - lastId \in 1 .. Cardinality(new)
        /\ i \in Nat /\ j \in Nat /\ i - lastId # j - lastId
    BY <1>4, <1>8, <1>9
  <2>2. order[i - lastId] # order[j - lastId]
    BY <1>3, <2>1
  <2>3. task'[i].href = order[i - lastId] /\ task'[j].href = order[j - lastId]
    BY <1>9 DEF Copy
  <2>4. task'[i].href = p /\ task'[j].href = p
    BY DEF Listed, Copy
  <2> QED
    BY <2>2, <2>3, <2>4
<1> QED
  BY <1>1, <1>8, <1>10, <1>11, <1>12 DEF ReconcileStep

\* One row after the listing is reconciled.
LEMMA RowAfterFacts ==
  ASSUME IInv, ReconcileStep, NEW i \in DOMAIN task'
  PROVE  /\ task'[i] \in Row /\ RowFits(task'[i]) /\ RowKept(task'[i])
         /\ i \in DOMAIN task /\ task[i].conflict \in Unsettled =>
              /\ task'[i].conflict \in Unsettled /\ task'[i].href = task[i].href
              /\ task'[i].pending = task[i].pending
<1>a. /\ TypeStore /\ TypeSync /\ TypeServer /\ TaskFits /\ ListingFits /\ ServerFits
      /\ \A j \in DOMAIN task : task[j] \in Row /\ RowFits(task[j]) /\ RowKept(task[j])
      /\ texts \in Nat /\ names \in Nat
  BY DEF IInv, TypeOK, TypeStore, TaskFits, TypeServer, TypeGhosts
<1>b. ASSUME NEW p \in Names, sync.listing[p] # 0
      PROVE  /\ sync.listing[p] \in Nat /\ sync.listing[p] <= Len(history[p]) /\ history[p][sync.listing[p]] \in Texts
             /\ history[p][sync.listing[p]] <= texts /\ p <= names /\ p \in Nat /\ p # 0
             /\ history[p][sync.listing[p]] # 0
  <2>1. sync.listing[p] \in Nat /\ sync.listing[p] <= Len(history[p]) /\ history[p][sync.listing[p]] # 0
    BY <1>a, <1>b DEF TypeSync, ListingFits
  <2>2. Len(history[p]) \in Nat /\ \A k \in 1 .. Len(history[p]) : history[p][k] \in Texts \cup {0}
    BY <1>a, ThereFacts
  <2>3. sync.listing[p] \in 1 .. Len(history[p])
    BY <1>b, <2>1, <2>2
  <2> QED
    BY <1>a, <2>1, <2>2, <2>3 DEF ServerFits, Names
<1>1. CASE i \in DOMAIN task /\ task'[i] = task[i]
  BY <1>a, <1>1
<1>2. CASE i \in DOMAIN task /\ Adopted(i)
  <2>1. PICK p \in Names : Adopts(i, p) /\ task'[i] = Placed(task[i], p, 0, sync.listing[p]) /\ task[i].href = 0
    BY <1>2 DEF Adopted
  <2> DEFINE tag == sync.listing[p]
  <2>2. tag # 0 /\ tag \in Nat /\ tag <= Len(history[p]) /\ history[p][tag] # 0 /\ p <= names /\ p # 0
    BY <1>b, <2>1 DEF Adopts
  <2>3. task'[i] = Placed(task[i], p, 0, tag) /\ task[i] \in Row
    BY <1>a, <1>2, <2>1
  <2> HIDE DEF tag
  <2>4. /\ task'[i] \in Row /\ task'[i].href = p /\ task'[i].marker = 0 /\ task'[i].etag = tag
        /\ task'[i].text = task[i].text /\ task'[i].conflict = task[i].conflict
    BY <2>2, <2>3 DEF Placed, Row
  <2> QED
    BY <1>a, <1>2, <2>1, <2>2, <2>4 DEF RowFits, RowKept
<1>3. CASE i \in DOMAIN task /\ Took(i)
  <2> DEFINE p == task[i].href
             tag == sync.listing[p]
  <2>1. p \in Names /\ tag # 0 /\ task[i].pending = "none" /\ task'[i] = Taken(task[i], p, tag) /\ task[i] \in Row
    BY <1>a, <1>3 DEF Took
  <2>2. /\ tag \in Nat /\ tag <= Len(history[p]) /\ history[p][tag] \in Texts
        /\ history[p][tag] <= texts /\ p <= names /\ history[p][tag] # 0 /\ p # 0
    BY <1>b, <2>1
  <2> HIDE DEF tag, p
  <2>3. /\ task'[i] \in Row /\ task'[i].text = history[p][tag] /\ task'[i].href = p /\ task'[i].marker = 0
        /\ task'[i].etag = tag /\ task'[i].conflict = "none"
    BY <2>1, <2>2, TakenFacts
  <2>4. task[i].conflict \notin Unsettled
    BY <1>a, <1>3, <2>1 DEF RowKept
  <2> QED
    BY <1>a, <2>1, <2>2, <2>3, <2>4 DEF RowFits, RowKept, Unsettled
<1>4. CASE i \in DOMAIN task /\ Held(i)
  <2>1. PICK c \in Unsettled : task'[i] = Waits(task[i], c) /\ task[i].href # 0 /\ task[i].pending # "none"
    BY <1>4 DEF Held
  <2>2. task[i] \in Row /\ c \in {"none", "changed", "deleted", "rejected"}
    BY <1>a, <1>4 DEF Unsettled
  <2>3. /\ task'[i] \in Row /\ task'[i].href = task[i].href /\ task'[i].marker = task[i].marker
        /\ task'[i].etag = task[i].etag /\ task'[i].text = task[i].text /\ task'[i].pending = task[i].pending
        /\ task'[i].conflict = c
    BY <2>1, <2>2 DEF Waits, Row
  <2> QED
    BY <1>a, <1>4, <2>1, <2>3 DEF RowFits, RowKept
<1>5. CASE i \notin DOMAIN task /\ \E p \in Names : Listed(i, p)
  <2>1. PICK p \in Names : Unknown(p) /\ task'[i] = Copy(p, sync.listing[p])
    BY <1>5 DEF Listed
  <2> DEFINE tag == sync.listing[p]
  <2>2. /\ tag \in Nat /\ tag <= Len(history[p]) /\ history[p][tag] \in Texts /\ tag # 0
        /\ history[p][tag] <= texts /\ p <= names /\ history[p][tag] # 0 /\ p # 0
        /\ task'[i] = Copy(p, tag)
    BY <1>b, <2>1 DEF Unknown
  <2> HIDE DEF tag
  <2>3. /\ task'[i] \in Row /\ task'[i].text = history[p][tag] /\ task'[i].href = p /\ task'[i].marker = 0
        /\ task'[i].etag = tag /\ task'[i].conflict = "none"
    BY <2>2, CopyFacts
  <2> QED
    BY <1>a, <1>5, <2>2, <2>3 DEF RowFits, RowKept, Unsettled
<1> QED
  BY <1>1, <1>2, <1>3, <1>4, <1>5 DEF ReconcileStep

\* reconcile.
LEMMA ReconcileInv ==
  ASSUME IInv, Reconcile
  PROVE  IInv'
<1>a. TypeOK /\ TypeStore /\ SettlerFits /\ ServerFits
  BY DEF IInv, TypeOK
<1>1. /\ sync.pc = "reconcile" /\ ReconcileStep
      /\ UNCHANGED <<kind, settler, editor>> /\ UNCHANGED <<history, marked, names>>
      /\ UNCHANGED <<byOther, knows, settled, again, cut, root, texts, asked, faults>> /\ sync' = NoSync
  BY ReconcileFacts
<1>2. \A i \in DOMAIN task' :
        /\ task'[i] \in Row /\ RowFits(task'[i]) /\ RowKept(task'[i])
        /\ i \in DOMAIN task /\ task[i].conflict \in Unsettled =>
             /\ task'[i].conflict \in Unsettled /\ task'[i].href = task[i].href
             /\ task'[i].pending = task[i].pending
  BY <1>1, RowAfterFacts
<1>3. Queued' = {} /\ sync'.pc = "idle" /\ sync'.listing = NoListing
  BY <1>1, NoSyncFacts DEF Queued
<1>4. TypeSync'
  BY <1>1, <1>3, NoSyncFacts DEF TypeSync, Queued
<1>5. Phase' /\ ListingFits' /\ QueueFits' /\ QueueRows' /\ Unblocked' /\ HeadFits'
  BY <1>3, NoSyncFacts DEF Phase, ListingFits, QueueFits, QueueRows, Unblocked, HeadFits
<1>6. lastId \in Nat /\ lastId' \in 0 .. MaxRows /\ lastId <= lastId' /\ DOMAIN task' \subseteq 1 .. lastId'
  BY <1>a, <1>1 DEF TypeStore, ReconcileStep
<1>7. TypeStore'
  <2>1. task' = [i \in DOMAIN task' |-> task'[i]]
    BY DEF Reconcile
  <2> QED
    BY <1>2, <1>6, <2>1 DEF TypeStore
<1>8. TypeBeside' /\ TypeGhosts' /\ TypeServer' /\ kind' \in Kinds
  <2>1. TypeBeside'
    BY <1>a, <1>1, <1>6 DEF TypeOK, TypeBeside
  <2> QED
    BY <1>a, <1>1, <2>1 DEF TypeOK, TypeGhosts, TypeServer
<1>9. ServerFits' /\ TaskFits'
  BY <1>a, <1>1, <1>2 DEF ServerFits, TaskFits, RowFits, RowKept
<1>10. SettlerFits'
  <2>1. settler.id \in Nat /\ settler.id <= lastId
    BY <1>a, <1>6 DEF TypeOK, TypeBeside
  <2>2. settler.id \in DOMAIN task' => settler.id \in DOMAIN task
    BY <1>1, <1>6, <2>1 DEF ReconcileStep
  <2> QED
    BY <1>a, <1>1, <1>2, <2>2 DEF SettlerFits
<1> QED
  BY <1>4, <1>5, <1>7, <1>8, <1>9, <1>10 DEF IInv, TypeOK

-----------------------------------------------------------------------------
(* A conflict is settled.                                                  *)

\* "tasks.resolveConflict" reads the row.
LEMMA SettleAskInv ==
  ASSUME IInv, NEW id \in DOMAIN task, NEW keep \in {"mine", "server"}, SettleAsk(id, keep)
  PROVE  IInv'
<1>a. /\ TypeOK /\ ServerFits /\ TaskFits /\ QueueFits /\ QueueRows /\ Unblocked /\ Phase /\ HeadFits
      /\ ListingFits /\ TypeStore /\ task[id] \in Row
  BY DEF IInv, TypeOK, TypeStore
<1>1. /\ UNCHANGED <<kind, task, lastId, sync, editor>> /\ UNCHANGED <<history, marked, names>>
      /\ UNCHANGED <<byOther, knows, settled, again, cut, root, texts, faults>>
      /\ Asked /\ task[id].conflict \in Unsettled
      /\ settler' = [pc |-> "get", id |-> id, keep |-> keep, was |-> task[id].pending,
                     href |-> task[id].href, got |-> 0]
  BY DEF SettleAsk, server, ghosts
<1>2. TypeGhosts'
  <2>1. /\ asked' \in 0 .. MaxEdits /\ texts + 2 <= 2 * asked' + Cardinality(byOther)
        /\ Cardinality(byOther) \in Nat /\ texts \in Nat
    BY <1>a, <1>1, RoomFacts DEF TypeOK, TypeGhosts
  <2> QED
    BY <1>a, <1>1, <2>1 DEF TypeOK, TypeGhosts
<1>3. TypeBeside'
  <2>1. id \in 0 .. lastId /\ task[id].pending \in {"none", "put", "delete"} /\ task[id].href \in Names \cup {0}
    BY <1>a DEF TypeStore, Row
  <2> QED
    BY <1>a, <1>1, <2>1 DEF TypeOK, TypeBeside
<1>4. TypeOK'
  BY <1>a, <1>1, <1>2, <1>3 DEF TypeOK, TypeStore, TypeSync, TypeServer, Queued
<1>5. ServerFits' /\ TaskFits' /\ QueueFits' /\ QueueRows'
  BY <1>a, <1>1 DEF ServerFits, TaskFits, QueueFits, QueueRows, RowFits, RowKept, AtReadBack, Queued, HeadId
<1>6. Unblocked' /\ Phase' /\ HeadFits' /\ ListingFits'
  BY <1>a, <1>1 DEF Unblocked, Phase, HeadFits, ListingFits, Queued, HeadId, Head1, Said
<1>7. SettlerFits'
  BY <1>1 DEF SettlerFits
<1> QED
  BY <1>4, <1>5, <1>6, <1>7 DEF IInv

\* It reads the server's copy.
LEMMA SettleGetInv ==
  ASSUME IInv, SettleGet
  PROVE  /\ IInv' /\ settler'.pc = "write" /\ settler'.id = settler.id /\ settler'.href = settler.href
         /\ settler'.was = settler.was /\ settler'.keep = settler.keep
         /\ settler'.got = (IF settler.href = 0 THEN 0 ELSE Tag(settler.href))
<1>a. /\ TypeOK /\ ServerFits /\ TaskFits /\ QueueFits /\ QueueRows /\ Unblocked /\ Phase /\ HeadFits
      /\ ListingFits /\ TypeBeside /\ SettlerFits
  BY DEF IInv, TypeOK
<1>1. /\ UNCHANGED <<kind, task, lastId, sync, editor>> /\ UNCHANGED <<history, marked, names>>
      /\ UNCHANGED <<byOther, knows, settled, again, cut, root, texts, asked, faults>>
      /\ settler.pc = "get"
  BY DEF SettleGet, server, ghosts, bounds
<1> DEFINE g == IF settler.href = 0 THEN 0 ELSE Tag(settler.href)
<1>2. settler' = [settler EXCEPT !.pc = "write", !.got = g]
  BY DEF SettleGet
<1>3. g \in Nat /\ (g # 0 => /\ settler.href # 0 /\ g <= Len(history[settler.href]) /\ history[settler.href][g] # 0)
  BY <1>a, ThereFacts DEF TypeOK, TypeBeside
<1> HIDE DEF g
<1>4. /\ settler'.pc = "write" /\ settler'.id = settler.id /\ settler'.href = settler.href
      /\ settler'.got = g /\ settler'.was = settler.was /\ settler'.keep = settler.keep
      /\ settler' \in [pc: {"idle", "get", "write"}, id: 0 .. lastId, keep: {"none", "mine", "server"},
                       was: {"none", "put", "delete"}, href: Names \cup {0}, got: Nat]
  BY <1>a, <1>2, <1>3 DEF TypeBeside
<1>5. TypeOK'
  BY <1>a, <1>1, <1>4 DEF TypeOK, TypeBeside, TypeStore, TypeSync, TypeServer, TypeGhosts, Queued
<1>6. ServerFits' /\ TaskFits' /\ QueueFits' /\ QueueRows'
  BY <1>a, <1>1 DEF ServerFits, TaskFits, QueueFits, QueueRows, RowFits, RowKept, AtReadBack, Queued, HeadId
<1>7. Unblocked' /\ Phase' /\ HeadFits' /\ ListingFits'
  BY <1>a, <1>1 DEF Unblocked, Phase, HeadFits, ListingFits, Queued, HeadId, Head1, Said
<1>8. SettlerFits'
  BY <1>a, <1>1, <1>3, <1>4 DEF SettlerFits
<1> QED
  BY <1>4, <1>5, <1>6, <1>7, <1>8 DEF IInv, g

\* Mine, over the copy that was read, and made again.
LEMMA MineFacts ==
  ASSUME TypeBeside, NEW r \in Row, r.pending # "none"
  PROVE  /\ Requeued(r) \in Row /\ Requeued(r).text = r.text /\ Requeued(r).href = r.href
         /\ Requeued(r).marker = r.marker /\ Requeued(r).etag = settler.got /\ Requeued(r).pending = r.pending
         /\ Requeued(r).conflict = "none" /\ Requeued(r).revision = r.revision
         /\ MadeAgain(r) \in Row /\ MadeAgain(r).text = r.text /\ MadeAgain(r).etag = 0
         /\ MadeAgain(r).pending = "put" /\ MadeAgain(r).conflict = "none"
         /\ MadeAgain(r).revision = r.revision
         /\ MadeAgain(r).href = (IF kind = "ews" THEN 0 ELSE r.href)
         /\ MadeAgain(r).marker = (IF kind = "ews" THEN 0 ELSE r.marker)
<1> DEFINE n == r.seq + 1
           g == settler.got
           h == IF kind = "ews" THEN 0 ELSE r.href
           m == IF kind = "ews" THEN 0 ELSE r.marker
           x == r.pending
<1>1. n \in Nat /\ g \in Nat /\ h \in Names \cup {0} /\ m \in Names \cup {0} /\ x \in {"none", "put", "delete"}
  BY DEF Row, TypeBeside
<1>2. /\ Requeued(r) = [r EXCEPT !.etag = g, !.conflict = "none", !.seq = n, !.pending = x]
      /\ MadeAgain(r) = [r EXCEPT !.etag = 0, !.conflict = "none", !.pending = "put", !.seq = n,
                                  !.href = h, !.marker = m]
  BY DEF Row, Requeued, MadeAgain
<1>3. x = r.pending /\ g = settler.got /\ h = (IF kind = "ews" THEN 0 ELSE r.href)
      /\ m = (IF kind = "ews" THEN 0 ELSE r.marker)
  OBVIOUS
<1> HIDE DEF n, g, h, m, x
<1>4. /\ Requeued(r) \in Row /\ Requeued(r).text = r.text /\ Requeued(r).href = r.href
      /\ Requeued(r).marker = r.marker /\ Requeued(r).etag = g /\ Requeued(r).pending = x
      /\ Requeued(r).conflict = "none" /\ Requeued(r).revision = r.revision
  BY <1>1, <1>2 DEF Row
<1>5. /\ MadeAgain(r) \in Row /\ MadeAgain(r).text = r.text /\ MadeAgain(r).etag = 0
      /\ MadeAgain(r).pending = "put" /\ MadeAgain(r).conflict = "none"
      /\ MadeAgain(r).revision = r.revision /\ MadeAgain(r).href = h /\ MadeAgain(r).marker = m
  <2>1. MadeAgain(r) = [text |-> r.text, href |-> h, marker |-> m, etag |-> 0, pending |-> "put",
                        conflict |-> "none", seq |-> n, revision |-> r.revision]
    BY <1>2 DEF Row
  <2> QED
    BY <1>1, <2>1 DEF Row
<1> QED
  BY <1>3, <1>4, <1>5

\* What the choice does to its row.
TakesServers(id) ==
  /\ settler.got # 0 /\ settler.keep = "server" /\ DOMAIN task' = DOMAIN task /\ settled' = settled /\ again' = again
  /\ task'[id] = Taken(task[id], settler.href, settler.got)
KeepsMine(id) ==
  /\ settler.got # 0 /\ settler.keep = "mine" /\ DOMAIN task' = DOMAIN task /\ again' = again
  /\ task'[id] = Requeued(task[id])
  /\ settled' = settled \cup ({history[settler.href][settler.got]} \cap byOther)
GivesUp(id) ==
  /\ settler.keep = "server" \/ settler.was = "delete"
  /\ DOMAIN task' = DOMAIN task \ {id} /\ settled' = settled /\ again' = again
MakesAgain(id) ==
  /\ settler.got = 0 /\ settler.was # "delete" /\ DOMAIN task' = DOMAIN task /\ settled' = settled
  /\ task'[id] = MadeAgain(task[id])
  /\ again' = IF kind = "ews" THEN again \cup {root[task[id].text]} ELSE again

\* The choice is written, where the row is still there.
SettleStep(id) ==
  /\ id = settler.id
  /\ \A i \in DOMAIN task' : i \in DOMAIN task /\ (i # id => task'[i] = task[i])
  /\ \A i \in DOMAIN task : i # id => i \in DOMAIN task'
  /\ id \in DOMAIN task => TakesServers(id) \/ KeepsMine(id) \/ GivesUp(id) \/ MakesAgain(id)
  /\ id \notin DOMAIN task => /\ task' = task /\ again' = again
                              /\ \/ settled' = settled
                                 \/ /\ settler.got # 0
                                    /\ settled' = settled \cup ({history[settler.href][settler.got]} \cap byOther)
  /\ task' = [i \in DOMAIN task' |-> task'[i]]

\* What SettleWrite does, told so.
LEMMA SettleWriteFacts ==
  ASSUME IInv, SettleWrite
  PROVE  /\ SettleStep(settler.id) /\ settler.pc = "write" /\ settler' = NoSettler
         /\ UNCHANGED <<kind, lastId, sync, editor>> /\ UNCHANGED <<history, marked, names>>
         /\ UNCHANGED <<byOther, knows, cut, root, texts, asked, faults>>
<1>a. TypeStore /\ task = [i \in DOMAIN task |-> task[i]]
  BY DEF IInv, TypeOK, TypeStore
<1>1. /\ UNCHANGED <<kind, lastId, sync, editor>> /\ UNCHANGED <<history, marked, names>>
      /\ UNCHANGED <<byOther, knows, cut, root, texts, asked, faults>>
      /\ settler.pc = "write" /\ settler' = NoSettler
  BY DEF SettleWrite, server, bounds
<1> DEFINE id == settler.id
<1>u. ASSUME NEW r, Update(id, r)
      PROVE  /\ DOMAIN task' = DOMAIN task /\ \A i \in DOMAIN task : i # id => task'[i] = task[i]
             /\ id \in DOMAIN task => task'[id] = r
             /\ id \notin DOMAIN task => task' = task
             /\ task' = [i \in DOMAIN task' |-> task'[i]]
  BY <1>a, <1>u DEF Update, Put
<1>2. CASE /\ settler.keep = "server" /\ settler.got # 0
           /\ Update(id, Taken(task[id], settler.href, settler.got)) /\ UNCHANGED <<settled, again>>
  BY <1>1, <1>2, <1>u DEF SettleStep, TakesServers
<1>3. CASE /\ settler.keep = "mine" /\ settler.got # 0 /\ Update(id, Requeued(task[id]))
           /\ settled' = settled \cup ({history[settler.href][settler.got]} \cap byOther) /\ UNCHANGED again
  BY <1>1, <1>3, <1>u DEF SettleStep, KeepsMine
<1>4. CASE /\ settler.keep = "server" \/ settler.was = "delete"
           /\ Drop(id) /\ UNCHANGED <<settled, again>>
  <2>1. /\ DOMAIN task' = DOMAIN task \ {id} /\ \A i \in DOMAIN task' : task'[i] = task[i]
        /\ task' = [i \in DOMAIN task' |-> task'[i]]
    BY <1>4 DEF Drop
  <2>2. id \notin DOMAIN task => task' = task
    BY <1>a, <2>1
  <2> QED
    BY <1>1, <1>4, <2>1, <2>2 DEF SettleStep, GivesUp
<1>5. CASE /\ settler.got = 0 /\ settler.was # "delete" /\ Update(id, MadeAgain(task[id])) /\ UNCHANGED settled
           /\ again' = IF kind = "ews" /\ id \in DOMAIN task THEN again \cup {root[task[id].text]} ELSE again
  BY <1>1, <1>5, <1>u DEF SettleStep, MakesAgain
<1> QED
  BY <1>2, <1>3, <1>4, <1>5, Zenon DEF SettleWrite

\* Such a row is still there, and nothing is being sent.
LEMMA SettledRow ==
  ASSUME IInv, settler.pc # "idle", settler.id \in DOMAIN task
  PROVE  /\ Queued = {} /\ task[settler.id] \in Row /\ task[settler.id].pending # "none"
         /\ task[settler.id].href = settler.href /\ settler.href \in Names /\ settler.href # 0
         /\ task[settler.id].marker = 0
<1>1. /\ SettlerFits /\ Unblocked /\ TaskFits /\ TypeStore /\ TypeBeside
  BY DEF IInv, TypeOK
<1>2. /\ task[settler.id] \in Row /\ RowKept(task[settler.id]) /\ task[settler.id].conflict \in Unsettled
      /\ task[settler.id].href = settler.href
  BY <1>1 DEF SettlerFits, TaskFits, TypeStore
<1>3. task[settler.id].pending # "none" /\ settler.href # 0 /\ task[settler.id].marker = 0
  BY <1>2 DEF RowKept
<1>4. settler.href \in Names
  BY <1>1, <1>3 DEF TypeBeside
<1>5. Queued = {}
  BY <1>1, <1>2 DEF Unblocked
<1> QED
  BY <1>2, <1>3, <1>4, <1>5

\* The row after that.
LEMMA SettledRowFacts ==
  ASSUME IInv, settler.pc = "write", SettleStep(settler.id), settler.id \in DOMAIN task'
  PROVE  task'[settler.id] \in Row /\ RowFits(task'[settler.id]) /\ RowKept(task'[settler.id])
<1> DEFINE id == settler.id
<1>a. /\ id \in DOMAIN task /\ TypeBeside /\ TypeServer /\ SettlerFits /\ TaskFits /\ ServerFits
      /\ texts \in Nat /\ names \in Nat
  BY DEF SettleStep, IInv, TypeOK, TypeServer, TypeGhosts
<1>b. /\ task[id] \in Row /\ task[id].pending # "none" /\ task[id].href = settler.href /\ settler.href \in Names
      /\ settler.href # 0 /\ RowFits(task[id]) /\ RowKept(task[id])
  BY <1>a, SettledRow DEF TaskFits
<1> DEFINE p == settler.href
           g == settler.got
<1>g. g # 0 => /\ g \in Nat /\ g <= Len(history[p]) /\ history[p][g] \in Texts
               /\ history[p][g] # 0 /\ history[p][g] <= texts
  <2>1. /\ Len(history[p]) \in Nat /\ \A k \in 1 .. Len(history[p]) : history[p][k] \in Texts \cup {0}
        /\ g \in Nat
    BY <1>a, <1>b, ThereFacts DEF TypeBeside
  <2>2. g # 0 => /\ g <= Len(history[p]) /\ history[p][g] # 0
    BY <1>a DEF SettlerFits
  <2>3. g # 0 => g \in 1 .. Len(history[p])
    BY <2>1, <2>2
  <2> QED
    BY <1>a, <1>b, <2>1, <2>2, <2>3 DEF ServerFits
<1>1. CASE TakesServers(id)
  <2>1. g # 0 /\ task'[id] = Taken(task[id], p, g)
    BY <1>1 DEF TakesServers
  <2> HIDE DEF p, g, id
  <2>2. /\ task'[id] \in Row /\ task'[id].text = history[p][g] /\ task'[id].href = p /\ task'[id].marker = 0
        /\ task'[id].etag = g /\ task'[id].conflict = "none"
    <3>1. g \in Nat /\ p \in Names /\ history[p][g] \in Texts
      BY <1>b, <1>g, <2>1 DEF p
    <3> QED
      BY <1>b, <2>1, <3>1, TakenFacts
  <2>3. p <= names /\ p # 0
    BY <1>a, <1>b DEF RowFits, p
  <2> QED
    BY <1>a, <1>g, <2>1, <2>2, <2>3 DEF RowFits, RowKept, Unsettled, id
<1>2. CASE KeepsMine(id)
  <2>1. g # 0 /\ task'[id] = Requeued(task[id])
    BY <1>2 DEF KeepsMine
  <2>2. /\ task'[id] \in Row /\ task'[id].text = task[id].text /\ task'[id].href = task[id].href
        /\ task'[id].marker = task[id].marker /\ task'[id].etag = g /\ task'[id].conflict = "none"
    BY <1>a, <1>b, <2>1, MineFacts
  <2> QED
    BY <1>a, <1>b, <1>g, <2>1, <2>2 DEF RowFits, RowKept, Unsettled
<1>3. CASE MakesAgain(id)
  <2>1. task'[id] = MadeAgain(task[id])
    BY <1>3 DEF MakesAgain
  <2>2. /\ task'[id] \in Row /\ task'[id].text = task[id].text /\ task'[id].etag = 0 /\ task'[id].conflict = "none"
        /\ task'[id].href = (IF kind = "ews" THEN 0 ELSE task[id].href)
        /\ task'[id].marker = (IF kind = "ews" THEN 0 ELSE task[id].marker)
    BY <1>a, <1>b, <2>1, MineFacts
  <2> QED
    BY <1>a, <1>b, <2>2 DEF RowFits, RowKept, Unsettled
<1> QED
  BY <1>a, <1>1, <1>2, <1>3 DEF SettleStep, GivesUp

\* And writes the choice.
LEMMA SettleWriteInv ==
  ASSUME IInv, SettleWrite
  PROVE  IInv'
<1>a. /\ TypeOK /\ ServerFits /\ TaskFits /\ QueueFits /\ QueueRows /\ Unblocked /\ Phase /\ HeadFits
      /\ ListingFits /\ TypeBeside /\ SettlerFits /\ TypeStore
  BY DEF IInv, TypeOK
<1> DEFINE id == settler.id
<1>1. /\ SettleStep(id) /\ settler.pc = "write" /\ settler' = NoSettler
      /\ UNCHANGED <<kind, lastId, sync, editor>> /\ UNCHANGED <<history, marked, names>>
      /\ UNCHANGED <<byOther, knows, cut, root, texts, asked, faults>>
  BY SettleWriteFacts
<1>2. \A i \in DOMAIN task' : i \in DOMAIN task /\ task'[i] \in Row /\ RowFits(task'[i]) /\ RowKept(task'[i])
  <2>1. ASSUME NEW i \in DOMAIN task' PROVE i \in DOMAIN task /\ task'[i] \in Row /\ RowFits(task'[i]) /\ RowKept(task'[i])
    <3>1. CASE i = id
      BY <1>1, <3>1, SettledRowFacts DEF SettleStep
    <3>2. CASE i # id
      BY <1>a, <1>1, <3>2 DEF SettleStep, TaskFits, TypeStore
    <3> QED
      BY <3>1, <3>2
  <2> QED
    BY <2>1
<1>3. TypeStore'
  BY <1>a, <1>1, <1>2 DEF TypeStore, SettleStep
<1>4. TypeGhosts'
  <2>1. id \in DOMAIN task => root[task[id].text] \in Texts
    BY <1>a DEF TypeOK, TypeGhosts, TypeStore, Row
  <2>2. settled' \in SUBSET Texts
    BY <1>a, <1>1, <2>1 DEF SettleStep, TakesServers, KeepsMine, GivesUp, MakesAgain, TypeOK, TypeGhosts
  <2>3. again' \in SUBSET Texts
    BY <1>a, <1>1, <2>1 DEF SettleStep, TakesServers, KeepsMine, GivesUp, MakesAgain, TypeOK, TypeGhosts
  <2> QED
    BY <1>a, <1>1, <2>2, <2>3 DEF TypeOK, TypeGhosts
<1>5. TypeBeside'
  BY <1>a, <1>1 DEF TypeBeside, NoSettler, TypeStore
<1>6. TypeOK'
  BY <1>a, <1>1, <1>3, <1>4, <1>5 DEF TypeOK, TypeSync, TypeServer, Queued
<1>7. ServerFits' /\ TaskFits' /\ ListingFits' /\ SettlerFits' /\ Phase'
  BY <1>a, <1>1, <1>2 DEF ServerFits, TaskFits, RowFits, RowKept, ListingFits, SettlerFits, NoSettler, Phase, Queued
<1>8. QueueFits' /\ HeadFits'
  BY <1>a, <1>1 DEF QueueFits, RowFits, AtReadBack, Queued, HeadId, HeadFits, Head1, Said
<1>9. QueueRows' /\ Unblocked'
  <2>1. Queued = {} \/ task' = task
    BY <1>1, SettledRow DEF SettleStep
  <2>2. Queued' = Queued /\ HeadId' = HeadId
    BY <1>1 DEF Queued, HeadId
  <2> QED
    BY <1>a, <1>1, <2>1, <2>2 DEF QueueRows, Unblocked, AtReadBack
<1> QED
  BY <1>6, <1>7, <1>8, <1>9 DEF IInv

-----------------------------------------------------------------------------
(* Other clients.                                                          *)

\* The server comes to hold more, and nothing else happens.
LEMMA OtherInv ==
  ASSUME IInv, TypeServer', TypeGhosts', Kept, ServerFits', names <= names', texts <= texts',
         UNCHANGED <<kind, task, lastId, sync, settler, editor, cut>>
  PROVE  IInv'
<1>a. /\ TypeOK /\ ServerFits /\ TaskFits /\ QueueFits /\ QueueRows /\ Unblocked /\ Phase /\ HeadFits
      /\ ListingFits /\ SettlerFits /\ TypeSync /\ TypeServer /\ TypeStore
      /\ texts \in Nat /\ texts' \in Nat /\ names \in Nat /\ names' \in Nat
  BY DEF IInv, TypeOK, TypeServer, TypeGhosts
<1>b. Queued' = Queued /\ HeadId' = HeadId /\ Head1' = Head1
  BY DEF Queued, HeadId, Head1
<1>c. \A p \in Names : Len(history[p]) \in Nat /\ Len(history'[p]) \in Nat
  BY <1>a DEF TypeServer
<1>1. TypeOK'
  BY <1>a DEF TypeOK, TypeStore, TypeSync, TypeBeside, Queued
<1>2. TaskFits' /\ SettlerFits'
  BY <1>a, KeptFits
<1>3. QueueFits'
  <2> SUFFICES ASSUME NEW k \in Queued
               PROVE  (/\ RowFits(sync.queue[k]) /\ sync.queue[k].pending # "none"
                       /\ sync.queue[k].marker # 0 => kind = "ews"
                       /\ sync.queue[k].marker # 0 /\ sync.queue[k].href # 0 => AtReadBack(k)
                       /\ kind = "ews" /\ sync.queue[k].href # 0 /\ sync.queue[k].etag = 0 => AtReadBack(k))'
    BY <1>b DEF QueueFits
  <2>1. RowFits(sync.queue[k])'
    <3>1. RowFits(sync.queue[k]) /\ sync'.queue[k] = sync.queue[k] /\ sync.queue[k] \in Row
      BY <1>a DEF QueueFits, TypeSync
    <3> QED
      BY <1>a, <3>1, FitsKept DEF RowFits
  <2> QED
    BY <1>a, <1>b, <2>1 DEF QueueFits, AtReadBack
<1>4. QueueRows' /\ Unblocked' /\ Phase'
  BY <1>a, <1>b DEF QueueRows, Unblocked, AtReadBack, Phase
<1>5. ListingFits'
  <2>1. \A p \in Names : sync.listing[p] \in Nat
    BY <1>a DEF TypeSync
  <2> QED
    BY <1>a, <1>c, <2>1 DEF ListingFits, Kept
<1>6. HeadFits'
  <2>1. CASE sync.pc \in {"readback", "answer"}
    <3>1. Queued # {} /\ Head1 \in Row /\ Head1.href # 0
      BY <1>a, <2>1, HeadFacts DEF Phase, HeadFits
    <3>2. Head1.href \in Names /\ sync.tag \in Nat
      BY <1>a, <3>1 DEF Row, TypeSync
    <3>3. Said(Head1.text, Head1.href) => Said(Head1.text, Head1.href)'
      BY <1>b, <1>c, <3>2 DEF Said, Kept
    <3>4. sync.tag # 0 /\ sync.tag <= Len(history[Head1.href]) =>
            sync.tag <= Len(history'[Head1.href]) /\ history'[Head1.href][sync.tag] = history[Head1.href][sync.tag]
      BY <1>c, <3>2 DEF Kept
    <3> QED
      BY <1>a, <1>b, <2>1, <3>3, <3>4 DEF HeadFits
  <2>2. CASE sync.pc \notin {"readback", "answer"}
    BY <1>a, <1>b, <2>2 DEF HeadFits
  <2> QED
    BY <2>1, <2>2
<1> QED
  BY <1>1, <1>2, <1>3, <1>4, <1>5, <1>6 DEF IInv

\* What another client's write is.
LEMMA OtherWritesFacts ==
  ASSUME IInv, NEW p \in Names, NEW of \in Texts \cup {0}, OtherWrites(p, of), p <= names', names <= names',
         names' \in 0 .. MaxNames
  PROVE  /\ IInv' /\ Kept /\ texts' = texts + 1 /\ texts + 1 \in Texts /\ texts + 1 \notin byOther
         /\ byOther' = byOther \cup {texts + 1}
         /\ UNCHANGED <<kind, task, lastId, sync, settler, editor, marked, settled, again, cut>>
         /\ Len(history[p]) \in Nat /\ Len(history'[p]) = Len(history[p]) + 1
         /\ history'[p][Len(history[p]) + 1] = texts + 1
         /\ \A q \in Names : q # p => history'[q] = history[q]
         /\ knows'[texts + 1] = {} /\ root'[texts + 1] = (IF of = 0 THEN texts + 1 ELSE root[of])
         /\ \A t \in Texts : t # texts + 1 => knows'[t] = knows[t] /\ root'[t] = root[t]
<1>a. TypeOK /\ ServerFits /\ TypeGhosts /\ TypeServer /\ texts \in Nat
  BY DEF IInv, TypeOK, TypeGhosts
<1>1. /\ UNCHANGED <<kind, task, lastId, sync, settler, editor>>
      /\ UNCHANGED <<marked, settled, again, cut, asked, faults>>
      /\ Cardinality(byOther) < MaxOthers /\ Writes({}, of) /\ byOther' = byOther \cup {texts'}
      /\ history' = [history EXCEPT ![p] = Append(@, texts')]
  BY DEF OtherWrites, bounds
<1>2. IsFiniteSet(byOther) /\ Cardinality(byOther) \in Nat
  BY <1>a, OthersFacts
<1>3. texts + 1 \in Texts /\ texts + 1 \notin byOther /\ asked \in Nat
  <2>1. asked \in Nat /\ asked <= MaxEdits /\ texts <= 2 * asked + Cardinality(byOther)
    BY <1>a, TaskSyncBounds DEF TypeGhosts
  <2>2. texts + 1 <= 2 * MaxEdits + MaxOthers
    BY <1>a, <1>1, <1>2, <2>1, TaskSyncBounds
  <2> QED
    BY <1>a, <2>1, <2>2, TaskSyncBounds DEF Texts, ServerFits
<1>4. /\ texts' = texts + 1 /\ knows' \in [Texts -> SUBSET Texts] /\ root' \in [Texts -> Texts]
      /\ knows'[texts + 1] = {} /\ root'[texts + 1] = (IF of = 0 THEN texts + 1 ELSE root[of])
      /\ \A t \in Texts : t # texts + 1 => knows'[t] = knows[t] /\ root'[t] = root[t]
  <2>1. {} \in SUBSET Texts
    OBVIOUS
  <2> QED
    BY <1>a, <1>1, <1>3, <2>1, WritesFacts
<1>5. Cardinality(byOther') = Cardinality(byOther) + 1
  BY <1>1, <1>2, <1>3, <1>4, FS_AddElement
<1>6. TypeGhosts'
  <2>1. texts' <= 2 * asked' + Cardinality(byOther') /\ Cardinality(byOther') <= MaxOthers /\ texts' \in Nat
    BY <1>a, <1>1, <1>2, <1>3, <1>4, <1>5, TaskSyncBounds DEF TypeGhosts
  <2> QED
    BY <1>a, <1>1, <1>3, <1>4, <2>1 DEF TypeGhosts
<1>7. /\ TypeServer' /\ Kept /\ ServerFits'
      /\ Len(history[p]) \in Nat /\ Len(history'[p]) = Len(history[p]) + 1
      /\ history'[p][Len(history[p]) + 1] = texts'
      /\ \A q \in Names : q # p => history'[q] = history[q]
  <2>1. /\ texts <= texts' /\ texts' \in Nat /\ texts' <= texts' /\ marked' \in [Names -> Names \cup {0}]
        /\ byOther' \subseteq 1 .. texts' /\ texts' \in Texts \cup {0}
    BY <1>a, <1>1, <1>3, <1>4 DEF TypeServer, ServerFits
  <2> QED
    BY <1>1, <2>1, GrowFacts
<1>8. IInv'
  <2>1. texts <= texts'
    BY <1>a, <1>4
  <2> QED
    BY <1>1, <1>6, <1>7, <2>1, OtherInv
<1> QED
  BY <1>1, <1>3, <1>4, <1>7, <1>8

\* Another client makes a task, or edits one.
OtherWritesAt(p, of) ==
  /\ p \in Names /\ p <= names' /\ names <= names' /\ names' \in 0 .. MaxNames
  /\ OtherWrites(p, of)
  /\ \/ of = 0 /\ p = names + 1 /\ names' = names + 1
     \/ There(p) /\ of = Last(history[p]) /\ of \in Texts /\ names' = names

\* Both are such writes.
LEMMA OtherWritesCases ==
  ASSUME IInv, OtherCreates \/ \E p \in Names : OtherEdits(p)
  PROVE  \E p \in Names, of \in Texts \cup {0} : OtherWritesAt(p, of)
<1>a. TypeServer /\ ServerFits
  BY DEF IInv, TypeOK
<1>1. CASE OtherCreates
  <2>1. names' = names + 1 /\ names' \in Names /\ names' \in 0 .. MaxNames /\ names <= names' /\ names' <= names'
    BY <1>a, <1>1, NewNameFacts DEF OtherCreates
  <2>2. OtherWritesAt(names', 0)
    BY <1>1, <2>1 DEF OtherCreates, OtherWritesAt
  <2> QED
    BY <2>1, <2>2
<1>2. CASE \E p \in Names : OtherEdits(p)
  <2>1. PICK p \in Names : OtherEdits(p)
    BY <1>2
  <2>2. There(p) /\ OtherWrites(p, Last(history[p])) /\ names' = names
    BY <2>1 DEF OtherEdits
  <2>3. Last(history[p]) \in Texts /\ p <= names /\ names \in Nat /\ names \in 0 .. MaxNames
    BY <1>a, <2>2, ThereFacts DEF ServerFits, TypeServer
  <2>4. OtherWritesAt(p, Last(history[p]))
    BY <2>2, <2>3 DEF OtherWritesAt
  <2> QED
    BY <2>3, <2>4
<1> QED
  BY <1>1, <1>2

\* Another client's write.
LEMMA OtherWritesInv ==
  ASSUME IInv, OtherCreates \/ \E p \in Names : OtherEdits(p)
  PROVE  IInv'
<1>1. PICK p \in Names, of \in Texts \cup {0} : OtherWritesAt(p, of)
  BY OtherWritesCases
<1> QED
  BY <1>1, OtherWritesFacts DEF OtherWritesAt

\* Another client's deletion.
LEMMA OtherDeletesInv ==
  ASSUME IInv, NEW p \in Names, OtherDeletes(p)
  PROVE  /\ IInv' /\ Kept /\ There(p) /\ faults' # faults
         /\ UNCHANGED <<kind, task, lastId, sync, settler, editor>>
         /\ UNCHANGED <<marked, names, byOther, knows, settled, again, cut, root, texts>>
         /\ Len(history[p]) \in Nat /\ Len(history'[p]) = Len(history[p]) + 1
         /\ history'[p][Len(history[p]) + 1] = 0
         /\ \A q \in Names : q # p => history'[q] = history[q]
<1>a. TypeOK /\ TypeServer /\ ServerFits /\ TypeGhosts /\ faults \in Nat
  BY DEF IInv, TypeOK, TypeGhosts
<1>1. /\ UNCHANGED <<kind, task, lastId, sync, settler, editor>>
      /\ UNCHANGED <<marked, names, byOther, knows, settled, again, cut, root, texts, asked>>
      /\ There(p) /\ faults < MaxFaults /\ faults' = faults + 1
      /\ history' = [history EXCEPT ![p] = Append(@, 0)]
  BY DEF OtherDeletes, ghosts
<1>2. /\ TypeServer' /\ Kept /\ ServerFits'
      /\ Len(history[p]) \in Nat /\ Len(history'[p]) = Len(history[p]) + 1
      /\ history'[p][Len(history[p]) + 1] = 0
      /\ \A q \in Names : q # p => history'[q] = history[q]
  <2>1. /\ texts <= texts' /\ texts' \in Nat /\ marked' \in [Names -> Names \cup {0}]
        /\ byOther' \subseteq 1 .. texts' /\ 0 \in Texts \cup {0} /\ 0 <= texts'
        /\ names <= names' /\ names' \in 0 .. MaxNames
    BY <1>a, <1>1 DEF TypeServer, ServerFits, TypeGhosts
  <2>2. p <= names'
    BY <1>a, <1>1, ThereFacts DEF ServerFits
  <2> QED
    BY <1>1, <2>1, <2>2, GrowFacts
<1>3. TypeGhosts'
  BY <1>a, <1>1, TaskSyncBounds DEF TypeGhosts
<1>4. IInv'
  <2>1. texts <= texts' /\ names <= names'
    BY <1>a, <1>1 DEF TypeGhosts, TypeServer
  <2> QED
    BY <1>1, <1>2, <1>3, <2>1, OtherInv
<1> QED
  BY <1>a, <1>1, <1>2, <1>4

-----------------------------------------------------------------------------
(* The invariant.                                                          *)

\* It holds at first.
LEMMA InitIInv == Init => IInv
<1> SUFFICES ASSUME Init PROVE IInv
  OBVIOUS
<1>1. /\ kind \in Kinds /\ task = NoRows /\ lastId = 0 /\ sync = NoSync /\ settler = NoSettler /\ editor = NoEditor
      /\ history = [p \in Names |-> <<>>] /\ marked = [p \in Names |-> 0] /\ names = 0
  BY DEF Init
<1>2. /\ byOther = {} /\ settled = {} /\ again = {} /\ cut = {} /\ knows = [n \in Texts |-> {}] /\ root = [n \in Texts |-> n]
      /\ texts = 0 /\ asked = 0 /\ faults = 0
  BY DEF Init
<1>3. DOMAIN task = {} /\ task \in [{} -> Row]
  BY <1>1 DEF NoRows
<1>4. TypeStore
  BY <1>1, <1>3, TaskSyncBounds DEF TypeStore
<1>5. Queued = {} /\ sync.pc = "idle" /\ sync.listing = NoListing
  BY <1>1, NoSyncFacts DEF Queued
<1>6. TypeSync
  BY <1>1, <1>5, NoSyncFacts DEF TypeSync, Queued
<1>7. TypeBeside
  BY <1>1 DEF TypeBeside, NoSettler, NoEditor
<1>8. TypeServer
  <2>1. <<>> \in Seq(Texts \cup {0})
    OBVIOUS
  <2> QED
    BY <1>1, <2>1, TaskSyncBounds DEF TypeServer
<1>9. TypeGhosts
  <2>1. Cardinality({}) = 0
    BY FS_EmptySet
  <2> QED
    BY <1>2, <2>1, TaskSyncBounds DEF TypeGhosts
<1>10. ServerFits
  <2>1. \A p \in Names : Len(history[p]) = 0
    BY <1>1
  <2> QED
    BY <1>2, <2>1 DEF ServerFits
<1>11. TaskFits /\ QueueFits /\ QueueRows /\ Unblocked /\ Phase /\ HeadFits /\ ListingFits /\ SettlerFits
  BY <1>1, <1>3, <1>5, NoSyncFacts
     DEF TaskFits, QueueFits, QueueRows, Unblocked, Phase, HeadFits, ListingFits, SettlerFits, NoSettler
<1> QED
  BY <1>1, <1>4, <1>6, <1>7, <1>8, <1>9, <1>10, <1>11 DEF IInv, TypeOK

\* Every step keeps it.
LEMMA NextIInv == IInv /\ [Next]_vars => IInv'
<1> SUFFICES ASSUME IInv, [Next]_vars PROVE IInv'
  OBVIOUS
<1>1. CASE Person
  BY <1>1, CreateInv, SaveEditorInv, SettleGetInv, SettleWriteInv, CompleteOccurrenceInv, OpenEditorInv,
     DeleteInv, CompleteInv, SettleAskInv DEF Person
<1>2. CASE Syncs
  BY <1>2, SyncStartInv, QueueDoneInv, DropDeletedInv, KeepPlaceInv, HasPlaceInv, EwsFindInv, EwsRouteInv,
     EwsCheckInv, EwsReadBackInv, EwsReadBackGoneInv, AnswerInv, ListInv, EwsListInv, EwsMissingInv,
     ReconcileInv DEF Syncs
<1>3. CASE Server
  BY <1>3, ServerPutsInv, ServerDeletesInv, EwsCreatesInv, EwsUpdatesInv, OtherWritesInv, OtherDeletesInv
     DEF Server
<1>4. CASE SyncFails \/ Crash
  BY <1>4, SyncFailsInv, CrashInv
<1>5. CASE UNCHANGED vars
  <2>1. UNCHANGED <<kind, task, lastId, sync, settler, history, marked, names, byOther, knows, settled, again, cut, root,
                    texts, asked, faults>> /\ UNCHANGED <<editor, lastId, settler>>
    BY <1>5 DEF vars, server, ghosts, bounds
  <2>2. TypeBeside'
    BY <2>1 DEF IInv, TypeOK, TypeBeside
  <2> QED
    BY <2>1, <2>2, SameInv
<1> QED
  BY <1>1, <1>2, <1>3, <1>4, <1>5 DEF Next

\* The types hold in every state: of the rows and their copies in the queue, of
\* what the process keeps beside, of the server's versions and of every bound.
THEOREM TaskSyncTypes == Spec => []TypeOK
<1>1. IInv => TypeOK
  BY DEF IInv
<1> QED
  BY <1>1, InitIInv, NextIInv, PTL DEF Spec

-----------------------------------------------------------------------------
(* A CalDAV list: what is known of what is written over.                   *)

\* A text of another client that the version r names holds is in sight of who
\* wrote `text`, or the person chose against it.
Sighted(r, text) ==
  r.etag # 0 /\ history[r.href][r.etag] \in byOther =>
    history[r.href][r.etag] \in InSight(text) \cup settled

\* Each row was written in sight of the version it names, and so was its copy in
\* the queue.
RowsSighted == \A i \in DOMAIN task : Sighted(task[i], task[i].text)
QueueSighted == \A k \in Queued : Sighted(sync.queue[k], sync.queue[k].text)

\* What waits to be written is this client's own text, also when the person
\* settles the conflict of a row that is to be written.
OwnPuts ==
  /\ \A i \in DOMAIN task : task[i].pending = "put" => task[i].text \notin byOther
  /\ \A k \in Queued : sync.queue[k].pending = "put" => sync.queue[k].text \notin byOther
  /\ settler.pc # "idle" /\ settler.was # "delete" /\ settler.id \in DOMAIN task =>
       task[settler.id].text \notin byOther

\* The text in the editor is sight enough of its row's version, unless the row's
\* revision is another.
EditorSighted ==
  /\ editor.text <= texts
  /\ editor.id \in DOMAIN task =>
       /\ editor.revision <= task[editor.id].revision
       /\ editor.revision = task[editor.id].revision => Sighted(task[editor.id], editor.text)

\* What the list of a CalDAV server keeps to.
Sight ==
  kind = "caldav" => RowsSighted /\ QueueSighted /\ OwnPuts /\ EditorSighted

\* What a step of a CalDAV list makes of a row: it is the same but for its
\* conflict; gets a place; has its answer; takes the server's copy; is sent again
\* over the copy the person saw; or is made again.
Alike(i) ==
  /\ i \in DOMAIN task /\ task'[i].text = task[i].text /\ task'[i].pending = task[i].pending
  /\ task'[i].revision = task[i].revision /\ task'[i].href = task[i].href /\ task'[i].etag = task[i].etag
Located(i) ==
  /\ i \in DOMAIN task /\ task'[i].text = task[i].text /\ task'[i].pending = task[i].pending
  /\ task'[i].revision = task[i].revision /\ task'[i].etag = 0
Answered(i) ==
  /\ i \in DOMAIN task /\ task'[i].text = task[i].text /\ task'[i].revision = task[i].revision
  /\ i = HeadId /\ i \in Queued /\ Head1.pending = "put"
  /\ task'[i].pending = "none" => task[i].text = Head1.text \/ task[i].text \in cut
  /\ task'[i].pending \in {"none", task[i].pending}
  /\ task'[i].etag # 0 => history'[task'[i].href][task'[i].etag] = Head1.text
Fresh(i) ==
  /\ task'[i].pending = "none" /\ task'[i].text = history'[task'[i].href][task'[i].etag]
  /\ i \in DOMAIN task => task'[i].revision = task[i].revision + 1
  /\ i \notin DOMAIN task => i > lastId
Mine(i) ==
  /\ i \in DOMAIN task /\ task'[i].text = task[i].text /\ task'[i].pending = task[i].pending
  /\ task'[i].revision = task[i].revision /\ task[i].pending # "none"
  /\ {history'[task'[i].href][task'[i].etag]} \cap byOther' \subseteq settled'
Again(i) ==
  /\ i \in DOMAIN task /\ task'[i].text = task[i].text /\ task'[i].revision = task[i].revision
  /\ i = settler.id /\ settler.pc # "idle" /\ settler.was # "delete"
  /\ task'[i].pending = "put" /\ task'[i].etag = 0

\* Or the person edited, deleted or made it.
RowStep(i) ==
  \/ Alike(i) \/ Located(i) \/ Answered(i) \/ Fresh(i) \/ Mine(i) \/ Again(i)
  \/ i \in DOMAIN task /\ Edited(i) /\ InSightOf(i) /\ byOther' = byOther
  \/ i \in DOMAIN task /\ Deleted(i)
  \/ i \notin DOMAIN task /\ Made(i) /\ byOther' = byOther

\* Of a copy in the queue: it stays, gets a place, or is read from its row.
CopyStep(k) ==
  \/ /\ k \in Queued /\ sync'.queue[k].text = sync.queue[k].text
     /\ sync'.queue[k].pending = sync.queue[k].pending
     /\ \/ sync'.queue[k].href = sync.queue[k].href /\ sync'.queue[k].etag = sync.queue[k].etag
        \/ sync'.queue[k].etag = 0
  \/ k \in DOMAIN task /\ sync'.queue[k] = task[k]

\* Of the choice being carried out and of the editor.
SettlerStep ==
  \/ settler'.pc = "idle"
  \/ settler.pc # "idle" /\ settler'.id = settler.id /\ settler'.was = settler.was
  \/ /\ task' = task /\ settler'.id \in DOMAIN task /\ settler'.was = task[settler'.id].pending
     /\ task[settler'.id].conflict \in Unsettled
EditorStep ==
  \/ editor' = editor
  \/ editor' = NoEditor
  \/ /\ task' = task /\ editor'.id \in DOMAIN task /\ editor'.text = task[editor'.id].text
     /\ editor'.revision = task[editor'.id].revision

\* Of everything.
CalStep ==
  /\ Kept /\ texts <= texts' /\ settled \subseteq settled' /\ cut \subseteq cut' /\ lastId <= lastId'
  /\ \A t \in Texts : t <= texts => knows'[t] = knows[t]
  /\ byOther \subseteq byOther' /\ \A t \in byOther' : t \in byOther \/ t > texts
  /\ \A i \in DOMAIN task' : RowStep(i)
  /\ \A k \in Queued' : CopyStep(k)
  /\ SettlerStep /\ EditorStep

\* What another client's text is after the step, it was before.
LEMMA SightedBack ==
  ASSUME IInv, TypeServer', CalStep, NEW r \in Row, RowFits(r), r.etag # 0, history'[r.href][r.etag] \in byOther'
  PROVE  history'[r.href][r.etag] = history[r.href][r.etag] /\ history[r.href][r.etag] \in byOther
<1>a. TypeServer /\ ServerFits /\ TypeGhosts /\ texts \in Nat
  BY DEF IInv, TypeOK, TypeGhosts
<1>1. r.href \in Names /\ r.etag \in 1 .. Len(history[r.href])
  <2>1. r.href \in Names \cup {0} /\ r.etag \in Nat /\ r.href # 0 /\ r.etag <= Len(history[r.href])
    BY DEF RowFits, Row
  <2>2. Len(history[r.href]) \in Nat
    BY <1>a, <2>1 DEF TypeServer
  <2> QED
    BY <2>1, <2>2
<1>2. history'[r.href][r.etag] = history[r.href][r.etag]
  BY <1>1 DEF CalStep, Kept
<1>3. history[r.href][r.etag] <= texts
  BY <1>a, <1>1 DEF ServerFits
<1>4. history[r.href][r.etag] \in Nat
  BY <1>a, <1>1, ThereFacts DEF Texts
<1>5. history[r.href][r.etag] \in byOther
  BY <1>a, <1>2, <1>3, <1>4 DEF CalStep
<1> QED
  BY <1>2, <1>5

\* What was in sight stays in sight.
LEMMA SightedKept ==
  ASSUME IInv, TypeServer', CalStep, NEW r \in Row, RowFits(r), NEW t \in Texts, t <= texts, Sighted(r, t)
  PROVE  r.etag # 0 /\ history'[r.href][r.etag] \in byOther' =>
           history'[r.href][r.etag] \in (knows'[t] \cup ({t} \cap byOther')) \cup settled'
<1> SUFFICES ASSUME r.etag # 0, history'[r.href][r.etag] \in byOther'
             PROVE  history'[r.href][r.etag] \in (knows'[t] \cup ({t} \cap byOther')) \cup settled'
  OBVIOUS
<1>1. history'[r.href][r.etag] = history[r.href][r.etag] /\ history[r.href][r.etag] \in byOther
  BY SightedBack
<1>2. history[r.href][r.etag] \in InSight(t) \cup settled
  BY <1>1 DEF Sighted
<1>3. knows'[t] = knows[t] /\ byOther \subseteq byOther' /\ settled \subseteq settled'
  BY DEF CalStep
<1> QED
  BY <1>1, <1>2, <1>3 DEF InSight

\* A text that is not another client's does not become one.
LEMMA OwnKept ==
  ASSUME IInv, CalStep, NEW t \in Texts, t <= texts, t \notin byOther
  PROVE  t \notin byOther'
BY DEF CalStep, IInv, TypeOK, TypeGhosts, Texts

\* The rows stay written in sight of the versions they name.
LEMMA RowsSightedStep ==
  ASSUME IInv, IInv', Sight, kind = "caldav", CalStep
  PROVE  RowsSighted'
<1>a. /\ RowsSighted /\ QueueSighted /\ OwnPuts /\ EditorSighted /\ TypeStore /\ TypeSync /\ TypeServer /\ TypeServer'
      /\ QueueFits /\ TaskFits /\ TypeBeside /\ texts \in Nat
  BY DEF Sight, IInv, TypeOK, TypeGhosts
<1> SUFFICES ASSUME NEW i \in DOMAIN task', task'[i].etag # 0, history'[task'[i].href][task'[i].etag] \in byOther'
             PROVE  history'[task'[i].href][task'[i].etag] \in
                      (knows'[task'[i].text] \cup ({task'[i].text} \cap byOther')) \cup settled'
  BY DEF RowsSighted, Sighted, InSight
<1>t. RowStep(i)
  BY DEF CalStep
<1>r. i \in DOMAIN task => /\ task[i] \in Row /\ RowFits(task[i]) /\ task[i].text \in Texts /\ task[i].text <= texts
                           /\ Sighted(task[i], task[i].text)
  BY <1>a DEF TypeStore, TaskFits, RowFits, RowsSighted, Row
<1>1. CASE Alike(i)
  BY <1>a, <1>1, <1>r, SightedKept DEF Alike
<1>2. CASE Located(i) \/ Again(i)
  BY <1>2 DEF Located, Again
<1>3. CASE Answered(i)
  <2>1. Head1.text \notin byOther /\ Head1.text \in Texts /\ Head1.text <= texts
    BY <1>a, <1>3, HeadFacts DEF Answered, OwnPuts, Head1, QueueFits, RowFits, Row
  <2>2. Head1.text \notin byOther'
    BY <2>1, OwnKept
  <2> QED
    BY <1>3, <2>2 DEF Answered
<1>4. CASE Fresh(i)
  BY <1>4 DEF Fresh
<1>5. CASE Mine(i)
  BY <1>5 DEF Mine
<1>6. CASE i \in DOMAIN task /\ Edited(i) /\ InSightOf(i)
  <2>1. /\ task'[i].etag = task[i].etag /\ task'[i].href = task[i].href /\ task'[i].text = texts'
    BY <1>6 DEF Edited
  <2>2. /\ history'[task[i].href][task[i].etag] = history[task[i].href][task[i].etag]
        /\ history[task[i].href][task[i].etag] \in byOther
    BY <1>a, <1>6, <1>r, <2>1, SightedBack
  <2>3. history[task[i].href][task[i].etag] \in knows'[texts'] \cup settled
    <3>1. CASE knows'[texts'] = InSight(task[i].text)
      BY <1>6, <1>r, <2>1, <2>2, <3>1 DEF Sighted
    <3>2. CASE editor.id = i /\ EditorCurrent /\ knows'[texts'] = InSight(editor.text)
      <4>1. Sighted(task[i], editor.text)
        BY <1>a, <3>2 DEF EditorSighted, EditorCurrent
      <4> QED
        BY <2>1, <2>2, <3>2, <4>1 DEF Sighted
    <3> QED
      BY <1>6, <3>1, <3>2 DEF InSightOf
  <2> QED
    BY <2>1, <2>2, <2>3 DEF CalStep
<1>7. CASE i \in DOMAIN task /\ Deleted(i)
  BY <1>a, <1>7, <1>r, SightedKept DEF Deleted
<1>8. CASE i \notin DOMAIN task /\ Made(i)
  BY <1>8 DEF Made
<1> QED
  BY <1>t, <1>1, <1>2, <1>3, <1>4, <1>5, <1>6, <1>7, <1>8 DEF RowStep

\* And so do the copies.
LEMMA QueueSightedStep ==
  ASSUME IInv, IInv', Sight, kind = "caldav", CalStep
  PROVE  QueueSighted'
<1>a. /\ RowsSighted /\ QueueSighted /\ TypeStore /\ TypeSync /\ TypeServer'
      /\ QueueFits /\ TaskFits
  BY DEF Sight, IInv, TypeOK
<1> SUFFICES ASSUME NEW k \in Queued'
             PROVE  sync'.queue[k].etag # 0 /\ history'[sync'.queue[k].href][sync'.queue[k].etag] \in byOther' =>
                    history'[sync'.queue[k].href][sync'.queue[k].etag] \in
                      (knows'[sync'.queue[k].text] \cup ({sync'.queue[k].text} \cap byOther')) \cup settled'
  BY DEF QueueSighted, Sighted, InSight
<1>t. CopyStep(k)
  BY DEF CalStep
<1>1. CASE /\ k \in Queued /\ sync'.queue[k].text = sync.queue[k].text
           /\ sync'.queue[k].href = sync.queue[k].href /\ sync'.queue[k].etag = sync.queue[k].etag
  <2>1. /\ sync.queue[k] \in Row /\ RowFits(sync.queue[k]) /\ sync.queue[k].text \in Texts
        /\ sync.queue[k].text <= texts /\ Sighted(sync.queue[k], sync.queue[k].text)
    BY <1>a, <1>1 DEF TypeSync, QueueFits, RowFits, QueueSighted, Row
  <2> QED
    BY <1>a, <1>1, <2>1, SightedKept
<1>2. CASE sync'.queue[k].etag = 0
  BY <1>2
<1>3. CASE k \in DOMAIN task /\ sync'.queue[k] = task[k]
  <2>1. /\ task[k] \in Row /\ RowFits(task[k]) /\ task[k].text \in Texts
        /\ task[k].text <= texts /\ Sighted(task[k], task[k].text)
    BY <1>a, <1>3 DEF TypeStore, TaskFits, RowFits, RowsSighted, Row
  <2> QED
    BY <1>a, <1>3, <2>1, SightedKept
<1> QED
  BY <1>t, <1>1, <1>2, <1>3 DEF CopyStep

\* What waits to be written stays this client's own.
LEMMA OwnPutsStep ==
  ASSUME IInv, IInv', Sight, kind = "caldav", CalStep
  PROVE  OwnPuts'
<1>a. /\ OwnPuts /\ TypeStore /\ TypeSync /\ TypeGhosts /\ TypeGhosts' /\ TypeBeside
      /\ QueueFits /\ TaskFits /\ texts \in Nat /\ texts' \in Nat /\ SettlerFits /\ SettlerFits' /\ lastId \in Nat
  BY DEF Sight, IInv, TypeOK, TypeGhosts, TypeStore
<1>b. ServerFits /\ ServerFits'
  BY DEF IInv
<1>r. \A i \in DOMAIN task : /\ task[i].text \in Texts /\ task[i].text <= texts /\ task[i].text \in Nat
                             /\ task[i].revision \in Nat
  BY <1>a DEF TypeStore, TaskFits, RowFits, Row, Texts
<1>n. \A t \in Nat : t > texts /\ byOther' = byOther => t \notin byOther'
  BY <1>a, <1>b DEF ServerFits
<1>o. \A t \in Texts : t <= texts /\ t \notin byOther => t \notin byOther'
  BY OwnKept
<1>s. \A i \in DOMAIN task' : task'[i].text \in Nat /\ i \in Nat
  BY DEF IInv, TypeOK, TypeStore, Row, Texts
<1>1. ASSUME NEW i \in DOMAIN task', task'[i].pending = "put" PROVE task'[i].text \notin byOther'
  <2>t. RowStep(i)
    BY DEF CalStep
  <2>1. CASE Alike(i) \/ Located(i) \/ Mine(i)
    BY <1>a, <1>r, <1>o, <1>1, <2>1 DEF Alike, Located, Mine, OwnPuts
  <2>2. CASE Answered(i)
    <3>1. task[i].pending = "put" /\ task'[i].text = task[i].text /\ i \in DOMAIN task
      BY <1>1, <2>2 DEF Answered
    <3> QED
      BY <1>a, <1>r, <1>o, <3>1 DEF OwnPuts
  <2>3. CASE Again(i)
    BY <1>a, <1>r, <1>o, <2>3 DEF Again, OwnPuts
  <2>4. CASE i \in DOMAIN task /\ Edited(i) /\ byOther' = byOther
    BY <1>a, <1>n, <2>4 DEF Edited
  <2>5. CASE i \notin DOMAIN task /\ Made(i) /\ byOther' = byOther
    BY <1>n, <1>s, <2>5 DEF Made
  <2> QED
    BY <1>1, <2>t, <2>1, <2>2, <2>3, <2>4, <2>5 DEF RowStep, Fresh, Deleted
<1>2. ASSUME NEW k \in Queued', sync'.queue[k].pending = "put" PROVE sync'.queue[k].text \notin byOther'
  <2>t. CopyStep(k)
    BY DEF CalStep
  <2>q. \A l \in Queued : sync.queue[l].text \in Texts /\ sync.queue[l].text <= texts
    BY <1>a DEF TypeSync, QueueFits, RowFits, Row
  <2> QED
    BY <1>a, <1>r, <1>o, <1>2, <2>t, <2>q DEF CopyStep, OwnPuts
<1>3. ASSUME settler'.pc # "idle", settler'.was # "delete", settler'.id \in DOMAIN task'
      PROVE  task'[settler'.id].text \notin byOther'
  <2> DEFINE i == settler'.id
  <2>1. CASE settler.pc # "idle" /\ i = settler.id /\ settler'.was = settler.was
    <3>1. i \in DOMAIN task' /\ RowStep(i) /\ i <= lastId /\ i \in Nat
      BY <1>a, <1>3, <2>1 DEF CalStep, TypeBeside
    <3>2. i \in DOMAIN task
      BY <1>a, <3>1 DEF RowStep, Alike, Located, Answered, Fresh, Mine, Again, Made
    <3>3. /\ task[i].text \notin byOther /\ task[i].conflict \in Unsettled
      BY <1>a, <1>3, <2>1, <3>2 DEF OwnPuts, SettlerFits
    <3>4. task[i].text \notin byOther'
      BY <1>o, <1>r, <3>2, <3>3
    <3>5. CASE task'[i].text = task[i].text
      BY <3>4, <3>5
    <3>6. CASE Edited(i) /\ byOther' = byOther
      BY <1>a, <1>n, <3>6 DEF Edited
    <3>7. CASE Fresh(i)
      <4>1. task'[i].conflict \in Unsettled
        BY <1>3, <1>a, <3>1 DEF SettlerFits
      <4>2. \A j \in DOMAIN task' : task'[j].conflict \in Unsettled => task'[j].pending # "none"
        BY DEF IInv, TaskFits, RowKept
      <4> QED
        BY <3>1, <3>7, <4>1, <4>2 DEF Fresh
    <3> QED
      BY <3>1, <3>2, <3>5, <3>6, <3>7
         DEF RowStep, Alike, Located, Answered, Mine, Again, Deleted
  <2>2. CASE /\ task' = task /\ i \in DOMAIN task /\ settler'.was = task[i].pending
             /\ task[i].conflict \in Unsettled
    <3>1. task[i].pending = "put"
      <4>1. RowKept(task[i]) /\ task[i] \in Row
        BY <1>a, <2>2 DEF TaskFits, TypeStore
      <4> QED
        BY <1>3, <2>2, <4>1 DEF RowKept, Row
    <3> QED
      BY <1>a, <1>o, <1>r, <2>2, <3>1 DEF OwnPuts
  <2> QED
    BY <1>3, <2>1, <2>2 DEF CalStep, SettlerStep
<1> QED
  BY <1>1, <1>2, <1>3 DEF OwnPuts

\* The editor stays sight enough, or its row is another.
LEMMA EditorSightedStep ==
  ASSUME IInv, IInv', Sight, kind = "caldav", CalStep
  PROVE  EditorSighted'
<1>a. /\ EditorSighted /\ RowsSighted /\ OwnPuts /\ TypeStore /\ TypeStore' /\ TypeSync /\ TypeBeside /\ TypeBeside'
      /\ QueueFits /\ TaskFits /\ TypeServer' /\ texts \in Nat /\ texts' \in Nat /\ lastId \in Nat /\ texts <= texts'
  BY DEF Sight, IInv, TypeOK, TypeGhosts, TypeStore, CalStep
<1>r. \A i \in DOMAIN task : /\ task[i] \in Row /\ RowFits(task[i]) /\ task[i].text \in Texts /\ task[i].text <= texts
                             /\ task[i].revision \in Nat
  BY <1>a DEF TypeStore, TaskFits, RowFits, Row
<1>s. \A i \in DOMAIN task' : task'[i].revision \in Nat
  BY <1>a DEF TypeStore, Row
<1>1. CASE editor' = editor
  <2> DEFINE e == editor.id
  <2>1. editor'.text <= texts'
    BY <1>a, <1>1 DEF EditorSighted, TypeBeside, Texts
  <2>2. ASSUME e \in DOMAIN task'
        PROVE  /\ editor.revision <= task'[e].revision
               /\ editor.revision = task'[e].revision /\ task'[e].etag # 0
                    /\ history'[task'[e].href][task'[e].etag] \in byOther' =>
                  history'[task'[e].href][task'[e].etag] \in
                    (knows'[editor.text] \cup ({editor.text} \cap byOther')) \cup settled'
    <3>t. RowStep(e) /\ e <= lastId /\ e \in Nat
      BY <1>a, <2>2 DEF CalStep, TypeBeside
    <3>d. e \in DOMAIN task
      BY <1>a, <3>t DEF RowStep, Alike, Located, Answered, Fresh, Mine, Again, Made
    <3>e. e # 0 /\ editor.text \in Texts /\ editor.text <= texts /\ editor.revision \in Nat
      BY <1>a, <3>d DEF TypeStore, TypeBeside, EditorSighted
    <3>f. /\ editor.revision <= task[e].revision
          /\ editor.revision = task[e].revision => Sighted(task[e], editor.text)
      BY <1>a, <3>d DEF EditorSighted
    <3>k. editor.revision = task[e].revision /\ task[e].etag # 0 /\ history'[task[e].href][task[e].etag] \in byOther' =>
             history'[task[e].href][task[e].etag] \in
                    (knows'[editor.text] \cup ({editor.text} \cap byOther')) \cup settled'
      BY <1>a, <1>r, <3>d, <3>e, <3>f, SightedKept
    <3>m. task[e].revision \in Nat /\ task'[e].revision \in Nat
      BY <1>r, <1>s, <2>2, <3>d
    <3>1. CASE Alike(e) \/ Deleted(e) \/ Edited(e)
      <4>1. /\ task[e].revision <= task'[e].revision /\ task'[e].etag = task[e].etag /\ task'[e].href = task[e].href
        BY <3>1, <3>m DEF Alike, Deleted, Edited
      <4> QED
        BY <3>e, <3>f, <3>k, <3>m, <4>1
    <3>2. CASE Located(e) \/ Again(e)
      BY <3>2, <3>f DEF Located, Again
    <3>3. CASE Answered(e)
      <4>1. Head1.text \notin byOther /\ Head1.text \in Texts /\ Head1.text <= texts
        BY <1>a, <3>3, HeadFacts DEF Answered, OwnPuts, Head1, QueueFits, RowFits, Row
      <4>2. Head1.text \notin byOther'
        BY <4>1, OwnKept
      <4> QED
        BY <3>3, <3>f, <4>2 DEF Answered
    <3>4. CASE Fresh(e)
      BY <3>4, <3>d, <3>e, <3>f, <3>m DEF Fresh
    <3>5. CASE Mine(e)
      BY <3>5, <3>f DEF Mine
    <3> QED
      BY <3>t, <3>d, <3>1, <3>2, <3>3, <3>4, <3>5 DEF RowStep
  <2> QED
    BY <1>1, <2>1, <2>2 DEF EditorSighted, Sighted, InSight
<1>2. CASE editor' = NoEditor
  <2>1. editor'.id = 0 /\ editor'.text = 0 /\ 0 \notin DOMAIN task'
    BY <1>a, <1>2 DEF NoEditor, TypeStore
  <2> QED
    BY <1>a, <2>1 DEF EditorSighted
<1>3. CASE /\ task' = task /\ editor'.id \in DOMAIN task /\ editor'.text = task[editor'.id].text
           /\ editor'.revision = task[editor'.id].revision
  <2> DEFINE e == editor'.id
  <2>1. Sighted(task[e], task[e].text) /\ task[e] \in Row /\ RowFits(task[e]) /\ task[e].text \in Texts
        /\ task[e].text <= texts /\ task[e].revision \in Nat /\ task[e].text \in Nat
    BY <1>a, <1>r, <1>3 DEF RowsSighted, Texts
  <2>2. task[e].etag # 0 /\ history'[task[e].href][task[e].etag] \in byOther' =>
             history'[task[e].href][task[e].etag] \in
                    (knows'[task[e].text] \cup ({task[e].text} \cap byOther')) \cup settled'
    BY <1>a, <2>1, SightedKept
  <2>3. editor'.text <= texts' /\ editor'.revision <= task'[e].revision
    BY <1>a, <1>3, <2>1
  <2> QED
    BY <1>3, <2>2, <2>3 DEF EditorSighted, Sighted, InSight
<1> QED
  BY <1>1, <1>2, <1>3 DEF CalStep, EditorStep

\* A row with nothing pending stays the version it names.
LEMMA CleanStep ==
  ASSUME IInv, IInv', CleanIsTheServers, kind = "caldav", CalStep
  PROVE  CleanIsTheServers'
<1>a. TypeStore /\ TypeServer /\ TaskFits /\ QueueRows
  BY DEF IInv, TypeOK
<1> SUFFICES ASSUME NEW i \in DOMAIN task', task'[i].pending = "none", task'[i].etag # 0
             PROVE  task'[i].text = history'[task'[i].href][task'[i].etag] \/ task'[i].text \in cut'
  BY DEF CleanIsTheServers
<1>t. RowStep(i)
  BY DEF CalStep
<1>1. CASE Alike(i)
  <2>1. /\ task[i] \in Row /\ RowFits(task[i]) /\ task[i].etag # 0 /\ task[i].pending = "none"
        /\ task[i].text = history[task[i].href][task[i].etag] \/ task[i].text \in cut
    BY <1>a, <1>1 DEF Alike, TypeStore, TaskFits, CleanIsTheServers
  <2>2. task[i].href \in Names \cup {0} /\ task[i].etag \in Nat /\ task[i].href # 0 /\ task[i].etag <= Len(history[task[i].href])
    BY <2>1 DEF RowFits, Row
  <2>3. task[i].href \in Names /\ Len(history[task[i].href]) \in Nat
    BY <1>a, <2>2 DEF TypeServer
  <2>4. task[i].etag \in 1 .. Len(history[task[i].href])
    BY <2>1, <2>2, <2>3
  <2>5. history'[task[i].href][task[i].etag] = history[task[i].href][task[i].etag]
    BY <2>3, <2>4 DEF CalStep, Kept
  <2> QED
    BY <1>1, <2>1, <2>5 DEF Alike, CalStep
<1>2. CASE Answered(i)
  BY <1>2 DEF Answered, CalStep
<1> QED
  BY <1>t, <1>1, <1>2 DEF RowStep, Located, Fresh, Mine, Again, Edited, Deleted, Made

-----------------------------------------------------------------------------
(* Every step of a CalDAV list is such a step.                             *)

\* Nothing happens to the rows and to what was written.
LEMMA QuietCal ==
  ASSUME IInv, Kept, UNCHANGED <<task, lastId>>, UNCHANGED <<byOther, knows, settled, cut, texts>>,
         Queued' \subseteq Queued, \A k \in Queued' : sync'.queue[k] = sync.queue[k],
         SettlerStep, EditorStep
  PROVE  CalStep
<1>1. texts \in Nat /\ lastId \in Nat
  BY DEF IInv, TypeOK, TypeGhosts, TypeStore
<1>2. \A i \in DOMAIN task' : RowStep(i)
  BY DEF RowStep, Alike
<1>3. \A k \in Queued' : CopyStep(k)
  BY DEF CopyStep
<1> QED
  BY <1>1, <1>2, <1>3 DEF CalStep

\* The same settler and editor.
LEMMA SameBeside ==
  ASSUME UNCHANGED <<settler, editor>>
  PROVE  SettlerStep /\ EditorStep
BY DEF SettlerStep, EditorStep

\* The same server.
LEMMA QuietKept ==
  ASSUME IInv, UNCHANGED history
  PROVE  Kept
<1>1. \A p \in Names : Len(history[p]) \in Nat
  BY DEF IInv, TypeOK, TypeServer
<1> QED
  BY <1>1 DEF Kept

\* What the person does.
LEMMA PersonCal ==
  ASSUME IInv, PersonStep, PersonSight, editor' = editor \/ editor' = NoEditor
  PROVE  CalStep
<1>1. /\ UNCHANGED <<kind, sync, settler, history, marked, names, byOther, settled, again>> /\ cut \subseteq cut'
      /\ texts <= texts' /\ lastId <= lastId'
      /\ \A i \in DOMAIN task' :
           \/ i \in DOMAIN task /\ (task'[i] = task[i] \/ Edited(i) \/ Deleted(i))
           \/ i \notin DOMAIN task /\ Made(i)
  BY DEF PersonStep
<1>2. \A i \in DOMAIN task' : RowStep(i)
  BY <1>1 DEF RowStep, Alike, PersonSight
<1>3. \A k \in Queued' : CopyStep(k)
  BY <1>1 DEF CopyStep, Queued
<1>4. Kept
  BY <1>1, QuietKept
<1>5. SettlerStep /\ EditorStep
  BY <1>1 DEF SettlerStep, EditorStep
<1> QED
  BY <1>1, <1>2, <1>3, <1>4, <1>5 DEF CalStep, PersonSight

\* The actions of the person, but for the choice written.
LEMMA PersonActionsCal ==
  ASSUME IInv,
         \/ Create \/ SaveEditor
         \/ \E id \in DOMAIN task : CompleteOccurrence(id) \/ Delete(id) \/ \E stops \in BOOLEAN : Complete(id, stops)
  PROVE  CalStep
<1>1. PersonStep /\ PersonSight
  BY CreateInv, SaveEditorInv, CompleteOccurrenceInv, DeleteInv, CompleteInv
<1>2. editor' = editor \/ editor' = NoEditor
  BY DEF Create, SaveEditor, CompleteOccurrence, Delete, Complete
<1> QED
  BY <1>1, <1>2, PersonCal

\* The person opens a task, or asks for a conflict to be settled, and the
\* server's copy is read.
LEMMA LooksCal ==
  ASSUME IInv,
         \/ SettleGet
         \/ \E id \in DOMAIN task : OpenEditor(id) \/ \E keep \in {"mine", "server"} : SettleAsk(id, keep)
  PROVE  CalStep
<1>1. UNCHANGED <<task, lastId>> /\ UNCHANGED <<byOther, knows, settled, cut, texts>> /\ UNCHANGED <<sync, history>>
  BY DEF SettleGet, OpenEditor, SettleAsk, server, ghosts
<1>2. Kept
  BY <1>1, QuietKept
<1>3. Queued' = Queued /\ \A k \in Queued' : sync'.queue[k] = sync.queue[k]
  BY <1>1 DEF Queued
<1>4. SettlerStep
  <2>1. CASE SettleGet
    BY <2>1, SettleGetInv DEF SettlerStep, SettleGet
  <2>2. CASE \E id \in DOMAIN task : OpenEditor(id)
    BY <2>2 DEF SettlerStep, OpenEditor
  <2>3. CASE \E id \in DOMAIN task, keep \in {"mine", "server"} : SettleAsk(id, keep)
    BY <1>1, <2>3 DEF SettlerStep, SettleAsk
  <2> QED
    BY <2>1, <2>2, <2>3
<1>5. EditorStep
  BY <1>1 DEF EditorStep, SettleGet, OpenEditor, SettleAsk
<1> QED
  BY <1>1, <1>2, <1>3, <1>4, <1>5, QuietCal

\* The choice is written.
LEMMA SettleWriteCal ==
  ASSUME IInv, kind = "caldav", SettleWrite
  PROVE  CalStep
<1>a. TypeStore /\ TypeBeside /\ TypeGhosts /\ texts \in Nat /\ lastId \in Nat /\ SettlerFits /\ TypeServer
  BY DEF IInv, TypeOK, TypeGhosts, TypeStore
<1> DEFINE id == settler.id
<1>1. /\ SettleStep(id) /\ settler.pc = "write" /\ settler' = NoSettler
      /\ UNCHANGED <<kind, lastId, sync, editor>> /\ UNCHANGED <<history, marked, names>>
      /\ UNCHANGED <<byOther, knows, cut, root, texts, asked, faults>>
  BY SettleWriteFacts
<1>2. settled \subseteq settled'
  BY <1>1 DEF SettleStep, TakesServers, KeepsMine, GivesUp, MakesAgain
<1>3. ASSUME NEW i \in DOMAIN task' PROVE RowStep(i)
  <2>1. CASE i # id
    BY <1>1, <1>3, <2>1 DEF SettleStep, RowStep, Alike
  <2>2. CASE i = id
    <3>1. id \in DOMAIN task
      BY <1>1, <1>3, <2>2 DEF SettleStep
    <3>2. /\ task[id] \in Row /\ task[id].pending # "none" /\ task[id].href = settler.href
          /\ settler.href \in Names
      BY <1>1, <3>1, SettledRow
    <3>3. CASE TakesServers(id)
      <4>1. settler.got \in Nat /\ history[settler.href][settler.got] \in Texts
        <5>1. /\ Len(history[settler.href]) \in Nat /\ settler.got \in Nat
              /\ \A k \in 1 .. Len(history[settler.href]) : history[settler.href][k] \in Texts \cup {0}
          BY <1>a, <3>2, ThereFacts DEF TypeBeside
        <5>2. settler.got # 0 /\ settler.got <= Len(history[settler.href]) /\ history[settler.href][settler.got] # 0
          BY <1>a, <1>1, <3>3 DEF SettlerFits, TakesServers
        <5>3. settler.got \in 1 .. Len(history[settler.href])
          BY <5>1, <5>2
        <5> QED
          BY <5>1, <5>2, <5>3
      <4> DEFINE r == Taken(task[id], settler.href, settler.got)
      <4>2. task'[id] = r
        BY <3>3 DEF TakesServers
      <4>3. /\ r.text = history[settler.href][settler.got] /\ r.href = settler.href
            /\ r.etag = settler.got /\ r.pending = "none" /\ r.revision = task[id].revision + 1
        BY <3>2, <4>1, TakenFacts
      <4> HIDE DEF r
      <4>4. Fresh(id)
        BY <1>1, <3>1, <4>2, <4>3 DEF Fresh
      <4> QED
        BY <2>2, <4>4 DEF RowStep
    <3>4. CASE KeepsMine(id)
      <4> DEFINE r == Requeued(task[id])
      <4>1. /\ r.text = task[id].text /\ r.href = task[id].href /\ r.etag = settler.got
            /\ r.pending = task[id].pending /\ r.revision = task[id].revision
        BY <1>a, <3>2, MineFacts
      <4>2. /\ task'[id] = r /\ settled' = settled \cup ({history[settler.href][settler.got]} \cap byOther)
        BY <3>4 DEF KeepsMine
      <4> HIDE DEF r
      <4>3. Mine(id)
        BY <1>1, <3>1, <3>2, <4>1, <4>2 DEF Mine
      <4> QED
        BY <2>2, <4>3 DEF RowStep
    <3>5. CASE MakesAgain(id)
      <4> DEFINE r == MadeAgain(task[id])
      <4>1. /\ r.text = task[id].text /\ r.etag = 0 /\ r.pending = "put" /\ r.revision = task[id].revision
        BY <1>a, <3>2, MineFacts
      <4>2. task'[id] = r /\ settler.was # "delete"
        BY <3>5 DEF MakesAgain
      <4> HIDE DEF r
      <4>3. Again(id)
        BY <1>1, <3>1, <4>1, <4>2 DEF Again
      <4> QED
        BY <2>2, <4>3 DEF RowStep
    <3>6. CASE GivesUp(id)
      BY <1>3, <2>2, <3>6 DEF GivesUp
    <3> QED
      BY <1>1, <3>1, <3>3, <3>4, <3>5, <3>6 DEF SettleStep
  <2> QED
    BY <2>1, <2>2
<1>4. \A k \in Queued' : CopyStep(k)
  BY <1>1 DEF CopyStep, Queued
<1>5. SettlerStep /\ EditorStep
  BY <1>1 DEF SettlerStep, EditorStep, NoSettler
<1>6. Kept
  BY <1>1, QuietKept
<1> QED
  BY <1>a, <1>1, <1>2, <1>3, <1>4, <1>5, <1>6 DEF CalStep

\* A sync starts, goes on or ends, and the list is read.
LEMMA MovesCal ==
  ASSUME IInv, kind = "caldav", SyncStart \/ QueueDone \/ HasPlace \/ List \/ SyncFails \/ Crash
  PROVE  CalStep
<1>1. UNCHANGED <<task, lastId>> /\ UNCHANGED <<byOther, knows, settled, cut, texts>> /\ UNCHANGED history
  BY DEF SyncStart, QueueDone, HasPlace, List, SyncFails, Crash, server, ghosts
<1>2. Kept
  BY <1>1, QuietKept
<1>3. SettlerStep /\ EditorStep
  BY DEF SyncStart, QueueDone, HasPlace, List, SyncFails, Crash, SettlerStep, EditorStep, NoSettler
<1>4. CASE QueueDone \/ HasPlace
  <2>1. sync'.queue = sync.queue
    BY <1>4 DEF QueueDone, HasPlace, Go, IInv, TypeOK, TypeSync
  <2> QED
    BY <1>1, <1>2, <1>3, <2>1, QuietCal DEF Queued
<1>5. CASE List \/ SyncFails \/ Crash
  <2>1. sync' = NoSync \/ sync' = [NoSync EXCEPT !.pc = "reconcile", !.listing = [p \in Names |-> Tag(p)]]
    BY <1>5 DEF List, SyncFails, Crash
  <2>2. Queued' = {}
    BY <2>1, NoSyncFacts DEF Queued, NoSync
  <2> QED
    BY <1>1, <1>2, <1>3, <2>2, QuietCal
<1>6. CASE SyncStart
  <2>1. sync' = [NoSync EXCEPT !.pc = "list"] \/ sync' = [NoSync EXCEPT !.pc = "next", !.queue = QueueOf]
    BY <1>6 DEF SyncStart
  <2>2. CASE sync' = [NoSync EXCEPT !.pc = "list"]
    <3>1. Queued' = {}
      BY <2>2, NoSyncFacts DEF Queued, NoSync
    <3> QED
      BY <1>1, <1>2, <1>3, <3>1, QuietCal
  <2>3. CASE sync' = [NoSync EXCEPT !.pc = "next", !.queue = QueueOf]
    <3>1. sync'.queue = QueueOf
      BY <2>3 DEF NoSync
    <3>2. \A k \in Queued' : k \in DOMAIN task /\ sync'.queue[k] = task[k]
      BY <3>1 DEF Queued, QueueOf
    <3>3. \A k \in Queued' : CopyStep(k)
      BY <3>2 DEF CopyStep
    <3>4. \A i \in DOMAIN task' : RowStep(i)
      BY <1>1 DEF RowStep, Alike
    <3>5. texts \in Nat /\ lastId \in Nat
      BY DEF IInv, TypeOK, TypeGhosts, TypeStore
    <3> QED
      BY <1>1, <1>2, <1>3, <3>3, <3>4, <3>5 DEF CalStep
  <2> QED
    BY <2>1, <2>2, <2>3
<1> QED
  BY <1>4, <1>5, <1>6

\* The server takes or refuses what is sent.
LEMMA SendsCal ==
  ASSUME IInv, kind = "caldav", ServerPuts \/ ServerDeletes
  PROVE  CalStep
<1>a. TypeSync /\ TypeStore /\ TypeServer /\ Phase /\ HeadFits
  BY DEF IInv, TypeOK
<1>1. /\ UNCHANGED <<task, lastId>> /\ UNCHANGED <<byOther, knows, settled, cut, texts>> /\ UNCHANGED <<settler, editor>>
      /\ sync.pc = "send"
  BY DEF ServerPuts, ServerDeletes, ghosts, At
<1>b. Queued # {}
  BY <1>a, <1>1 DEF Phase
<1>h. Head1 \in Row /\ Head1.href \in Names /\ Head1.text \in Texts
  BY <1>a, <1>1, <1>b, HeadFacts DEF HeadFits, Row
<1>2. \E word, tag : Says(word, tag)
  BY DEF ServerPuts, ServerDeletes
<1>3. sync'.queue = sync.queue
  BY <1>a, <1>2 DEF Says, TypeSync
<1>4. Kept
  <2>1. \/ UNCHANGED history
        \/ history' = [history EXCEPT ![Head1.href] = Append(@, Head1.text)]
        \/ history' = [history EXCEPT ![Head1.href] = Append(@, 0)]
    BY DEF ServerPuts, ServerDeletes
  <2>2. Head1.text \in Texts \cup {0} /\ 0 \in Texts \cup {0}
    BY <1>h
  <2> QED
    BY <1>a, <1>h, <2>1, <2>2, QuietKept, AppendFacts
<1> QED
  BY <1>1, <1>3, <1>4, SameBeside, QuietCal DEF Queued

\* The row at the head of the queue changes, and the copies stay or go.
LEMMA HeadCal ==
  ASSUME IInv, UNCHANGED <<lastId, settler, editor, history>>, UNCHANGED <<byOther, knows, settled, cut, texts>>,
         \A k \in Queued' : CopyStep(k),
         \A i \in DOMAIN task' : i # HeadId => i \in DOMAIN task /\ task'[i] = task[i],
         HeadId \in DOMAIN task' => RowStep(HeadId)
  PROVE  CalStep
<1>1. Kept
  BY QuietKept
<1>2. \A i \in DOMAIN task' : RowStep(i)
  BY DEF RowStep, Alike
<1>3. texts \in Nat /\ lastId \in Nat
  BY DEF IInv, TypeOK, TypeGhosts, TypeStore
<1> QED
  BY <1>1, <1>2, <1>3, SameBeside DEF CalStep

\* It goes, or gets its place.
LEMMA PlacesCal ==
  ASSUME IInv, kind = "caldav", DropDeleted \/ KeepPlace
  PROVE  CalStep
<1>a. TypeSync /\ TypeStore /\ TypeServer /\ QueueFits /\ QueueRows /\ TaskFits
  BY DEF IInv, TypeOK
<1>1. /\ UNCHANGED <<lastId, settler, editor, history>> /\ UNCHANGED <<byOther, knows, settled, cut, texts>>
      /\ Queued # {} /\ sync.pc = "next"
  BY DEF DropDeleted, KeepPlace, At, server, ghosts
<1>h. HeadId \in Queued /\ Head1 \in Row /\ Head1 = sync.queue[HeadId]
  BY <1>a, <1>1, HeadFacts DEF Head1
<1>2. CASE DropDeleted
  <2>1. DOMAIN task' = DOMAIN task \ {HeadId} /\ \A i \in DOMAIN task' : task'[i] = task[i]
    BY <1>a, <1>2, DropFacts DEF DropDeleted, TypeStore
  <2>2. Queued' = Queued \ {HeadId} /\ \A k \in Queued' : sync'.queue[k] = sync.queue[k]
    BY <1>a, <1>1, <1>2, NextTaskFacts DEF DropDeleted
  <2>3. \A k \in Queued' : CopyStep(k)
    BY <2>2 DEF CopyStep
  <2> QED
    BY <1>1, <2>1, <2>3, HeadCal
<1>3. CASE KeepPlace
  <2>1. /\ Update(HeadId, [task[HeadId] EXCEPT !.href = names']) /\ Head1.href = 0
        /\ sync' = [sync EXCEPT !.pc = "send", !.queue[HeadId].href = names']
        /\ names' \in Names
    BY <1>a, <1>3, NewNameFacts DEF KeepPlace
  <2>2. Head1.etag = 0 /\ (HeadId \in DOMAIN task => task[HeadId].etag = 0 /\ task[HeadId] \in Row)
    BY <1>a, <1>1, <1>h, <2>1 DEF QueueFits, RowFits, QueueRows, TaskFits, TypeStore, AtReadBack
  <2> DEFINE r == [task[HeadId] EXCEPT !.href = names']
             c == [Head1 EXCEPT !.href = names']
  <2>3. HeadId \in DOMAIN task => /\ r \in Row /\ r.text = task[HeadId].text /\ r.etag = 0
                                  /\ r.pending = task[HeadId].pending /\ r.revision = task[HeadId].revision
    BY <2>1, <2>2 DEF Row
  <2>4. /\ c \in Row /\ c.text = Head1.text /\ c.etag = 0 /\ c.pending = Head1.pending
    BY <1>h, <2>1, <2>2 DEF Row
  <2>5. sync' = [sync EXCEPT !.pc = "send", !.queue = [sync.queue EXCEPT ![HeadId] = c]] /\ Update(HeadId, r)
    BY <1>h, <2>1
  <2> HIDE DEF r, c
  <2>6. /\ Queued' = Queued /\ sync'.queue[HeadId] = c
        /\ \A k \in Queued : k # HeadId => sync'.queue[k] = sync.queue[k]
    <3>1. "send" \in {"route", "send", "readback"} /\ lastId' = lastId
      BY <1>1
    <3> QED
      BY <1>a, <1>1, <2>4, <2>5, <3>1, SwapFacts
  <2>7. /\ DOMAIN task' = DOMAIN task
        /\ HeadId \in DOMAIN task => task'[HeadId] = r
        /\ \A i \in DOMAIN task : i # HeadId => task'[i] = task[i]
    BY <1>a, <2>3, <2>5, UpdateFacts DEF TypeStore
  <2>8. \A k \in Queued' : CopyStep(k)
    BY <1>h, <2>4, <2>6 DEF CopyStep
  <2>9. HeadId \in DOMAIN task' => Located(HeadId)
    BY <2>3, <2>7 DEF Located
  <2> QED
    BY <1>1, <2>7, <2>8, <2>9, HeadCal DEF RowStep
<1> QED
  BY <1>2, <1>3

\* It has its answer.
LEMMA AnswerCal ==
  ASSUME IInv, kind = "caldav", Answer
  PROVE  CalStep
<1>a. TypeSync /\ TypeStore /\ TypeServer /\ QueueFits /\ QueueRows /\ TaskFits /\ Phase /\ HeadFits
  BY DEF IInv, TypeOK
<1>1. /\ UNCHANGED <<lastId, settler, editor, history>> /\ UNCHANGED <<byOther, knows, settled, cut, texts>>
      /\ sync.pc = "answer"
  BY DEF Answer, At, server, ghosts
<1>b. Queued # {}
  BY <1>a, <1>1 DEF Phase
<1> DEFINE h == HeadId
<1>h. h \in Queued /\ Head1 \in Row /\ Head1 = sync.queue[h]
  BY <1>a, <1>b, HeadFacts DEF Head1
<1>r. h \in DOMAIN task => /\ task[h] \in Row /\ task[h].href = Head1.href
                           /\ task[h].seq = Head1.seq => task[h].text = Head1.text \/ task[h].text \in cut
  BY <1>a, <1>1, <1>h DEF TypeStore, QueueRows, AtReadBack
<1>2. CASE Update(h, [task[h] EXCEPT !.conflict = "changed"]) /\ sync' = [NoSync EXCEPT !.pc = "list"]
  <2> DEFINE r == [task[h] EXCEPT !.conflict = "changed"]
  <2>1. h \in DOMAIN task =>
          /\ r \in Row /\ r.href = task[h].href /\ r.etag = task[h].etag
          /\ r.pending = task[h].pending /\ r.text = task[h].text /\ r.revision = task[h].revision
    BY <1>r DEF Row
  <2>2. Update(h, r)
    BY <1>2
  <2> HIDE DEF r
  <2>3. /\ DOMAIN task' = DOMAIN task /\ (h \in DOMAIN task => task'[h] = r)
        /\ \A i \in DOMAIN task : i # h => task'[i] = task[i]
    BY <1>a, <2>1, <2>2, UpdateFacts DEF TypeStore
  <2>4. Queued' = {}
    BY <1>2, NoSyncFacts DEF Queued, NoSync
  <2>5. h \in DOMAIN task' => RowStep(h)
    BY <2>1, <2>3 DEF RowStep, Alike
  <2> QED
    BY <1>1, <2>3, <2>4, <2>5, HeadCal
<1>n. NextTask => \A k \in Queued' : CopyStep(k)
  <2> SUFFICES ASSUME NextTask PROVE \A k \in Queued' : CopyStep(k)
    OBVIOUS
  <2>1. Queued' = Queued \ {HeadId} /\ \A k \in Queued' : sync'.queue[k] = sync.queue[k]
    BY <1>a, <1>1, <1>b, NextTaskFacts
  <2> QED
    BY <2>1 DEF CopyStep
<1>3. CASE NextTask /\ (Drop(h) \/ UNCHANGED task)
  <2>1. DOMAIN task' \subseteq DOMAIN task /\ \A i \in DOMAIN task' : task'[i] = task[i]
    BY <1>a, <1>3, DropFacts DEF TypeStore
  <2>2. h \in DOMAIN task' => RowStep(h)
    BY <2>1 DEF RowStep, Alike
  <2> QED
    BY <1>1, <1>3, <1>n, <2>1, <2>2, HeadCal
<1>4. CASE /\ sync.said = "saved" /\ Head1.pending = "put"
           /\ Update(h, [task[h] EXCEPT !.etag = sync.tag, !.pending = Sent(task[h])]) /\ NextTask
  <2> DEFINE s == Sent(task[h])
             v == sync.tag
             r == [task[h] EXCEPT !.etag = v, !.pending = s]
  <2>1. /\ h \in DOMAIN task => /\ s \in {"none", "put", "delete"} /\ s \in {"none", task[h].pending}
                                /\ s = "none" => task[h].text = Head1.text \/ task[h].text \in cut
        /\ v \in Nat
    <3>1. h \in DOMAIN task => task[h].pending # "none" /\ task[h].pending \in {"none", "put", "delete"}
      BY <1>a, <1>h, <1>r DEF QueueRows, Row
    <3> QED
      BY <1>a, <1>r, <3>1 DEF Sent, TypeSync
  <2>2. Update(h, r)
    BY <1>4
  <2>3. v # 0 => history[Head1.href][v] = Head1.text
    BY <1>a, <1>1, <1>4 DEF HeadFits
  <2> HIDE DEF s, v
  <2>4. h \in DOMAIN task =>
          /\ r \in Row /\ r.href = task[h].href /\ r.etag = v
          /\ r.pending = s /\ r.text = task[h].text /\ r.revision = task[h].revision
    BY <1>r, <2>1 DEF Row
  <2> HIDE DEF r
  <2>5. /\ DOMAIN task' = DOMAIN task /\ (h \in DOMAIN task => task'[h] = r)
        /\ \A i \in DOMAIN task : i # h => task'[i] = task[i]
    BY <1>a, <2>2, <2>4, UpdateFacts DEF TypeStore
  <2>6. h \in DOMAIN task' => Answered(h)
    BY <1>1, <1>4, <1>h, <1>r, <2>1, <2>3, <2>4, <2>5 DEF Answered
  <2> QED
    BY <1>1, <1>4, <1>n, <2>5, <2>6, HeadCal DEF RowStep
<1> QED
  BY <1>2, <1>3, <1>4, Zenon DEF Answer

\* reconcile.
LEMMA ReconcileCal ==
  ASSUME IInv, kind = "caldav", Reconcile
  PROVE  CalStep
<1>a. /\ TypeStore /\ TypeServer /\ TypeSync /\ TaskFits /\ ListingFits /\ texts \in Nat /\ lastId \in Nat
  BY DEF IInv, TypeOK, TypeStore, TypeGhosts
<1>1. /\ sync.pc = "reconcile" /\ ReconcileStep
      /\ UNCHANGED <<kind, settler, editor>> /\ UNCHANGED <<history, marked, names>>
      /\ UNCHANGED <<byOther, knows, settled, again, cut, root, texts, asked, faults>> /\ sync' = NoSync
  BY ReconcileFacts
<1>2. Queued' = {} /\ Kept /\ lastId <= lastId' /\ SettlerStep /\ EditorStep
  BY <1>1, NoSyncFacts, QuietKept, SameBeside DEF Queued, ReconcileStep
<1>b. ASSUME NEW p \in Names, sync.listing[p] # 0
      PROVE  sync.listing[p] \in Nat /\ history[p][sync.listing[p]] \in Texts
  <2>1. sync.listing[p] \in Nat /\ sync.listing[p] <= Len(history[p]) /\ history[p][sync.listing[p]] # 0
    BY <1>a, <1>b DEF TypeSync, ListingFits
  <2>2. Len(history[p]) \in Nat /\ \A k \in 1 .. Len(history[p]) : history[p][k] \in Texts \cup {0}
    BY <1>a, ThereFacts
  <2>3. sync.listing[p] \in 1 .. Len(history[p])
    BY <1>b, <2>1, <2>2
  <2> QED
    BY <2>1, <2>2, <2>3
<1>3. ASSUME NEW i \in DOMAIN task' PROVE RowStep(i)
  <2>r. i \in DOMAIN task => task[i] \in Row /\ task[i].marker = 0
    BY <1>a DEF TypeStore, TaskFits, RowKept
  <2>1. CASE i \in DOMAIN task /\ task'[i] = task[i]
    BY <2>1 DEF RowStep, Alike
  <2>2. CASE i \in DOMAIN task /\ Adopted(i)
    BY <2>2, <2>r DEF Adopted, Adopts
  <2>3. CASE i \in DOMAIN task /\ Took(i)
    <3> DEFINE p == task[i].href
               tag == sync.listing[p]
    <3>1. p \in Names /\ tag # 0 /\ task'[i] = Taken(task[i], p, tag) /\ task[i] \in Row
      BY <2>r, <2>3 DEF Took
    <3>2. tag \in Nat /\ history[p][tag] \in Texts
      BY <1>b, <3>1
    <3> HIDE DEF p, tag
    <3>3. /\ task'[i].text = history[p][tag] /\ task'[i].href = p /\ task'[i].etag = tag
          /\ task'[i].pending = "none" /\ task'[i].revision = task[i].revision + 1
      BY <3>1, <3>2, TakenFacts
    <3>4. Fresh(i)
      BY <1>1, <2>3, <3>3 DEF Fresh
    <3> QED
      BY <3>4 DEF RowStep
  <2>4. CASE i \in DOMAIN task /\ Held(i)
    <3>1. PICK c \in Unsettled : task'[i] = Waits(task[i], c)
      BY <2>4 DEF Held
    <3>2. Alike(i)
      BY <2>r, <2>4, <3>1 DEF Alike, Waits, Row
    <3> QED
      BY <3>2 DEF RowStep
  <2>5. CASE i \notin DOMAIN task /\ i > lastId /\ \E p \in Names : Listed(i, p)
    <3>1. PICK p \in Names : Unknown(p) /\ task'[i] = Copy(p, sync.listing[p])
      BY <2>5 DEF Listed
    <3> DEFINE tag == sync.listing[p]
    <3>2. tag \in Nat /\ history[p][tag] \in Texts /\ task'[i] = Copy(p, tag)
      BY <1>b, <3>1 DEF Unknown
    <3> HIDE DEF tag
    <3>3. /\ task'[i].text = history[p][tag] /\ task'[i].href = p /\ task'[i].etag = tag
          /\ task'[i].pending = "none"
      BY <3>2, CopyFacts
    <3>4. Fresh(i)
      BY <1>1, <2>5, <3>3 DEF Fresh
    <3> QED
      BY <3>4 DEF RowStep
  <2> QED
    BY <1>1, <2>1, <2>2, <2>3, <2>4, <2>5 DEF ReconcileStep
<1> QED
  BY <1>a, <1>1, <1>2, <1>3 DEF CalStep

\* Another client writes.
LEMMA OtherWritesCal ==
  ASSUME IInv, OtherCreates \/ \E p \in Names : OtherEdits(p)
  PROVE  CalStep
<1>1. PICK p \in Names, of \in Texts \cup {0} : OtherWritesAt(p, of)
  BY OtherWritesCases
<1>2. /\ Kept /\ texts' = texts + 1 /\ byOther' = byOther \cup {texts + 1}
      /\ UNCHANGED <<kind, task, lastId, sync, settler, editor, marked, settled, again, cut>>
      /\ \A t \in Texts : t # texts + 1 => knows'[t] = knows[t]
  BY <1>1, OtherWritesFacts DEF OtherWritesAt
<1>3. texts \in Nat /\ lastId \in Nat
  BY DEF IInv, TypeOK, TypeGhosts, TypeStore
<1>4. \A i \in DOMAIN task' : RowStep(i)
  BY <1>2 DEF RowStep, Alike
<1>5. \A k \in Queued' : CopyStep(k)
  BY <1>2 DEF CopyStep, Queued
<1> QED
  BY <1>2, <1>3, <1>4, <1>5, SameBeside DEF CalStep

\* Every step of a CalDAV list.
LEMMA NextCal ==
  ASSUME IInv, kind = "caldav", [Next]_vars
  PROVE  CalStep
<1>a. Phase
  BY DEF IInv
<1>1. CASE Person
  BY <1>1, PersonActionsCal, LooksCal, SettleWriteCal DEF Person
<1>2. CASE Syncs
  <2>1. ~(EwsFind \/ EwsRoute \/ EwsCheck \/ EwsReadBack \/ EwsReadBackGone \/ EwsList \/ EwsMissing)
    BY <1>a DEF Phase, EwsFind, EwsRoute, EwsCheck, EwsReadBack, EwsReadBackGone, EwsList, EwsMissing, At
  <2> QED
    BY <1>2, <2>1, MovesCal, PlacesCal, AnswerCal, ReconcileCal DEF Syncs
<1>3. CASE Server
  <2>1. ~(EwsCreates \/ EwsUpdates)
    BY DEF EwsCreates, EwsUpdates
  <2>2. ASSUME NEW p \in Names, OtherDeletes(p) PROVE CalStep
    <3>1. /\ Kept /\ UNCHANGED <<kind, task, lastId, sync, settler, editor>>
          /\ UNCHANGED <<marked, names, byOther, knows, settled, again, cut, root, texts>>
      BY <2>2, OtherDeletesInv
    <3> QED
      BY <3>1, SameBeside, QuietCal DEF Queued
  <2> QED
    BY <1>3, <2>1, <2>2, SendsCal, OtherWritesCal DEF Server
<1>4. CASE SyncFails \/ Crash
  BY <1>4, MovesCal
<1>5. CASE UNCHANGED vars
  <2>1. /\ UNCHANGED <<task, lastId, sync, settler, editor, history>>
        /\ UNCHANGED <<byOther, knows, settled, cut, texts>>
    BY <1>5 DEF vars, server, ghosts
  <2> QED
    BY <2>1, QuietKept, SameBeside, QuietCal DEF Queued
<1> QED
  BY <1>1, <1>2, <1>3, <1>4, <1>5 DEF Next

\* A list stays of its kind.
LEMMA KindStays ==
  ASSUME [Next]_vars
  PROVE  kind' = kind
<1>1. CASE Person
  BY <1>1 DEF Person, Create, SaveEditor, SettleGet, SettleWrite, CompleteOccurrence, OpenEditor, Delete, Complete,
     SettleAsk
<1>2. CASE Syncs
  BY <1>2 DEF Syncs, SyncStart, QueueDone, DropDeleted, KeepPlace, HasPlace, EwsFind, EwsRoute, EwsCheck,
     EwsReadBack, EwsReadBackGone, Answer, List, EwsList, EwsMissing, Reconcile
<1>3. CASE Server
  BY <1>3 DEF Server, ServerPuts, ServerDeletes, EwsCreates, EwsUpdates, OtherCreates, OtherEdits, OtherWrites,
     OtherDeletes
<1> QED
  BY <1>1, <1>2, <1>3 DEF Next, SyncFails, Crash, vars

\* Both hold at first.
LEMMA InitSight == Init => Sight /\ CleanIsTheServers
<1> SUFFICES ASSUME Init PROVE Sight /\ CleanIsTheServers
  OBVIOUS
<1>1. DOMAIN task = {} /\ Queued = {} /\ settler.pc = "idle" /\ editor.text = 0 /\ texts = 0
  BY NoSyncFacts DEF Init, NoRows, Queued, NoSettler, NoEditor
<1> QED
  BY <1>1 DEF Sight, RowsSighted, QueueSighted, OwnPuts, EditorSighted, CleanIsTheServers

\* Every step keeps them.
LEMMA NextSight == IInv /\ Sight /\ CleanIsTheServers /\ [Next]_vars => Sight' /\ CleanIsTheServers'
<1> SUFFICES ASSUME IInv, Sight, CleanIsTheServers, [Next]_vars PROVE Sight' /\ CleanIsTheServers'
  OBVIOUS
<1>1. IInv' /\ kind' = kind
  BY NextIInv, KindStays
<1>2. CASE kind = "caldav"
  BY <1>1, <1>2, NextCal, RowsSightedStep, QueueSightedStep, OwnPutsStep, EditorSightedStep, CleanStep DEF Sight
<1>3. CASE kind # "caldav"
  BY <1>1, <1>3 DEF Sight, CleanIsTheServers
<1> QED
  BY <1>2, <1>3

\* A CalDAV task with nothing pending says here what the version it names said on
\* the server, whatever is edited while an answer is under way, in every state,
\* unless its last change was cut short before the row was marked as waiting.
THEOREM CleanHolds == Spec => []CleanIsTheServers
<1> QED
  BY InitIInv, NextIInv, InitSight, NextSight, PTL DEF Spec

\* The sends of a CalDAV list, and what they write over.
LEMMA SentInSight ==
  ASSUME IInv, Sight, kind = "caldav", ServerPuts \/ ServerDeletes, NEW p \in Overwritten
  PROVE  KnownBySender(p)
<1>a. TypeSync /\ TypeStore /\ TypeServer /\ Phase /\ HeadFits /\ QueueFits /\ QueueSighted
  BY DEF IInv, TypeOK, Sight
<1>1. sync.pc = "send"
  BY DEF ServerPuts, ServerDeletes, At
<1>b. Queued # {}
  BY <1>a, <1>1 DEF Phase
<1>h. HeadId \in Queued /\ Head1 = sync.queue[HeadId] /\ Head1 \in Row /\ Head1.href \in Names /\ Head1.text \in Texts
  BY <1>a, <1>1, <1>b, HeadFacts DEF HeadFits, Row, Head1
<1>2. p \in Names /\ There(p) /\ history'[p] # history[p]
  BY DEF Overwritten
<1>3. \/ UNCHANGED history
      \/ /\ Tag(Head1.href) = Head1.etag
         /\ history' = [history EXCEPT ![Head1.href] = Append(@, Head1.text)]
      \/ /\ Version(Head1.href) = Head1.etag
         /\ history' = [history EXCEPT ![Head1.href] = Append(@, 0)]
  BY DEF ServerPuts, ServerDeletes
<1>4. p = Head1.href
  <2>1. Head1.text \in Texts \cup {0} /\ 0 \in Texts \cup {0}
    BY <1>h
  <2> QED
    BY <1>a, <1>h, <1>2, <1>3, <2>1, AppendFacts
<1>5. Head1.etag = Len(history[p]) /\ Head1.etag # 0 /\ Last(history[p]) = history[p][Head1.etag]
  BY <1>a, <1>2, <1>3, <1>4, ThereFacts
<1>6. Sighted(Head1, Head1.text)
  BY <1>a, <1>h DEF QueueSighted
<1> QED
  BY <1>4, <1>5, <1>6 DEF KnownBySender, Sighted

\* Nothing else of a CalDAV list writes over anything but other clients.
LEMMA NothingElseWrites ==
  ASSUME IInv, kind = "caldav", [Next]_vars, ~(ServerPuts \/ ServerDeletes)
  PROVE  Overwritten = {}
<1>1. history' = history \/ byOther' # byOther \/ faults' # faults
  <2>1. CASE Person
    BY <2>1 DEF Person, Create, SaveEditor, SettleGet, SettleWrite, CompleteOccurrence, OpenEditor, Delete,
       Complete, SettleAsk, server
  <2>2. CASE Syncs
    BY <2>2 DEF Syncs, SyncStart, QueueDone, DropDeleted, KeepPlace, HasPlace, EwsFind, EwsRoute, EwsCheck,
       EwsReadBack, EwsReadBackGone, Answer, List, EwsList, EwsMissing, Reconcile, server
  <2>3. CASE Server
    <3>1. ~(EwsCreates \/ EwsUpdates)
      BY DEF EwsCreates, EwsUpdates
    <3>2. ASSUME NEW p \in Names, OtherDeletes(p) PROVE faults' # faults
      BY <3>2, OtherDeletesInv
    <3>3. ASSUME OtherCreates \/ \E p \in Names : OtherEdits(p) PROVE byOther' # byOther
      <4>1. PICK p \in Names, of \in Texts \cup {0} : OtherWritesAt(p, of)
        BY <3>3, OtherWritesCases
      <4>2. texts + 1 \notin byOther /\ byOther' = byOther \cup {texts + 1}
        BY <4>1, OtherWritesFacts DEF OtherWritesAt
      <4> QED
        BY <4>2
    <3> QED
      BY <2>3, <3>1, <3>2, <3>3 DEF Server
  <2> QED
    BY <2>1, <2>2, <2>3 DEF Next, SyncFails, Crash, vars, server
<1> QED
  BY <1>1 DEF Overwritten

\* Nothing another client wrote is replaced or deleted on a CalDAV server unless
\* the change sent was made in sight of it, or the person chose against it.
THEOREM NothingOverwrittenUnseen == Spec => NoSilentOverwrite
<1>1. IInv /\ Sight /\ [Next]_vars => (kind = "caldav" => \A p \in Overwritten : KnownBySender(p))
  BY SentInSight, NothingElseWrites
<1>2. IInv /\ Sight /\ [Next]_vars => [kind = "caldav" => \A p \in Overwritten : KnownBySender(p)]_vars
  BY <1>1
<1> QED
  BY <1>2, InitIInv, NextIInv, InitSight, NextSight, PTL DEF Spec, NoSilentOverwrite

-----------------------------------------------------------------------------
(* A change made here is not lost.                                         *)

\* The change that waits in row i stops waiting.
Settles(i) == task[i].pending = "put" /\ (i \notin DOMAIN task' \/ task'[i].pending = "none")

\* And this is why.
Accounted(i) ==
  \/ Delete(i)
  \/ SettleWrite /\ settler.id = i /\ settler.keep = "server"
  \/ task[i].text \in cut
  \/ \E p \in Names : task[i].text \in Range(history[p])

\* What an object said is among what it said.
LEMMA SaidFacts ==
  ASSUME TypeServer, NEW p \in Names, NEW t, Said(t, p)
  PROVE  t \in Range(history[p])
<1>1. history[p] \in Seq(Texts \cup {0})
  BY DEF TypeServer
<1>2. DOMAIN history[p] = 1 .. Len(history[p])
  BY <1>1
<1> QED
  BY <1>2 DEF Said, Range

\* A change that was sent while another was made stays.
LEMMA SentNotLost ==
  ASSUME IInv, Queued # {}, HeadId \in DOMAIN task, Head1.href \in Names, Said(Head1.text, Head1.href),
         Sent(task[HeadId]) = "none"
  PROVE  task[HeadId].text \in cut \/ \E p \in Names : task[HeadId].text \in Range(history[p])
<1>a. TypeSync /\ TypeStore /\ TypeServer /\ QueueRows
  BY DEF IInv, TypeOK
<1>1. HeadId \in Queued /\ Head1 = sync.queue[HeadId]
  BY <1>a, HeadFacts DEF Head1
<1>2. task[HeadId].pending # "none"
  BY <1>a, <1>1 DEF QueueRows
<1>3. task[HeadId].seq = Head1.seq
  BY <1>2 DEF Sent
<1>4. task[HeadId].text = Head1.text \/ task[HeadId].text \in cut
  BY <1>a, <1>1, <1>3 DEF QueueRows
<1> QED
  BY <1>a, <1>4, SaidFacts

\* A row that keeps its change settles nothing.
LEMMA ChangeKept ==
  ASSUME NEW i \in DOMAIN task, Settles(i), NEW h, NEW r, h \in DOMAIN task => r.pending # "none",
         Update(h, r)
  PROVE  FALSE
BY DEF Update, Put, Settles

\* The steps that touch only the row at the head of the queue.
LEMMA HeadNotLost ==
  ASSUME IInv, NEW i \in DOMAIN task, Settles(i),
         DropDeleted \/ KeepPlace \/ EwsFind \/ EwsRoute \/ EwsReadBack \/ Answer
  PROVE  Accounted(i)
<1>a. TypeSync /\ TypeStore /\ TypeServer /\ Phase /\ HeadFits /\ QueueRows
  BY DEF IInv, TypeOK
<1>b. Queued # {}
  BY <1>a DEF Phase, DropDeleted, KeepPlace, EwsFind, EwsRoute, EwsReadBack, Answer, At
<1>h. HeadId \in Queued /\ Head1 \in Row /\ Head1 = sync.queue[HeadId]
  BY <1>a, <1>b, HeadFacts DEF Head1
<1>r. task[i] \in Row /\ task[i].pending = "put" /\ (HeadId \in DOMAIN task => task[HeadId] \in Row)
  BY <1>a DEF TypeStore, Settles
<1>d. i = HeadId => Head1.pending # "delete"
  BY <1>a, <1>h, <1>r DEF QueueRows
<1>1. CASE DropDeleted
  BY <1>d, <1>1 DEF DropDeleted, Drop, Settles
<1>2. CASE KeepPlace
  <2>1. Update(HeadId, [task[HeadId] EXCEPT !.href = names'])
    BY <1>2 DEF KeepPlace
  <2> QED
    BY <1>r, <2>1 DEF Update, Put, Settles, Row
<1>3. CASE EwsFind
  <2>1. task' = task \/ \E p \in Objects :
          Update(HeadId, [task[HeadId] EXCEPT !.href = p, !.marker = 0, !.etag = Version(p)])
    BY <1>3 DEF EwsFind
  <2>2. HeadId \in DOMAIN task => task[HeadId].pending # "none"
    BY <1>a, <1>h DEF QueueRows
  <2>3. \A p : HeadId \in DOMAIN task =>
          [task[HeadId] EXCEPT !.href = p, !.marker = 0, !.etag = Version(p)].pending # "none"
    BY <1>r, <2>2 DEF Row
  <2> QED
    BY <2>1, <2>3, ChangeKept DEF Settles
<1>4. CASE EwsRoute
  <2> DEFINE r == [task[HeadId] EXCEPT !.conflict = "rejected", !.marker = IF Head1.href = 0 THEN 0 ELSE @]
             s == [task[HeadId] EXCEPT !.marker = names']
  <2>1. \/ task' = task \/ Update(HeadId, r) \/ Update(HeadId, s)
        \/ Head1.pending = "delete" /\ Drop(HeadId)
    BY <1>4, Zenon DEF EwsRoute
  <2>2. HeadId \in DOMAIN task => task[HeadId].pending # "none"
    BY <1>a, <1>h DEF QueueRows
  <2>3. HeadId \in DOMAIN task => r.pending # "none" /\ s.pending # "none"
    BY <1>r, <2>2 DEF Row
  <2> HIDE DEF r, s
  <2>4. CASE task' = task \/ (Head1.pending = "delete" /\ Drop(HeadId))
    BY <1>d, <2>4 DEF Drop, Settles
  <2> QED
    BY <2>1, <2>3, <2>4, ChangeKept
<1>5. CASE EwsReadBack
  <2>1. Head1.href \in Names /\ Said(Head1.text, Head1.href)
    BY <1>a, <1>h, <1>5 DEF EwsReadBack, At, HeadFits, Row
  <2> DEFINE r == [task[HeadId] EXCEPT !.href = Head1.href, !.marker = 0, !.etag = Version(Head1.href),
                     !.pending = Sent(task[HeadId]), !.conflict = IF @ = "rejected" THEN "none" ELSE @]
  <2>3. Update(HeadId, r) /\ (HeadId \in DOMAIN task => r.pending = Sent(task[HeadId]))
    BY <1>r, <1>5 DEF EwsReadBack, Row
  <2> HIDE DEF r
  <2>2. i = HeadId /\ Sent(task[HeadId]) = "none"
    BY <1>r, <2>3 DEF Update, Put, Settles
  <2> QED
    BY <1>b, <2>1, <2>2, SentNotLost DEF Accounted
<1>6. CASE Answer
  <2>1. CASE sync.said = "conflict"
    <3>1. Update(HeadId, [task[HeadId] EXCEPT !.conflict = "changed"])
      BY <1>6, <2>1 DEF Answer
    <3> QED
      BY <1>r, <3>1 DEF Update, Put, Settles, Row
  <2>2. CASE sync.said = "saved" /\ Head1.pending = "delete"
    <3>1. task' = task \/ (HeadId \in DOMAIN task /\ task[HeadId].pending = "delete" /\ Drop(HeadId))
      BY <1>6, <2>2 DEF Answer
    <3> QED
      BY <1>r, <3>1 DEF Drop, Settles
  <2>3. CASE sync.said = "saved" /\ Head1.pending = "put"
    <3>1. Head1.href \in Names /\ Said(Head1.text, Head1.href)
      BY <1>a, <1>h, <1>6, <2>3 DEF Answer, At, HeadFits, Row
    <3>2. Update(HeadId, [task[HeadId] EXCEPT !.etag = sync.tag, !.pending = Sent(task[HeadId])])
      BY <1>6, <2>3 DEF Answer
    <3>3. i = HeadId /\ Sent(task[HeadId]) = "none"
      BY <1>r, <3>2 DEF Update, Put, Settles, Row
    <3> QED
      BY <1>b, <3>1, <3>3, SentNotLost DEF Accounted
  <2> QED
    BY <1>6, <2>1, <2>2, <2>3 DEF Answer
<1> QED
  BY <1>1, <1>2, <1>3, <1>4, <1>5, <1>6

\* The list is reconciled: a change that waits is kept, whatever the list says.
LEMMA ReconcileNotLost ==
  ASSUME IInv, NEW i \in DOMAIN task, Settles(i), Reconcile
  PROVE  FALSE
<1>a. task[i] \in Row /\ task[i].pending = "put"
  BY DEF IInv, TypeOK, TypeStore, Settles
<1>1. ReconcileStep
  BY ReconcileFacts
<1>2. i \in DOMAIN task'
  BY <1>a, <1>1 DEF ReconcileStep, Gone
<1>3. task'[i].pending = "none"
  BY <1>2 DEF Settles
<1>4. task'[i] = task[i] \/ Adopted(i) \/ Held(i)
  BY <1>a, <1>1, <1>2 DEF ReconcileStep, Took
<1> QED
  BY <1>a, <1>3, <1>4 DEF Adopted, Placed, Held, Waits, Row

\* Every step.
LEMMA NextNotLost ==
  ASSUME IInv, [Next]_vars, NEW i \in DOMAIN task, Settles(i)
  PROVE  Accounted(i)
<1>1. CASE Person
  <2>1. CASE SettleWrite
    <3>1. SettleStep(settler.id) /\ settler.pc = "write"
      BY <2>1, SettleWriteFacts
    <3>2. i = settler.id
      BY <3>1 DEF SettleStep, Settles
    <3>3. task[i] \in Row /\ settler.was # "delete"
      BY <3>1, <3>2 DEF IInv, TypeOK, TypeStore, SettlerFits, Settles
    <3>4. ~KeepsMine(i) /\ ~MakesAgain(i)
      BY <3>3 DEF KeepsMine, Requeued, MakesAgain, MadeAgain, Settles, Row
    <3>5. TakesServers(i) \/ GivesUp(i)
      BY <3>1, <3>2, <3>4 DEF SettleStep
    <3> QED
      BY <2>1, <3>2, <3>3, <3>5 DEF Accounted, TakesServers, GivesUp
  <2>2. CASE \/ SettleGet
             \/ \E id \in DOMAIN task : OpenEditor(id) \/ \E keep \in {"mine", "server"} : SettleAsk(id, keep)
    BY <2>2 DEF SettleGet, OpenEditor, SettleAsk, Settles
  <2>3. CASE \/ Create \/ SaveEditor
             \/ \E id \in DOMAIN task : CompleteOccurrence(id) \/ \E stops \in BOOLEAN : Complete(id, stops)
    <3>0. lastId \in Nat /\ DOMAIN task \subseteq 1 .. lastId /\ \A k \in DOMAIN task : task[k] \in Row
      BY DEF IInv, TypeOK, TypeStore
    <3>1. CASE Create
      BY <3>0, <3>1 DEF Create, PutAndTouch, Put, Touched, Blank, Settles
    <3>2. CASE SaveEditor
      <4>1. CASE EditorCurrent
        <5> DEFINE r == [task[editor.id] EXCEPT !.text = texts', !.revision = @ + 1]
        <5>1. editor.id \in DOMAIN task /\ Put(editor.id, Touched(r))
          BY <3>2, <4>1 DEF SaveEditor, EditorCurrent
        <5>2. Touched(r).pending = "put"
          BY <3>0, <5>1 DEF Touched, Row
        <5> QED
          BY <5>1, <5>2 DEF Put, Settles
      <4>2. CASE ~EditorCurrent
        BY <3>2, <4>2 DEF SaveEditor, Settles
      <4> QED
        BY <4>1, <4>2
    <3>3. ASSUME NEW id \in DOMAIN task, CompleteOccurrence(id) PROVE FALSE
      BY <3>0, <3>3 DEF CompleteOccurrence, Touched, Row, Settles
    <3>4. ASSUME NEW id \in DOMAIN task, NEW stops \in BOOLEAN, Complete(id, stops) PROVE FALSE
      <4> DEFINE r == [task[id] EXCEPT !.text = texts', !.revision = IF stops THEN @ + 1 ELSE @]
      <4>1. Put(id, Touched(r)) \/ Put(id, r)
        BY <3>4 DEF Complete, PutAndTouch
      <4>2. r.pending = task[id].pending /\ Touched(r).pending = "put"
        BY <3>0, <3>4 DEF Touched, Row
      <4> HIDE DEF r
      <4> QED
        BY <3>4, <4>1, <4>2 DEF Put, Settles
    <3> QED
      BY <2>3, <3>1, <3>2, <3>3, <3>4
  <2>4. ASSUME NEW id \in DOMAIN task, Delete(id) PROVE Accounted(i)
    <3>1. i = id
      BY <2>4 DEF Delete, Put, Drop, Settles
    <3> QED
      BY <2>4, <3>1 DEF Accounted
  <2> QED
    BY <1>1, <2>1, <2>2, <2>3, <2>4 DEF Person
<1>2. CASE Syncs
  <2>1. CASE SyncStart \/ QueueDone \/ HasPlace \/ EwsCheck \/ EwsReadBackGone \/ List \/ EwsList \/ EwsMissing
    BY <2>1 DEF SyncStart, QueueDone, HasPlace, EwsCheck, EwsReadBackGone, List, EwsList, EwsMissing, Settles
  <2> QED
    BY <1>2, <2>1, HeadNotLost, ReconcileNotLost DEF Syncs
<1>3. CASE Server \/ SyncFails \/ Crash \/ UNCHANGED vars
  BY <1>3 DEF Server, ServerPuts, ServerDeletes, EwsCreates, EwsUpdates, OtherCreates, OtherEdits, OtherWrites,
     OtherDeletes, SyncFails, Crash, vars, Settles
<1> QED
  BY <1>1, <1>2, <1>3 DEF Next

\* A change made here stops waiting only when the server took it, when the person
\* deletes the task, or chooses the server's copy.  One cut short before its row was
\* marked, while an earlier change was being sent, stops with that one.
THEOREM NoEditLost == Spec => EditNotLost
<1>1. IInv /\ [Next]_vars => \A i \in DOMAIN task : Settles(i) => Accounted(i)
  BY NextNotLost
<1>2. IInv /\ [Next]_vars =>
        [\A i \in DOMAIN task :
           /\ task[i].pending = "put"
           /\ i \notin DOMAIN task' \/ task'[i].pending = "none"
           => \/ Delete(i)
              \/ SettleWrite /\ settler.id = i /\ settler.keep = "server"
              \/ task[i].text \in cut
              \/ \E p \in Names : task[i].text \in Range(history[p])]_vars
  BY <1>1 DEF Settles, Accounted
<1> QED
  BY <1>2, InitIInv, NextIInv, PTL DEF Spec, EditNotLost

-----------------------------------------------------------------------------
(* One object and one row for each task.                                   *)

\* Texts of different tasks, or of one that was made again.
Apart(t, u) == root[t] # root[u] \/ root[t] \in again

\* What somebody has in hand of the object at p: the server, the listing of a
\* sync, or the settler of a conflict.
Seen(p, t) ==
  \/ There(p) /\ t = Last(history[p])
  \/ sync.listing[p] # 0 /\ t = history[p][sync.listing[p]]
  \/ /\ settler.pc = "write" /\ settler.id \in DOMAIN task /\ settler.got # 0
     /\ p = settler.href /\ t = history[p][settler.got]

\* The object at p is the row's, by the place it names or by its marker.
ByMarker(r, p) == r.href = 0 /\ r.marker # 0 /\ marked[p] = r.marker
RowOf(r, p) == r.href = p \/ ByMarker(r, p)

\* The head of the queue was looked for by its marker and not found.
Unfound(k) == k = HeadId /\ sync.pc \in {"route", "send"}

\* Two rows, or copies of rows, of different tasks share no place and no marker.
Separate(r, s) ==
  /\ Apart(r.text, s.text)
  /\ r.href # 0 => r.href # s.href
  /\ r.marker # 0 => r.marker # s.marker
  /\ r.marker # 0 /\ s.href # 0 => marked[s.href] # r.marker

\* Whatever anybody has in hand of two objects is of two tasks.
ViewsApart ==
  \A p, q \in Names, t, u \in Texts :
    Seen(p, t) /\ Seen(q, u) /\ p # q => Apart(t, u) /\ (marked[p] # 0 => marked[p] # marked[q])

\* A row whose task somebody has in hand is the row of that object.
ViewsRows ==
  \A p \in Names, t \in Texts, i \in DOMAIN task :
    Seen(p, t) => Apart(task[i].text, t) \/ RowOf(task[i], p)

\* The same of a copy in the queue; once it was looked for, only by its place.
ViewsQueue ==
  \A p \in Names, t \in Texts, k \in Queued :
    Seen(p, t) => \/ Apart(sync.queue[k].text, t) \/ sync.queue[k].href = p
                  \/ ByMarker(sync.queue[k], p) /\ ~Unfound(k)

\* And so no object there carries its marker.
HeadUnfound ==
  sync.pc \in {"route", "send"} /\ Head1.href = 0 /\ Head1.marker # 0 =>
    \A p \in Names : There(p) => marked[p] # Head1.marker

\* Rows and copies in the queue of different ids are of different tasks.
RowsSeparate == \A i, j \in DOMAIN task : i # j => Separate(task[i], task[j])
QueueSeparate == \A k, l \in Queued : k # l => Separate(sync.queue[k], sync.queue[l])
BothSeparate ==
  \A k \in Queued, i \in DOMAIN task :
    i # k => Separate(sync.queue[k], task[i]) /\ Separate(task[i], sync.queue[k])

\* A copy in the queue is of the task its row is of.
SameTask == \A k \in Queued : k \in DOMAIN task => root[sync.queue[k].text] = root[task[k].text]

\* Tasks are named by texts, and objects marked with names, that were made.
RootsFit == \A t \in Texts : (t > texts => root[t] = t) /\ (t <= texts => root[t] <= texts)
MarkedFits == \A p \in Names : marked[p] # 0 => kind = "ews" /\ p <= names /\ marked[p] <= names

\* One object and one row for each task: the inductive invariant.
Copies ==
  /\ ViewsApart /\ ViewsRows /\ ViewsQueue /\ HeadUnfound /\ RowsSeparate /\ QueueSeparate
  /\ BothSeparate /\ SameTask /\ RootsFit /\ MarkedFits

\* The same of the next state.
ApartNext(t, u) == root'[t] # root'[u] \/ root'[t] \in again'
ByMarkerNext(r, p) == r.href = 0 /\ r.marker # 0 /\ marked'[p] = r.marker
UnfoundNext(k) == k = HeadId' /\ sync'.pc \in {"route", "send"}
SeparateNext(r, s) ==
  /\ ApartNext(r.text, s.text)
  /\ r.href # 0 => r.href # s.href
  /\ r.marker # 0 => r.marker # s.marker
  /\ r.marker # 0 /\ s.href # 0 => marked'[s.href] # r.marker
SeenNext(p, t) ==
  \/ history'[p] # <<>> /\ Last(history'[p]) # 0 /\ t = Last(history'[p])
  \/ sync'.listing[p] # 0 /\ t = history'[p][sync'.listing[p]]
  \/ /\ settler'.pc = "write" /\ settler'.id \in DOMAIN task' /\ settler'.got # 0
     /\ p = settler'.href /\ t = history'[p][settler'.got]

\* Copies in the next state, told with these.
CopiesNext ==
  /\ \A p, q \in Names, t, u \in Texts :
       SeenNext(p, t) /\ SeenNext(q, u) /\ p # q => ApartNext(t, u) /\ (marked'[p] # 0 => marked'[p] # marked'[q])
  /\ \A p \in Names, t \in Texts, i \in DOMAIN task' :
       SeenNext(p, t) => ApartNext(task'[i].text, t) \/ task'[i].href = p \/ ByMarkerNext(task'[i], p)
  /\ \A p \in Names, t \in Texts, k \in Queued' :
       SeenNext(p, t) => \/ ApartNext(sync'.queue[k].text, t) \/ sync'.queue[k].href = p
                         \/ ByMarkerNext(sync'.queue[k], p) /\ ~UnfoundNext(k)
  /\ \A i, j \in DOMAIN task' : i # j => SeparateNext(task'[i], task'[j])
  /\ \A k, l \in Queued' : k # l => SeparateNext(sync'.queue[k], sync'.queue[l])
  /\ \A k \in Queued', i \in DOMAIN task' :
       i # k => SeparateNext(sync'.queue[k], task'[i]) /\ SeparateNext(task'[i], sync'.queue[k])

\* That is Copies in the next state.
LEMMA NextCopiesDef ==
  ASSUME CopiesNext, HeadUnfound', SameTask', RootsFit', MarkedFits'
  PROVE  Copies'
<1>s. \A p, t : Seen(p, t)' <=> SeenNext(p, t)
  BY DEF Seen, SeenNext, There
<1>a. \A t, u : Apart(t, u)' <=> ApartNext(t, u)
  BY DEF Apart, ApartNext
<1>1. ViewsApart'
  BY <1>s, <1>a DEF ViewsApart, CopiesNext
<1>2. ViewsRows'
  BY <1>s DEF ViewsRows, CopiesNext, ByMarkerNext, ByMarker, RowOf, Apart, ApartNext
<1>3. ViewsQueue'
  BY <1>s DEF ViewsQueue, CopiesNext, ByMarkerNext, ByMarker, Apart, ApartNext, Unfound, UnfoundNext
<1>4. RowsSeparate'
  BY DEF RowsSeparate, CopiesNext, SeparateNext, Separate, Apart, ApartNext
<1>5. QueueSeparate'
  BY DEF QueueSeparate, CopiesNext, SeparateNext, Separate, Apart, ApartNext
<1>6. BothSeparate'
  BY DEF BothSeparate, CopiesNext, SeparateNext, Separate, Apart, ApartNext
<1> QED
  BY <1>1, <1>2, <1>3, <1>4, <1>5, <1>6 DEF Copies

\* What is in hand was written, at a place that was made.
LEMMA SeenFits ==
  ASSUME IInv, NEW p \in Names, NEW t, Seen(p, t)
  PROVE  t \in Texts /\ t <= texts /\ p <= names
<1>a. TypeServer /\ TypeSync /\ ServerFits /\ ListingFits /\ SettlerFits /\ TypeBeside /\ texts \in Nat
  BY DEF IInv, TypeOK, TypeGhosts
<1>1. PICK k \in 1 .. Len(history[p]) : t = history[p][k] /\ history[p][k] # 0
  <2>0. Len(history[p]) \in Nat
    BY <1>a, ThereFacts
  <2>1. CASE There(p) /\ t = Last(history[p])
    BY <1>a, <2>0, <2>1, ThereFacts
  <2>2. CASE sync.listing[p] # 0 /\ t = history[p][sync.listing[p]]
    <3>1. sync.listing[p] \in Nat
      BY <1>a DEF TypeSync
    <3> QED
      BY <1>a, <2>0, <2>2, <3>1 DEF ListingFits
  <2>3. CASE settler.pc = "write" /\ settler.got # 0 /\ p = settler.href /\ t = history[p][settler.got]
    <3>1. settler.got \in Nat
      BY <1>a DEF TypeBeside
    <3> QED
      BY <1>a, <2>0, <2>3, <3>1 DEF SettlerFits
  <2> QED
    BY <2>1, <2>2, <2>3 DEF Seen
<1>2. Len(history[p]) \in Nat /\ history[p][k] \in Texts \cup {0}
  BY <1>a, ThereFacts
<1> QED
  BY <1>a, <1>1, <1>2 DEF ServerFits

\* While something is sent, only the server has anything in hand.
LEMMA LiveViews ==
  ASSUME IInv, Queued # {}, NEW p \in Names, NEW t, Seen(p, t)
  PROVE  There(p) /\ t = Last(history[p])
<1>a. Phase /\ Unblocked /\ SettlerFits
  BY DEF IInv
<1>1. sync.listing[p] = 0
  BY <1>a DEF Phase, NoListing
<1>2. ~(settler.pc = "write" /\ settler.id \in DOMAIN task)
  BY <1>a DEF Unblocked, SettlerFits
<1> QED
  BY <1>1, <1>2 DEF Seen

\* Apart is of the tasks, in either order.
LEMMA ApartFacts ==
  ASSUME NEW t, NEW u, Apart(t, u)
  PROVE  Apart(u, t)
BY DEF Apart

\* Nobody has anything new in hand.
Fewer == \A p \in Names, t \in Texts : SeenNext(p, t) => Seen(p, t)

\* The texts that were written stay of their tasks.
TextsKept == again \subseteq again' /\ \A t \in Texts : t <= texts => root'[t] = root[t]

\* The row is of the same task, at the same place.
Like(i) ==
  /\ i \in DOMAIN task /\ root'[task'[i].text] = root[task[i].text]
  /\ task'[i].href = task[i].href /\ task'[i].marker = task[i].marker

\* The copy is as it was, and if it was just looked for, it was not found.
Stays(k) ==
  /\ k \in Queued /\ sync'.queue[k] = sync.queue[k]
  /\ UnfoundNext(k) => \A p \in Names, t \in Texts : Seen(p, t) => ~ByMarker(sync.queue[k], p) \/ Unfound(k)

\* A row, or a copy of one, of the task h among the others.
FitsAmong(r, h) ==
  /\ \A i \in DOMAIN task' : i # h => SeparateNext(r, task'[i]) /\ SeparateNext(task'[i], r)
  /\ \A k \in Queued' : k # h => SeparateNext(r, sync'.queue[k]) /\ SeparateNext(sync'.queue[k], r)

\* And the object it is the row of.
FitsViews(r) ==
  \A p \in Names, t \in Texts : SeenNext(p, t) => ApartNext(r.text, t) \/ r.href = p \/ ByMarkerNext(r, p)
FitsPlaces(r) ==
  \A p \in Names, t \in Texts : SeenNext(p, t) => ApartNext(r.text, t) \/ r.href = p

\* The texts of rows and copies were written.
LEMMA TextsFit ==
  ASSUME IInv
  PROVE  /\ \A i \in DOMAIN task : task[i] \in Row /\ task[i].text \in Texts /\ task[i].text <= texts
         /\ \A k \in Queued : /\ sync.queue[k] \in Row /\ sync.queue[k].text \in Texts
                              /\ sync.queue[k].text <= texts
BY DEF IInv, TypeOK, TypeStore, TypeSync, TaskFits, QueueFits, RowFits, Row

\* Texts that stay apart: those of rows, of copies and in hand.
LEMMA ApartStays ==
  ASSUME TextsKept, NEW t, NEW u, NEW v, NEW w, Apart(t, u), root'[v] = root[t], root'[w] = root[u]
  PROVE  ApartNext(v, w)
BY DEF TextsKept, Apart, ApartNext

\* A step that changes the row and the copy of one task at most.
LEMMA ChangeCopies ==
  ASSUME IInv, Copies, NEW h, Fewer, TextsKept, marked' = marked,
         \A i \in DOMAIN task' : i # h => Like(i),
         \A k \in Queued' : k # h => Stays(k),
         h \in DOMAIN task' => FitsAmong(task'[h], h) /\ FitsViews(task'[h]),
         h \in Queued' => /\ FitsAmong(sync'.queue[h], h) /\ FitsViews(sync'.queue[h])
                          /\ UnfoundNext(h) => FitsPlaces(sync'.queue[h])
  PROVE  CopiesNext
<1>a. /\ ViewsApart /\ ViewsRows /\ ViewsQueue /\ RowsSeparate /\ QueueSeparate /\ BothSeparate
  BY DEF Copies
<1>t. /\ \A i \in DOMAIN task : task[i].text \in Texts /\ task[i].text <= texts
      /\ \A k \in Queued : sync.queue[k].text \in Texts /\ sync.queue[k].text <= texts
  BY TextsFit
<1>q. \A k \in Queued' : k # h => /\ k \in Queued /\ sync'.queue[k] = sync.queue[k]
                                  /\ root'[sync'.queue[k].text] = root[sync.queue[k].text]
  BY <1>t DEF Stays, TextsKept
<1>v. \A p \in Names, t \in Texts : SeenNext(p, t) => Seen(p, t) /\ root'[t] = root[t]
  BY SeenFits DEF Fewer, TextsKept
<1>1. ASSUME NEW p \in Names, NEW q \in Names, NEW t \in Texts, NEW u \in Texts,
             SeenNext(p, t), SeenNext(q, u), p # q
      PROVE  ApartNext(t, u) /\ (marked'[p] # 0 => marked'[p] # marked'[q])
  BY <1>a, <1>v, <1>1, ApartStays DEF ViewsApart
<1>2. ASSUME NEW p \in Names, NEW t \in Texts, NEW i \in DOMAIN task', SeenNext(p, t)
      PROVE  ApartNext(task'[i].text, t) \/ task'[i].href = p \/ ByMarkerNext(task'[i], p)
  <2>1. CASE i = h
    BY <1>2, <2>1 DEF FitsViews
  <2>2. CASE i # h
    <3>1. Like(i) /\ Seen(p, t) /\ root'[t] = root[t]
      BY <1>v, <1>2, <2>2
    <3>2. Apart(task[i].text, t) \/ task[i].href = p \/ ByMarker(task[i], p)
      BY <1>a, <3>1 DEF ViewsRows, Like, RowOf
    <3> QED
      BY <3>1, <3>2, ApartStays DEF Like, ByMarker, ByMarkerNext
  <2> QED
    BY <2>1, <2>2
<1>3. ASSUME NEW p \in Names, NEW t \in Texts, NEW k \in Queued', SeenNext(p, t)
      PROVE  \/ ApartNext(sync'.queue[k].text, t) \/ sync'.queue[k].href = p
             \/ ByMarkerNext(sync'.queue[k], p) /\ ~UnfoundNext(k)
  <2>1. CASE k = h
    BY <1>3, <2>1 DEF FitsViews, FitsPlaces
  <2>2. CASE k # h
    <3>1. Stays(k) /\ Seen(p, t) /\ root'[t] = root[t] /\ root'[sync'.queue[k].text] = root[sync.queue[k].text]
      BY <1>v, <1>q, <1>3, <2>2
    <3>2. \/ Apart(sync.queue[k].text, t) \/ sync.queue[k].href = p
          \/ ByMarker(sync.queue[k], p) /\ ~Unfound(k)
      BY <1>a, <3>1 DEF ViewsQueue, Stays
    <3>3. CASE Apart(sync.queue[k].text, t)
      BY <3>1, <3>3, ApartStays
    <3>4. CASE ByMarker(sync.queue[k], p) /\ ~Unfound(k)
      BY <3>1, <3>4 DEF Stays, ByMarker, ByMarkerNext
    <3> QED
      BY <3>1, <3>2, <3>3, <3>4 DEF Stays
  <2> QED
    BY <2>1, <2>2
<1>4. ASSUME NEW i \in DOMAIN task', NEW j \in DOMAIN task', i # j
      PROVE  SeparateNext(task'[i], task'[j])
  <2>1. CASE i = h \/ j = h
    BY <1>4, <2>1 DEF FitsAmong
  <2>2. CASE i # h /\ j # h
    <3>1. Like(i) /\ Like(j)
      BY <2>2
    <3>2. Separate(task[i], task[j])
      BY <1>a, <1>4, <3>1 DEF RowsSeparate, Like
    <3>3. ApartNext(task'[i].text, task'[j].text)
      BY <3>1, <3>2, ApartStays DEF Like, Separate
    <3> QED
      BY <3>1, <3>2, <3>3 DEF Like, Separate, SeparateNext
  <2> QED
    BY <2>1, <2>2
<1>5. ASSUME NEW k \in Queued', NEW l \in Queued', k # l
      PROVE  SeparateNext(sync'.queue[k], sync'.queue[l])
  <2>1. CASE k = h \/ l = h
    BY <1>5, <2>1 DEF FitsAmong
  <2>2. CASE k # h /\ l # h
    <3>1. /\ k \in Queued /\ l \in Queued /\ sync'.queue[k] = sync.queue[k] /\ sync'.queue[l] = sync.queue[l]
          /\ root'[sync'.queue[k].text] = root[sync.queue[k].text]
          /\ root'[sync'.queue[l].text] = root[sync.queue[l].text]
      BY <1>q, <2>2
    <3>2. Separate(sync.queue[k], sync.queue[l])
      BY <1>a, <1>5, <3>1 DEF QueueSeparate
    <3>3. ApartNext(sync'.queue[k].text, sync'.queue[l].text)
      BY <3>1, <3>2, ApartStays DEF Separate
    <3> QED
      BY <3>1, <3>2, <3>3 DEF Separate, SeparateNext
  <2> QED
    BY <2>1, <2>2
<1>6. ASSUME NEW k \in Queued', NEW i \in DOMAIN task', i # k
      PROVE  SeparateNext(sync'.queue[k], task'[i]) /\ SeparateNext(task'[i], sync'.queue[k])
  <2>1. CASE k = h
    BY <1>6, <2>1 DEF FitsAmong
  <2>2. CASE i = h
    BY <1>6, <2>2 DEF FitsAmong
  <2>3. CASE i # h /\ k # h
    <3>1. /\ k \in Queued /\ sync'.queue[k] = sync.queue[k] /\ Like(i)
          /\ root'[sync'.queue[k].text] = root[sync.queue[k].text]
      BY <1>q, <2>3
    <3>2. Separate(sync.queue[k], task[i]) /\ Separate(task[i], sync.queue[k])
      BY <1>a, <1>6, <3>1 DEF BothSeparate, Like
    <3>3. ApartNext(sync'.queue[k].text, task'[i].text) /\ ApartNext(task'[i].text, sync'.queue[k].text)
      BY <3>1, <3>2, ApartStays DEF Separate, Like
    <3> QED
      BY <3>1, <3>2, <3>3 DEF Separate, SeparateNext, Like
  <2> QED
    BY <2>1, <2>2, <2>3
<1> QED
  BY <1>1, <1>2, <1>3, <1>4, <1>5, <1>6 DEF CopiesNext

\* What the server and the settler have in hand, when nothing is written.
LEMMA FewerFacts ==
  ASSUME IInv, UNCHANGED history, settler' = settler \/ settler'.pc # "write",
         settler.id \in DOMAIN task' => settler.id \in DOMAIN task,
         \A p \in Names : sync'.listing[p] \in {0, sync.listing[p], Tag(p)}
  PROVE  Fewer
<1> SUFFICES ASSUME NEW p \in Names, NEW t \in Texts, SeenNext(p, t) PROVE Seen(p, t)
  BY DEF Fewer
<1>a. TypeServer
  BY DEF IInv, TypeOK
<1>1. sync'.listing[p] # 0 /\ sync'.listing[p] = Tag(p) => There(p) /\ history[p][sync'.listing[p]] = Last(history[p])
  BY <1>a, ThereFacts
<1> QED
  BY <1>1 DEF SeenNext, Seen, There

\* The same tasks, at the same places.
LEMMA CalmCopies ==
  ASSUME IInv, IInv', Copies, Fewer, UNCHANGED <<kind, marked, again, root, texts>>, names <= names',
         \A i \in DOMAIN task' : Like(i), \A k \in Queued' : Stays(k), HeadUnfound'
  PROVE  Copies'
<1>t. /\ TextsKept /\ \A k \in Queued : sync.queue[k].text \in Texts /\ sync.queue[k].text <= texts
  BY TextsFit DEF TextsKept
<1>0. 0 \notin DOMAIN task' /\ 0 \notin Queued'
  BY DEF IInv, TypeOK, TypeStore, TypeSync
<1>1. CopiesNext
  BY <1>t, <1>0, ChangeCopies
<1>2. SameTask'
  <2> SUFFICES ASSUME NEW k \in Queued', k \in DOMAIN task'
               PROVE  root'[sync'.queue[k].text] = root'[task'[k].text]
    BY DEF SameTask
  <2>1. Stays(k) /\ Like(k)
    OBVIOUS
  <2>2. root[sync.queue[k].text] = root[task[k].text]
    BY <2>1 DEF Copies, SameTask, Stays, Like
  <2> QED
    BY <2>1, <2>2 DEF Stays, Like
<1>3. RootsFit'
  BY DEF Copies, RootsFit
<1>4. MarkedFits'
  <2>1. names \in Nat /\ names' \in Nat /\ \A p \in Names : marked[p] \in Nat
    BY DEF IInv, TypeOK, TypeServer, Names
  <2> QED
    BY <2>1 DEF Copies, MarkedFits, Names
<1> QED
  BY <1>1, <1>2, <1>3, <1>4, NextCopiesDef

\* Copies that are as they were and not just looked for.
LEMMA StayFacts ==
  ASSUME Queued' \subseteq Queued, \A k \in Queued' : sync'.queue[k] = sync.queue[k],
         sync'.pc \notin {"route", "send"} \/ (sync.pc \in {"route", "send"} /\ HeadId' = HeadId)
  PROVE  \A k \in Queued' : Stays(k)
BY DEF Stays, UnfoundNext, Unfound

\* Rows and server as they were.
LEMMA SameRows ==
  ASSUME UNCHANGED <<task, root>>
  PROVE  \A i \in DOMAIN task' : Like(i)
BY DEF Like

\* The person looks.
LEMMA LooksCopies ==
  ASSUME IInv, IInv', Copies,
         \/ SettleGet
         \/ \E id \in DOMAIN task : OpenEditor(id) \/ \E keep \in {"mine", "server"} : SettleAsk(id, keep)
  PROVE  Copies'
<1>a. TypeServer /\ TypeBeside /\ names \in Nat
  BY DEF IInv, TypeOK, TypeServer
<1>1. /\ UNCHANGED <<kind, marked, again, root, texts>> /\ UNCHANGED <<task, sync, history, names>>
      /\ SettleGet \/ settler' = settler \/ settler'.pc # "write"
  BY DEF SettleGet, OpenEditor, SettleAsk, server, ghosts
<1>2. Fewer
  <2>1. CASE SettleGet
    <3>1. /\ settler'.pc = "write" /\ settler'.id = settler.id /\ settler'.href = settler.href
          /\ settler'.got = (IF settler.href = 0 THEN 0 ELSE Tag(settler.href))
      BY <2>1, SettleGetInv
    <3> SUFFICES ASSUME NEW p \in Names, NEW t \in Texts, SeenNext(p, t) PROVE Seen(p, t)
      BY DEF Fewer
    <3>2. settler'.got # 0 /\ p = settler'.href => There(p) /\ history[p][settler'.got] = Last(history[p])
      BY <1>a, <3>1, ThereFacts
    <3> QED
      BY <1>1, <3>2 DEF SeenNext, Seen, There
  <2>2. CASE settler' = settler \/ settler'.pc # "write"
    BY <1>1, <2>2, FewerFacts
  <2> QED
    BY <1>1, <2>1, <2>2
<1>3. HeadUnfound'
  BY <1>1 DEF Copies, HeadUnfound, Head1, HeadId, Queued, There
<1>4. \A k \in Queued' : Stays(k)
  BY <1>1 DEF Stays, UnfoundNext, Unfound, Queued, HeadId
<1> QED
  BY <1>a, <1>1, <1>2, <1>3, <1>4, SameRows, CalmCopies

\* A sync goes on or ends, or reads the list.
LEMMA MovesCopies ==
  ASSUME IInv, IInv', Copies,
         \/ QueueDone \/ HasPlace \/ EwsCheck \/ EwsReadBackGone \/ SyncFails \/ Crash
         \/ List \/ EwsList \/ EwsMissing
  PROVE  Copies'
<1>a. TypeServer /\ TypeBeside /\ TypeSync /\ TypeStore /\ HeadFits /\ Phase /\ names \in Nat
  BY DEF IInv, TypeOK, TypeServer
<1>1. /\ UNCHANGED <<kind, marked, again, root, texts>> /\ UNCHANGED <<task, history, names>>
      /\ settler' = settler \/ settler' = NoSettler
  BY DEF QueueDone, HasPlace, EwsCheck, EwsReadBackGone, SyncFails, Crash, List, EwsList, EwsMissing, server, ghosts
<1>2. CASE QueueDone \/ HasPlace \/ EwsCheck
  <2>1. /\ sync'.queue = sync.queue /\ sync'.listing = sync.listing
        /\ sync'.pc = "send" => Queued # {} /\ Head1.href # 0
        /\ sync'.pc # "route"
    BY <1>a, <1>2 DEF QueueDone, HasPlace, EwsCheck, Go, At, TypeSync, HeadFits, Phase
  <2>2. Queued' = Queued /\ HeadId' = HeadId /\ Head1' = Head1
    BY <2>1 DEF Queued, HeadId, Head1
  <2>3. Fewer
    BY <1>1, <2>1, FewerFacts DEF NoSettler
  <2>4. HeadUnfound'
    BY <2>1, <2>2 DEF HeadUnfound
  <2>5. \A k \in Queued' : Stays(k)
    BY <2>1, <2>2 DEF Stays, UnfoundNext, Unfound, ByMarker, Head1
  <2> QED
    BY <1>a, <1>1, <2>3, <2>4, <2>5, SameRows, CalmCopies
<1>3. CASE EwsReadBackGone \/ SyncFails \/ Crash \/ List \/ EwsList \/ EwsMissing
  <2>1. /\ Queued' = {} /\ sync'.pc \notin {"route", "send"}
        /\ \A p \in Names : sync'.listing[p] \in {0, sync.listing[p], Tag(p)}
    <3>1. CASE EwsReadBackGone \/ SyncFails \/ Crash
      BY <3>1, NoSyncFacts DEF EwsReadBackGone, SyncFails, Crash, Queued
    <3>2. CASE List
      BY <3>2, NoSyncFacts DEF List, Queued, NoSync
    <3>3. CASE EwsList
      <4>1. PICK missed \in SUBSET Objects :
              sync' = [NoSync EXCEPT !.pc = "missing",
                         !.listing = [p \in Names |-> IF p \in missed THEN 0 ELSE Tag(p)]]
        BY <3>3 DEF EwsList
      <4> QED
        BY <4>1, NoSyncFacts DEF Queued, NoSync
    <3>4. CASE EwsMissing
      <4>1. sync' = [sync EXCEPT !.pc = "reconcile",
                !.listing = [p \in Names |-> IF sync.listing[p] = 0 /\ p \in Hrefs THEN Tag(p) ELSE sync.listing[p]]]
        BY <1>a, <3>4 DEF EwsMissing, TypeSync
      <4>2. Queued = {}
        BY <1>a, <3>4 DEF EwsMissing, At, Phase
      <4> QED
        BY <1>a, <4>1, <4>2 DEF Queued, TypeSync
    <3> QED
      BY <1>3, <3>1, <3>2, <3>3, <3>4
  <2>2. Fewer
    BY <1>1, <2>1, FewerFacts DEF NoSettler
  <2>3. HeadUnfound'
    BY <2>1 DEF HeadUnfound
  <2> QED
    BY <1>a, <1>1, <2>1, <2>2, <2>3, SameRows, CalmCopies
<1> QED
  BY <1>2, <1>3

\* What is in hand once one object has one more version, t.
LEMMA GrownViews ==
  ASSUME IInv, NEW p \in Names, NEW t \in Texts \cup {0}, history' = [history EXCEPT ![p] = Append(@, t)],
         sync'.listing = sync.listing, UNCHANGED <<settler, task>>
  PROVE  \A q \in Names, u \in Texts : SeenNext(q, u) => Seen(q, u) \/ (q = p /\ t # 0 /\ u = t)
<1> SUFFICES ASSUME NEW q \in Names, NEW u \in Texts, SeenNext(q, u), ~Seen(q, u)
             PROVE  q = p /\ t # 0 /\ u = t
  OBVIOUS
<1>a. TypeServer /\ TypeSync /\ TypeBeside /\ ListingFits /\ SettlerFits
  BY DEF IInv, TypeOK
<1>b. /\ history' \in [Names -> Seq(Texts \cup {0})] /\ Kept
      /\ Len(history'[p]) = Len(history[p]) + 1 /\ history'[p][Len(history[p]) + 1] = t
      /\ \A x \in Names : x # p => history'[x] = history[x]
  BY <1>a, AppendFacts
<1>1. ~(sync'.listing[q] # 0 /\ u = history'[q][sync'.listing[q]])
  <2>1. Len(history[q]) \in Nat /\ sync.listing[q] \in Nat
    BY <1>a, ThereFacts DEF TypeSync
  <2>2. sync.listing[q] # 0 => history'[q][sync.listing[q]] = history[q][sync.listing[q]]
    BY <1>a, <1>b, <2>1 DEF Kept, ListingFits
  <2> QED
    BY <2>2 DEF Seen
<1>2. ~(/\ settler'.pc = "write" /\ settler'.id \in DOMAIN task' /\ settler'.got # 0
        /\ q = settler'.href /\ u = history'[q][settler'.got])
  <2>1. Len(history[q]) \in Nat /\ settler.got \in Nat
    BY <1>a, ThereFacts DEF TypeBeside
  <2>2. settler.pc = "write" /\ settler.got # 0 /\ q = settler.href =>
          history'[q][settler.got] = history[q][settler.got]
    BY <1>a, <1>b, <2>1 DEF Kept, SettlerFits
  <2> QED
    BY <2>2 DEF Seen
<1>3. history'[q] # <<>> /\ Last(history'[q]) # 0 /\ u = Last(history'[q])
  BY <1>1, <1>2 DEF SeenNext
<1>4. q = p
  BY <1>b, <1>3 DEF Seen, There
<1>5. Last(history'[p]) = t
  <2>1. Len(history[p]) \in Nat
    BY <1>a, ThereFacts
  <2> QED
    BY <1>b, <2>1 DEF Last
<1> QED
  BY <1>3, <1>4, <1>5

\* The object at p is there no more.
LEMMA FewerGone ==
  ASSUME IInv, NEW p \in Names, history' = [history EXCEPT ![p] = Append(@, 0)],
         sync'.listing = sync.listing, UNCHANGED <<settler, task>>
  PROVE  Fewer /\ \A q \in Names : There(q)' => There(q)
<1>1. Fewer
  BY GrownViews DEF Fewer
<1>a. TypeServer
  BY DEF IInv, TypeOK
<1>b. /\ Len(history'[p]) = Len(history[p]) + 1 /\ history'[p][Len(history[p]) + 1] = 0
      /\ \A x \in Names : x # p => history'[x] = history[x] /\ Len(history[p]) \in Nat
  BY <1>a, AppendFacts, ThereFacts
<1>2. \A q \in Names : There(q)' => There(q)
  BY <1>b DEF There, Last
<1> QED
  BY <1>1, <1>2

\* Something is deleted on the server, or a write is refused.
LEMMA DeletesCopies ==
  ASSUME IInv, IInv', Copies,
         \/ ServerDeletes \/ \E p \in Names : OtherDeletes(p)
         \/ (ServerPuts \/ EwsUpdates) /\ UNCHANGED history
  PROVE  Copies'
<1>a. TypeServer /\ TypeBeside /\ TypeSync /\ TypeStore /\ HeadFits /\ Phase /\ names \in Nat
  BY DEF IInv, TypeOK, TypeServer
<1>1. /\ UNCHANGED <<kind, marked, again, root, texts>> /\ UNCHANGED <<task, settler, names>>
  BY DEF ServerDeletes, OtherDeletes, ServerPuts, EwsUpdates, ghosts
<1>2. /\ sync'.queue = sync.queue /\ sync'.listing = sync.listing
      /\ sync' = sync \/ sync'.pc \notin {"route", "send"}
  BY <1>a DEF ServerDeletes, OtherDeletes, ServerPuts, EwsUpdates, Says, Go, TypeSync
<1>3. history' = history \/ \E p \in Names : history' = [history EXCEPT ![p] = Append(@, 0)]
  <2>1. CASE ServerDeletes
    <3>1. Queued # {} /\ Head1.href \in Names
      BY <1>a, <2>1, HeadFacts DEF ServerDeletes, At, HeadFits, Phase, Row
    <3> QED
      BY <2>1, <3>1 DEF ServerDeletes
  <2> QED
    BY <2>1 DEF OtherDeletes
<1>4. Fewer /\ \A q \in Names : There(q)' => There(q)
  <2>1. CASE history' = history
    BY <1>1, <1>2, <2>1, FewerFacts DEF There
  <2> QED
    BY <1>1, <1>2, <1>3, <2>1, FewerGone
<1>5. Queued' = Queued /\ HeadId' = HeadId /\ Head1' = Head1
  BY <1>2 DEF Queued, HeadId, Head1
<1>6. HeadUnfound'
  BY <1>1, <1>2, <1>4, <1>5 DEF HeadUnfound, Copies
<1>7. \A k \in Queued' : Stays(k)
  BY <1>2, <1>5, StayFacts
<1> QED
  BY <1>a, <1>1, <1>4, <1>6, <1>7, SameRows, CalmCopies

\* The row at the head of the queue goes, or its answer is kept.
LEMMA AnswersCopies ==
  ASSUME IInv, IInv', Copies, DropDeleted \/ Answer
  PROVE  Copies'
<1>a. TypeServer /\ TypeSync /\ TypeStore /\ HeadFits /\ Phase /\ names \in Nat /\ settler.id \in Nat
  BY DEF IInv, TypeOK, TypeServer, TypeBeside, TypeStore
<1>1. /\ UNCHANGED <<kind, marked, again, root, texts>> /\ UNCHANGED <<lastId, settler, names, history>> /\ Queued # {}
  BY <1>a DEF DropDeleted, Answer, server, ghosts, At, Phase
<1>r. \A i \in DOMAIN task : task[i] \in Row
  BY <1>a DEF TypeStore
<1>2. /\ sync'.pc \notin {"route", "send"} /\ Queued' \subseteq Queued
      /\ \A k \in Queued' : sync'.queue[k] = sync.queue[k]
      /\ \A p \in Names : sync'.listing[p] \in {0, sync.listing[p]}
  <2>1. CASE NextTask
    BY <1>a, <1>1, <2>1, NextTaskFacts
  <2>2. CASE sync' = [NoSync EXCEPT !.pc = "list"]
    BY <2>2, NoSyncFacts DEF Queued, NoSync
  <2> QED
    BY <2>1, <2>2 DEF DropDeleted, Answer
<1>3. \A i \in DOMAIN task' : Like(i)
  <2> DEFINE r == [task[HeadId] EXCEPT !.conflict = "changed"]
             s == [task[HeadId] EXCEPT !.etag = sync.tag, !.pending = Sent(task[HeadId])]
  <2>1. task' = task \/ Drop(HeadId) \/ Update(HeadId, r) \/ Update(HeadId, s)
    BY DEF DropDeleted, Answer
  <2>2. HeadId \in DOMAIN task =>
          /\ r.text = task[HeadId].text /\ r.href = task[HeadId].href /\ r.marker = task[HeadId].marker
          /\ s.text = task[HeadId].text /\ s.href = task[HeadId].href /\ s.marker = task[HeadId].marker
    BY <1>r DEF Row
  <2> HIDE DEF r, s
  <2>3. CASE task' = task \/ Drop(HeadId)
    BY <1>1, <2>3 DEF Drop, Like
  <2>4. CASE Update(HeadId, r)
    BY <1>1, <2>2, <2>4 DEF Update, Put, Like
  <2>5. CASE Update(HeadId, s)
    BY <1>1, <2>2, <2>5 DEF Update, Put, Like
  <2> QED
    BY <2>1, <2>3, <2>4, <2>5
<1>4. Fewer
  <2>1. settler.id \in DOMAIN task' => settler.id \in DOMAIN task
    BY <1>3 DEF Like
  <2> QED
    BY <1>1, <1>2, <2>1, FewerFacts
<1>5. HeadUnfound'
  BY <1>2 DEF HeadUnfound
<1>6. \A k \in Queued' : Stays(k)
  BY <1>2, StayFacts
<1> QED
  BY <1>a, <1>1, <1>3, <1>4, <1>5, <1>6, CalmCopies

\* A sync starts: the copies are the rows.
LEMMA SyncStartCopies ==
  ASSUME IInv, IInv', Copies, SyncStart
  PROVE  Copies'
<1>a. /\ ViewsApart /\ ViewsRows /\ RowsSeparate /\ RootsFit /\ MarkedFits
  BY DEF Copies
<1>1. /\ UNCHANGED <<kind, marked, again, root, texts>> /\ UNCHANGED <<task, history, names, settler>>
  BY DEF SyncStart, server, ghosts
<1>2. /\ \A k \in Queued' : k \in DOMAIN task /\ sync'.queue[k] = task[k]
      /\ sync'.pc \notin {"route", "send"} /\ \A p \in Names : sync'.listing[p] = 0
  <2>1. CASE sync' = [NoSync EXCEPT !.pc = "list"]
    BY <2>1, NoSyncFacts DEF Queued, NoSync
  <2>2. CASE sync' = [NoSync EXCEPT !.pc = "next", !.queue = QueueOf]
    BY <2>2, NoSyncFacts DEF Queued, NoSync, QueueOf
  <2> QED
    BY <2>1, <2>2 DEF SyncStart
<1>3. Fewer
  BY <1>1, <1>2, FewerFacts
<1>s. /\ \A t, u : Apart(t, u) => ApartNext(t, u)
      /\ \A r, p : ByMarker(r, p) => ByMarkerNext(r, p)
      /\ \A r, s : Separate(r, s) => SeparateNext(r, s)
  BY <1>1 DEF Apart, ApartNext, Separate, SeparateNext, ByMarker, ByMarkerNext
<1>4. CopiesNext
  <2>1. ASSUME NEW p \in Names, NEW q \in Names, NEW t \in Texts, NEW u \in Texts,
               SeenNext(p, t), SeenNext(q, u), p # q
        PROVE  ApartNext(t, u) /\ (marked'[p] # 0 => marked'[p] # marked'[q])
    BY <1>a, <1>1, <1>3, <1>s, <2>1 DEF Fewer, ViewsApart
  <2>2. ASSUME NEW p \in Names, NEW t \in Texts, NEW i \in DOMAIN task, SeenNext(p, t)
        PROVE  ApartNext(task[i].text, t) \/ task[i].href = p \/ ByMarkerNext(task[i], p)
    BY <1>a, <1>3, <1>s, <2>2 DEF Fewer, ViewsRows, RowOf
  <2>3. \A i, j \in DOMAIN task : i # j => SeparateNext(task[i], task[j])
    BY <1>a, <1>s DEF RowsSeparate
  <2>4. \A k : ~UnfoundNext(k)
    BY <1>2 DEF UnfoundNext
  <2> QED
    BY <1>1, <1>2, <2>1, <2>2, <2>3, <2>4 DEF CopiesNext
<1>5. HeadUnfound' /\ SameTask'
  BY <1>1, <1>2 DEF HeadUnfound, SameTask
<1>6. RootsFit' /\ MarkedFits'
  BY <1>a, <1>1 DEF RootsFit, MarkedFits
<1> QED
  BY <1>4, <1>5, <1>6, NextCopiesDef

\* What the person does, and the task a new text is of.
PersonActs ==
  \/ Create \/ SaveEditor
  \/ \E id \in DOMAIN task : CompleteOccurrence(id) \/ Delete(id) \/ \E stops \in BOOLEAN : Complete(id, stops)

\* A new text is of a new task, or of the row it was written for.
LEMMA PersonRoots ==
  ASSUME IInv, PersonActs
  PROVE  /\ PersonStep /\ PersonSight /\ (lastId' = lastId \/ lastId' = lastId + 1)
         /\ \/ texts' = texts \/ root'[texts'] = texts'
            \/ \E i \in DOMAIN task : root'[texts'] = root[task[i].text]
<1>1. PersonStep /\ PersonSight
  BY CreateInv, SaveEditorInv, CompleteOccurrenceInv, DeleteInv, CompleteInv DEF PersonActs
<1>2. lastId' = lastId \/ lastId' = lastId + 1
  BY DEF PersonActs, Create, SaveEditor, CompleteOccurrence, Delete, Complete
<1>a. /\ TypeGhosts /\ texts \in Nat /\ (Asked => texts + 1 \in Texts /\ texts + 2 \in Texts)
      /\ \A i \in DOMAIN task : task[i].text \in Texts
  <2>1. TypeGhosts /\ texts \in Nat
    BY DEF IInv, TypeOK, TypeGhosts
  <2> QED
    BY <2>1, RoomFacts, TextsFit
<1>3. ASSUME Asked, NEW seen, NEW of, Writes(seen, of), of # 0
      PROVE  root'[texts'] = root[of]
  BY <1>a, <1>3 DEF Writes, TypeGhosts
<1>4. CASE Create
  <2>1. Asked /\ Writes({}, 0)
    BY <1>4 DEF Create
  <2>2. root'[texts'] = texts'
    BY <1>a, <2>1 DEF Writes, TypeGhosts
  <2> QED
    BY <1>1, <1>2, <2>2
<1>5. CASE SaveEditor
  <2>1. CASE EditorCurrent
    <3>1. Asked /\ Writes(InSight(editor.text), task[editor.id].text) /\ editor.id \in DOMAIN task
      BY <1>5, <2>1 DEF SaveEditor, EditorCurrent
    <3>2. task[editor.id].text # 0
      BY <1>a, <3>1 DEF Texts
    <3> QED
      BY <1>1, <1>2, <1>3, <3>1, <3>2
  <2>2. CASE ~EditorCurrent
    BY <1>1, <1>2, <1>5, <2>2 DEF SaveEditor
  <2> QED
    BY <2>1, <2>2
<1>6. ASSUME NEW id \in DOMAIN task, NEW stops \in BOOLEAN, Complete(id, stops)
      PROVE  root'[texts'] = root[task[id].text]
  <2>1. Asked /\ Writes(InSight(task[id].text), task[id].text) /\ task[id].text # 0
    BY <1>a, <1>6 DEF Complete, Texts
  <2> QED
    BY <1>3, <2>1
<1>7. ASSUME NEW id \in DOMAIN task, CompleteOccurrence(id)
      PROVE  root'[texts'] = root[task[id].text]
  <2>1. Asked /\ texts' = texts + 2 /\ root' = [root EXCEPT ![texts + 2] = root[task[id].text]]
    BY <1>7 DEF CompleteOccurrence
  <2> QED
    BY <1>a, <2>1 DEF TypeGhosts
<1>8. ASSUME NEW id \in DOMAIN task, Delete(id) PROVE texts' = texts
  BY <1>8 DEF Delete, ghosts
<1> QED
  BY <1>1, <1>2, <1>4, <1>5, <1>6, <1>7, <1>8 DEF PersonActs

\* A task made here is of no task there was; an edit is of the same task.
LEMMA PersonCopies ==
  ASSUME IInv, IInv', Copies, PersonActs
  PROVE  Copies'
<1>a. /\ ViewsApart /\ ViewsRows /\ RowsSeparate /\ RootsFit /\ MarkedFits /\ SameTask /\ HeadUnfound
      /\ texts \in Nat /\ texts' \in Nat /\ lastId \in Nat /\ settler.id \in Nat /\ settler.id <= lastId
      /\ Queued \subseteq 1 .. lastId /\ DOMAIN task' \subseteq 1 .. lastId' /\ \A t \in Texts : root[t] \in Nat
  <2>1. TypeGhosts /\ TypeGhosts' /\ TypeStore /\ TypeStore' /\ TypeBeside /\ TypeSync
    BY DEF IInv, TypeOK
  <2>2. texts \in Nat /\ texts' \in Nat /\ \A t \in Texts : root[t] \in Nat
    BY <2>1 DEF TypeGhosts, Texts
  <2>3. lastId \in Nat /\ settler.id \in Nat /\ settler.id <= lastId
    BY <2>1 DEF TypeStore, TypeBeside
  <2>4. Queued \subseteq 1 .. lastId /\ DOMAIN task' \subseteq 1 .. lastId'
    BY <2>1 DEF TypeStore, TypeSync
  <2> QED
    BY <2>2, <2>3, <2>4 DEF Copies
<1>b. /\ PersonStep /\ PersonSight /\ (lastId' = lastId \/ lastId' = lastId + 1)
      /\ \/ texts' = texts \/ root'[texts'] = texts'
         \/ \E i \in DOMAIN task : root'[texts'] = root[task[i].text]
  BY PersonRoots
<1>1. /\ UNCHANGED <<kind, sync, settler, history, marked, names, byOther, settled, again>> /\ cut \subseteq cut'
      /\ texts <= texts'
      /\ \A i \in DOMAIN task' :
           \/ i \in DOMAIN task /\ (task'[i] = task[i] \/ Edited(i) \/ Deleted(i))
           \/ i \notin DOMAIN task /\ Made(i)
  BY <1>b DEF PersonStep
<1>t. /\ \A i \in DOMAIN task : task[i].text \in Texts /\ task[i].text <= texts
      /\ \A k \in Queued : sync.queue[k].text \in Texts /\ sync.queue[k].text <= texts
      /\ \A i \in DOMAIN task' : task'[i] \in Row /\ task'[i].text \in Texts
  BY TextsFit DEF IInv, TypeOK, TypeStore, Row
<1>2. TextsKept
  BY <1>b, <1>1 DEF TextsKept, PersonSight
<1> DEFINE h == lastId + 1
<1>3. \A i \in DOMAIN task' : i # h => Like(i)
  <2> SUFFICES ASSUME NEW i \in DOMAIN task', i # h PROVE Like(i)
    OBVIOUS
  <2>1. i \in DOMAIN task /\ (task'[i] = task[i] \/ Edited(i) \/ Deleted(i))
    BY <1>a, <1>b, <1>1 DEF Made
  <2>2. CASE task'[i] = task[i] \/ Deleted(i)
    BY <1>t, <1>2, <2>1, <2>2 DEF Like, Deleted, TextsKept
  <2>3. CASE Edited(i)
    BY <1>b, <2>1, <2>3 DEF Like, Edited, PersonSight
  <2> QED
    BY <2>1, <2>2, <2>3
<1>4. \A k \in Queued' : Stays(k)
  BY <1>1 DEF Stays, UnfoundNext, Unfound, Queued, HeadId
<1>5. Fewer
  <2>1. settler.id \in DOMAIN task' => settler.id \in DOMAIN task
    BY <1>a, <1>1 DEF Made
  <2> QED
    BY <1>1, <2>1, FewerFacts
<1>6. h \notin Queued'
  BY <1>a, <1>1 DEF Queued
<1>7. h \in DOMAIN task' => FitsAmong(task'[h], h) /\ FitsViews(task'[h])
  <2> SUFFICES ASSUME h \in DOMAIN task' PROVE FitsAmong(task'[h], h) /\ FitsViews(task'[h])
    OBVIOUS
  <2>1. h \notin DOMAIN task
    BY <1>a DEF IInv, TypeOK, TypeStore
  <2>2. Made(h)
    BY <1>1, <2>1
  <2> DEFINE n == task'[h].text
  <2>3. n \in Texts /\ n > texts /\ task'[h].href = 0 /\ task'[h].marker = 0
    BY <1>t, <2>2 DEF Made
  <2>4. root'[n] = n
    BY <1>a, <1>b, <2>1, <2>3 DEF PersonSight, RootsFit
  <2>5. ASSUME NEW x, root'[x] \in Nat, root'[x] <= texts PROVE ApartNext(n, x) /\ ApartNext(x, n)
    BY <1>a, <2>3, <2>4, <2>5 DEF ApartNext, Texts
  <2>6. ASSUME NEW i \in DOMAIN task', i # h
        PROVE  SeparateNext(task'[h], task'[i]) /\ SeparateNext(task'[i], task'[h])
    <3>1. i \in DOMAIN task /\ root'[task'[i].text] = root[task[i].text]
      BY <1>3, <2>6 DEF Like
    <3>2. root'[task'[i].text] \in Nat /\ root'[task'[i].text] <= texts
      BY <1>a, <1>t, <3>1 DEF RootsFit
    <3> QED
      BY <2>3, <2>5, <3>2 DEF SeparateNext
  <2>7. ASSUME NEW k \in Queued', k # h
        PROVE  SeparateNext(task'[h], sync'.queue[k]) /\ SeparateNext(sync'.queue[k], task'[h])
    <3>1. sync'.queue[k] = sync.queue[k] /\ k \in Queued
      BY <1>4 DEF Stays
    <3>2. root'[sync'.queue[k].text] \in Nat /\ root'[sync'.queue[k].text] <= texts
      BY <1>a, <1>t, <1>2, <3>1 DEF RootsFit, TextsKept
    <3> QED
      BY <2>3, <2>5, <3>2 DEF SeparateNext
  <2>8. ASSUME NEW p \in Names, NEW t \in Texts, SeenNext(p, t)
        PROVE  ApartNext(n, t)
    <3>1. t <= texts
      BY <1>5, <2>8, SeenFits DEF Fewer
    <3>2. root'[t] \in Nat /\ root'[t] <= texts
      BY <1>a, <1>2, <3>1 DEF RootsFit, TextsKept
    <3> QED
      BY <2>5, <3>2
  <2> QED
    BY <2>6, <2>7, <2>8 DEF FitsAmong, FitsViews
<1>8. CopiesNext
  <2> HIDE DEF h
  <2> QED
    BY <1>1, <1>2, <1>3, <1>4, <1>5, <1>6, <1>7, ChangeCopies
<1>9. HeadUnfound' /\ MarkedFits'
  BY <1>a, <1>1 DEF HeadUnfound, Head1, HeadId, Queued, There, MarkedFits
<1>10. SameTask'
  <2> SUFFICES ASSUME NEW k \in Queued', k \in DOMAIN task'
               PROVE  root'[sync'.queue[k].text] = root'[task'[k].text]
    BY DEF SameTask
  <2>1. Stays(k) /\ Like(k)
    BY <1>3, <1>4, <1>6
  <2>2. root[sync.queue[k].text] = root[task[k].text]
    BY <1>a, <2>1 DEF SameTask, Stays, Like
  <2> QED
    BY <1>t, <1>2, <2>1, <2>2 DEF Stays, Like, TextsKept
<1>11. RootsFit'
  <2> SUFFICES ASSUME NEW t \in Texts
               PROVE  (t > texts' => root'[t] = t) /\ (t <= texts' => root'[t] <= texts')
    BY DEF RootsFit
  <2>0. t \in Nat
    BY DEF Texts
  <2>1. CASE t <= texts
    BY <1>a, <1>1, <1>2, <2>0, <2>1 DEF RootsFit, TextsKept
  <2>2. CASE t > texts /\ t # texts'
    BY <1>a, <1>b, <1>1, <2>0, <2>2 DEF RootsFit, PersonSight
  <2>3. CASE t > texts /\ t = texts'
    <3>1. ASSUME NEW i \in DOMAIN task PROVE root[task[i].text] \in Nat /\ root[task[i].text] <= texts
      BY <1>a, <1>t DEF RootsFit
    <3> QED
      BY <1>a, <1>b, <1>1, <2>0, <2>3, <3>1
  <2> QED
    BY <1>a, <2>0, <2>1, <2>2, <2>3
<1> QED
  BY <1>8, <1>9, <1>10, <1>11, NextCopiesDef

\* No other row or copy names the place p, or the marker m.
FreeOf(p, m, s) ==
  /\ p # 0 => p # s.href
  /\ m # 0 => m # s.marker /\ (s.href # 0 => marked[s.href] # m)
  /\ s.marker # 0 /\ p # 0 => marked[p] # s.marker
FreeName(p, m, h) ==
  /\ \A i \in DOMAIN task : i # h => FreeOf(p, m, task[i])
  /\ \A k \in Queued : k # h => FreeOf(p, m, sync.queue[k])

\* A row with another place stays of its task.
LEMMA PlacedFacts ==
  ASSUME NEW r \in Row, NEW p, NEW m, NEW e
  PROVE  /\ Placed(r, p, m, e).text = r.text /\ Placed(r, p, m, e).href = p
         /\ Placed(r, p, m, e).marker = m
BY DEF Placed, Row

\* It gets a place or a marker nobody has.
LEMMA FreeSeparate ==
  ASSUME UNCHANGED <<marked, again, root>>, NEW r, NEW s, NEW c, NEW p, NEW m, Separate(r, s), Separate(s, r),
         FreeOf(p, m, s), c.text = r.text, c.href = p, c.marker = m
  PROVE  SeparateNext(c, s) /\ SeparateNext(s, c)
BY DEF Separate, SeparateNext, FreeOf, Apart, ApartNext

\* The head of the queue and its row get a place or a marker.
LEMMA PlaceCopies ==
  ASSUME IInv, IInv', Copies, Queued # {}, sync.pc \in {"next", "route"}, Head1.href = 0,
         NEW p \in Names \cup {0}, NEW m \in Names \cup {0}, NEW e \in Nat, NEW f \in Nat, NEW x \in {"route", "send"},
         PlacesHead(p, m, e, f, x), FreeName(p, m, HeadId),
         \A q \in Names, t \in Texts : Seen(q, t) /\ ByMarker(Head1, q) => q = p,
         UNCHANGED <<kind, marked, again, root, texts>>, UNCHANGED <<lastId, settler, history>>, names <= names',
         HeadUnfound'
  PROVE  Copies'
<1>a. TypeSync /\ TypeStore /\ TypeServer /\ QueueRows
  BY DEF IInv, TypeOK
<1>b. /\ ViewsRows /\ ViewsQueue /\ RowsSeparate /\ QueueSeparate /\ BothSeparate /\ SameTask /\ RootsFit /\ MarkedFits
  BY DEF Copies
<1> DEFINE h == HeadId
           r == Placed(task[h], p, m, e)
           c == Placed(Head1, p, m, f)
<1>h. h \in Queued /\ Head1 \in Row /\ Head1 = sync.queue[h] /\ (h \in DOMAIN task => task[h] \in Row)
  BY <1>a, HeadFacts DEF Head1, TypeStore
<1>k. h \in DOMAIN task => /\ task[h].marker = Head1.marker /\ task[h].href = 0
                           /\ root[Head1.text] = root[task[h].text]
  BY <1>a, <1>b, <1>h DEF QueueRows, AtReadBack, SameTask
<1>r. h \in DOMAIN task => r.text = task[h].text /\ r.href = p /\ r.marker = m
  BY <1>h, PlacedFacts
<1>c. c.text = Head1.text /\ c.href = p /\ c.marker = m
  BY <1>h, PlacedFacts
<1>1. /\ Update(h, r) /\ c \in Row
      /\ sync' = [sync EXCEPT !.pc = x, !.queue = [sync.queue EXCEPT ![HeadId] = c]]
  <2>1. c \in Row
    BY <1>h DEF Placed, Row
  <2> QED
    BY <2>1 DEF PlacesHead
<1>x. h = HeadId
  OBVIOUS
<1> HIDE DEF h, r, c
<1>2. /\ Queued' = Queued /\ HeadId' = h /\ sync'.queue[h] = c
      /\ \A k \in Queued : k # h => sync'.queue[k] = sync.queue[k]
      /\ sync'.pc = x /\ sync'.listing = sync.listing
  BY <1>a, <1>1, <1>x, SwapFacts
<1>3. /\ DOMAIN task' = DOMAIN task /\ (h \in DOMAIN task => task'[h] = r)
      /\ \A i \in DOMAIN task : i # h => task'[i] = task[i]
  BY <1>1 DEF Update, Put
<1>4. Fewer
  BY <1>2, <1>3, FewerFacts
<1>5. TextsKept
  BY DEF TextsKept
<1>6. \A i \in DOMAIN task' : i # h => Like(i)
  BY <1>3 DEF Like
<1>7. \A k \in Queued' : k # h => Stays(k)
  BY <1>2 DEF Stays, UnfoundNext
<1>8. h \in DOMAIN task' => FitsAmong(task'[h], h) /\ FitsViews(task'[h])
  <2> SUFFICES ASSUME h \in DOMAIN task PROVE FitsAmong(r, h) /\ FitsViews(r)
    BY <1>3
  <2>1. ASSUME NEW i \in DOMAIN task', i # h PROVE SeparateNext(r, task'[i]) /\ SeparateNext(task'[i], r)
    <3>1. task'[i] = task[i] /\ i \in DOMAIN task /\ FreeOf(p, m, task[i])
      BY <1>3, <1>x, <2>1 DEF FreeName
    <3>2. Separate(task[h], task[i]) /\ Separate(task[i], task[h])
      BY <1>b, <2>1, <3>1 DEF RowsSeparate
    <3>3. SeparateNext(r, task[i]) /\ SeparateNext(task[i], r)
      BY <1>r, <3>1, <3>2, FreeSeparate
    <3> QED
      BY <3>1, <3>3
  <2>2. ASSUME NEW k \in Queued', k # h PROVE SeparateNext(r, sync'.queue[k]) /\ SeparateNext(sync'.queue[k], r)
    <3>1. sync'.queue[k] = sync.queue[k] /\ k \in Queued /\ FreeOf(p, m, sync.queue[k])
      BY <1>2, <1>x, <2>2 DEF FreeName
    <3>2. Separate(task[h], sync.queue[k]) /\ Separate(sync.queue[k], task[h])
      BY <1>b, <2>2, <3>1 DEF BothSeparate
    <3>3. SeparateNext(r, sync.queue[k]) /\ SeparateNext(sync.queue[k], r)
      BY <1>r, <3>1, <3>2, FreeSeparate
    <3> QED
      BY <3>1, <3>3
  <2>3. ASSUME NEW q \in Names, NEW t \in Texts, SeenNext(q, t) PROVE ApartNext(r.text, t) \/ r.href = q
    <3>1. Seen(q, t)
      BY <1>4, <2>3 DEF Fewer
    <3>2. Apart(task[h].text, t) \/ task[h].href = q \/ ByMarker(task[h], q)
      BY <1>b, <3>1 DEF ViewsRows, RowOf
    <3>3. q # 0
      BY DEF Names
    <3>4. ByMarker(task[h], q) => q = p
      BY <1>k, <3>1 DEF ByMarker
    <3> QED
      BY <1>k, <1>r, <3>2, <3>3, <3>4 DEF Apart, ApartNext
  <2> QED
    BY <2>1, <2>2, <2>3 DEF FitsAmong, FitsViews
<1>9. FitsAmong(c, h) /\ FitsViews(c) /\ FitsPlaces(c)
  <2>1. ASSUME NEW i \in DOMAIN task', i # h PROVE SeparateNext(c, task'[i]) /\ SeparateNext(task'[i], c)
    <3>1. task'[i] = task[i] /\ i \in DOMAIN task /\ FreeOf(p, m, task[i])
      BY <1>3, <1>x, <2>1 DEF FreeName
    <3>2. Separate(Head1, task[i]) /\ Separate(task[i], Head1)
      BY <1>b, <1>h, <2>1, <3>1 DEF BothSeparate
    <3>3. SeparateNext(c, task[i]) /\ SeparateNext(task[i], c)
      BY <1>c, <3>1, <3>2, FreeSeparate
    <3> QED
      BY <3>1, <3>3
  <2>2. ASSUME NEW k \in Queued', k # h PROVE SeparateNext(c, sync'.queue[k]) /\ SeparateNext(sync'.queue[k], c)
    <3>1. sync'.queue[k] = sync.queue[k] /\ k \in Queued /\ FreeOf(p, m, sync.queue[k])
      BY <1>2, <1>x, <2>2 DEF FreeName
    <3>2. Separate(Head1, sync.queue[k]) /\ Separate(sync.queue[k], Head1)
      BY <1>b, <1>h, <2>2, <3>1 DEF QueueSeparate
    <3>3. SeparateNext(c, sync.queue[k]) /\ SeparateNext(sync.queue[k], c)
      BY <1>c, <3>1, <3>2, FreeSeparate
    <3> QED
      BY <3>1, <3>3
  <2>3. ASSUME NEW q \in Names, NEW t \in Texts, SeenNext(q, t) PROVE ApartNext(c.text, t) \/ c.href = q
    <3>1. Seen(q, t)
      BY <1>4, <2>3 DEF Fewer
    <3>2. Apart(Head1.text, t) \/ Head1.href = q \/ ByMarker(Head1, q)
      BY <1>b, <1>h, <3>1 DEF ViewsQueue
    <3>3. q # 0
      BY DEF Names
    <3>4. ByMarker(Head1, q) => q = p
      BY <3>1
    <3> QED
      BY <1>c, <3>2, <3>3, <3>4 DEF Apart, ApartNext
  <2> QED
    BY <2>1, <2>2, <2>3 DEF FitsAmong, FitsViews, FitsPlaces
<1>10. CopiesNext
  BY <1>2, <1>4, <1>5, <1>6, <1>7, <1>8, <1>9, ChangeCopies
<1>11. SameTask'
  <2> SUFFICES ASSUME NEW k \in Queued, k \in DOMAIN task PROVE root[sync'.queue[k].text] = root[task'[k].text]
    BY <1>2, <1>3 DEF SameTask
  <2>1. CASE k = h
    BY <1>2, <1>3, <1>k, <1>r, <1>c, <2>1
  <2>2. CASE k # h
    BY <1>b, <1>2, <1>3, <2>2 DEF SameTask
  <2> QED
    BY <2>1, <2>2
<1>12. RootsFit'
  BY <1>b DEF RootsFit
<1>13. MarkedFits'
  <2>1. names \in Nat /\ names' \in Nat /\ \A q \in Names : marked[q] \in Nat
    BY DEF IInv, TypeOK, TypeServer, Names
  <2> QED
    BY <1>b, <2>1 DEF MarkedFits, Names
<1> QED
  BY <1>10, <1>11, <1>12, <1>13, NextCopiesDef

\* A new name is nobody's.
LEMMA NewFree ==
  ASSUME IInv, Copies, NewName, NEW h
  PROVE  FreeName(names', 0, h) /\ FreeName(0, names', h)
<1>a. TypeServer /\ TaskFits /\ QueueFits /\ TypeStore /\ TypeSync /\ MarkedFits
  BY DEF IInv, TypeOK, Copies
<1>1. names' = names + 1 /\ names' \in Names /\ names' # 0 /\ names \in Nat
  BY <1>a, NewNameFacts
<1>2. marked[names'] = 0
  BY <1>a, <1>1 DEF MarkedFits
<1>3. ASSUME NEW s \in Row, RowFits(s) PROVE FreeOf(names', 0, s) /\ FreeOf(0, names', s)
  <2>1. s.href \in Names \cup {0} /\ s.marker \in Names \cup {0} /\ s.href <= names /\ s.marker <= names
    BY <1>3 DEF Row, RowFits
  <2>2. names' # s.href /\ names' # s.marker
    BY <1>1, <2>1 DEF Names
  <2>3. s.href # 0 => marked[s.href] # names'
    <3> SUFFICES ASSUME s.href # 0, marked[s.href] = names' PROVE FALSE
      OBVIOUS
    <3>1. s.href \in Names /\ marked[s.href] # 0
      BY <1>1, <2>1
    <3>2. names' <= names
      BY <1>a, <3>1 DEF MarkedFits
    <3> QED
      BY <1>1, <3>2
  <2> QED
    BY <1>2, <2>2, <2>3 DEF FreeOf
<1> QED
  BY <1>a, <1>3 DEF FreeName, TaskFits, QueueFits, TypeStore, TypeSync

\* CalDAV, a new task: its place is chosen and kept before it is sent.
LEMMA KeepPlaceCopies ==
  ASSUME IInv, IInv', Copies, KeepPlace
  PROVE  Copies'
<1>a. /\ TypeStore /\ TypeSync /\ TypeServer /\ QueueFits /\ QueueRows /\ TaskFits
  BY DEF IInv, TypeOK
<1>1. /\ UNCHANGED <<kind, marked, again, root, texts>> /\ UNCHANGED <<lastId, settler, history>>
      /\ Queued # {} /\ sync.pc = "next" /\ kind = "caldav" /\ NewName /\ Head1.href = 0
      /\ Update(HeadId, [task[HeadId] EXCEPT !.href = names'])
      /\ sync' = [sync EXCEPT !.pc = "send", !.queue[HeadId].href = names']
  BY DEF KeepPlace, At, ghosts
<1>b. HeadId \in Queued /\ Head1 \in Row /\ Head1 = sync.queue[HeadId]
  BY <1>a, <1>1, HeadFacts DEF Head1
<1>2. names' \in Names /\ names <= names'
  BY <1>a, <1>1, NewNameFacts
<1>3. Head1.marker = 0 /\ Head1.etag = 0
  BY <1>a, <1>1, <1>b DEF QueueFits, RowFits
<1>4. HeadId \in DOMAIN task => task[HeadId].marker = 0 /\ task[HeadId].etag = 0 /\ task[HeadId] \in Row
  BY <1>a, <1>1, <1>b, <1>3 DEF QueueRows, TaskFits, RowFits, TypeStore, AtReadBack
<1>5. PlacesHead(names', 0, 0, 0, "send")
  <2>1. Placed(Head1, names', 0, 0) = [Head1 EXCEPT !.href = names']
    BY <1>b, <1>3 DEF Placed, Row
  <2>2. HeadId \in DOMAIN task => Placed(task[HeadId], names', 0, 0) = [task[HeadId] EXCEPT !.href = names']
    BY <1>4 DEF Placed, Row
  <2>3. Update(HeadId, Placed(task[HeadId], names', 0, 0))
    BY <1>1, <2>2 DEF Update
  <2>4. sync' = [sync EXCEPT !.pc = "send", !.queue = [sync.queue EXCEPT ![HeadId] = Placed(Head1, names', 0, 0)]]
    BY <1>1, <1>b, <2>1
  <2> QED
    BY <2>3, <2>4 DEF PlacesHead
<1>6. HeadUnfound'
  <2>1. Placed(Head1, names', 0, 0) \in Row /\ Placed(Head1, names', 0, 0).marker = 0
    BY <1>b, <1>2 DEF Placed, Row
  <2>2. Head1' = Placed(Head1, names', 0, 0)
    BY <1>a, <1>1, <1>5, <2>1, SwapFacts DEF PlacesHead
  <2> QED
    BY <2>1, <2>2 DEF HeadUnfound
<1>7. \A q \in Names, t \in Texts : Seen(q, t) /\ ByMarker(Head1, q) => q = names'
  BY <1>3 DEF ByMarker
<1>8. FreeName(names', 0, HeadId)
  BY <1>1, NewFree
<1>9. names' \in Names \cup {0} /\ 0 \in Names \cup {0} /\ 0 \in Nat /\ "send" \in {"route", "send"}
  BY <1>2
<1> QED
  BY <1>1, <1>2, <1>5, <1>6, <1>7, <1>8, <1>9, PlaceCopies

\* Exchange, a creation whose answer was lost: the task is looked for.
LEMMA EwsFindCopies ==
  ASSUME IInv, IInv', Copies, EwsFind
  PROVE  Copies'
<1>a. /\ TypeStore /\ TypeSync /\ TypeServer /\ QueueFits /\ names \in Nat
      /\ BothSeparate /\ QueueSeparate /\ ViewsApart
  BY DEF IInv, TypeOK, TypeServer, Copies
<1>1. /\ UNCHANGED <<kind, marked, again, root, texts>> /\ UNCHANGED <<lastId, settler, history, names>>
      /\ Queued # {} /\ sync.pc = "next" /\ kind = "ews"
  BY DEF EwsFind, At, ghosts, server
<1>b. HeadId \in Queued /\ Head1 \in Row /\ Head1 = sync.queue[HeadId]
  BY <1>a, <1>1, HeadFacts DEF Head1
<1>2. \/ /\ Go("route") /\ UNCHANGED task
         /\ \A p \in Objects : ~(Head1.marker # 0 /\ marked[p] = Head1.marker)
      \/ \E p \in Objects :
          /\ Head1.marker # 0 /\ marked[p] = Head1.marker
          /\ Update(HeadId, Placed(task[HeadId], p, 0, Version(p)))
          /\ sync' = [sync EXCEPT !.pc = "route", !.queue[HeadId] = Placed(Head1, p, 0, Version(p))]
  BY DEF EwsFind, Placed
<1>3. CASE /\ Go("route") /\ UNCHANGED task
           /\ \A p \in Objects : ~(Head1.marker # 0 /\ marked[p] = Head1.marker)
  <2>1. sync'.queue = sync.queue /\ sync'.listing = sync.listing /\ sync'.pc = "route"
    BY <1>a, <1>3 DEF Go, TypeSync
  <2>2. Queued' = Queued /\ HeadId' = HeadId /\ Head1' = Head1
    BY <2>1 DEF Queued, HeadId, Head1
  <2>3. \A p \in Names : There(p) => ~ByMarker(Head1, p)
    BY <1>3 DEF Objects, ByMarker
  <2>4. HeadUnfound'
    BY <1>1, <1>3, <2>2 DEF HeadUnfound, Objects, There
  <2>5. \A k \in Queued' : Stays(k)
    <3>1. \A p \in Names, t \in Texts : Seen(p, t) => ~ByMarker(Head1, p)
      BY <1>1, <2>3, LiveViews
    <3> QED
      BY <1>b, <2>1, <2>2, <3>1 DEF Stays, UnfoundNext
  <2>6. Fewer
    BY <1>1, <1>3, <2>1, FewerFacts
  <2> QED
    BY <1>a, <1>1, <1>3, <2>4, <2>5, <2>6, SameRows, CalmCopies
<1>4. ASSUME NEW p \in Objects,
             /\ Head1.marker # 0 /\ marked[p] = Head1.marker
             /\ Update(HeadId, Placed(task[HeadId], p, 0, Version(p)))
             /\ sync' = [sync EXCEPT !.pc = "route", !.queue[HeadId] = Placed(Head1, p, 0, Version(p))]
      PROVE  Copies'
  <2> DEFINE v == Version(p)
  <2>1. p \in Names /\ There(p) /\ v \in Nat /\ p # 0
    BY <1>a, ThereFacts DEF Objects, Names
  <2>2. PlacesHead(p, 0, v, v, "route")
    BY <1>4 DEF PlacesHead
  <2> HIDE DEF v
  <2>3. Head1.href = 0
    BY <1>a, <1>1, <1>b, <1>4 DEF QueueFits, AtReadBack
  <2>4. FreeName(p, 0, HeadId)
    <3>1. ASSUME NEW s, Separate(Head1, s) PROVE FreeOf(p, 0, s)
      BY <1>4, <2>1, <3>1 DEF Separate, FreeOf
    <3> QED
      BY <1>a, <1>b, <3>1 DEF FreeName, BothSeparate, QueueSeparate
  <2>5. ASSUME NEW q \in Names, NEW t \in Texts, Seen(q, t), ByMarker(Head1, q) PROVE q = p
    <3>1. Seen(p, Last(history[p])) /\ Last(history[p]) \in Texts
      BY <1>a, <2>1, ThereFacts DEF Seen
    <3> QED
      BY <1>a, <1>4, <2>1, <2>5, <3>1 DEF ViewsApart, ByMarker
  <2>6. HeadUnfound'
    <3>1. Placed(Head1, p, 0, v) \in Row /\ Placed(Head1, p, 0, v).marker = 0
      BY <1>b, <2>1 DEF Placed, Row
    <3>2. Head1' = Placed(Head1, p, 0, v)
      BY <1>a, <1>1, <2>2, <3>1, SwapFacts DEF PlacesHead
    <3> QED
      BY <3>1, <3>2 DEF HeadUnfound
  <2>7. /\ p \in Names \cup {0} /\ 0 \in Names \cup {0} /\ "route" \in {"route", "send"} /\ names <= names'
        /\ sync.pc \in {"next", "route"}
    BY <1>a, <1>1, <2>1
  <2> QED
    BY <1>1, <2>1, <2>2, <2>3, <2>4, <2>5, <2>6, <2>7, PlaceCopies
<1> QED
  BY <1>2, <1>3, <1>4

\* The head is done with: its copy goes, and only its row changed.
LEMMA DoneCopies ==
  ASSUME IInv, IInv', Copies, NEW h, h = HeadId, Queued # {}, NextTask,
         UNCHANGED <<kind, marked, again, root, texts>>, UNCHANGED <<lastId, settler, history, names>>,
         DOMAIN task' \subseteq DOMAIN task, \A i \in DOMAIN task' : i # h => task'[i] = task[i],
         h \in DOMAIN task' => FitsAmong(task'[h], h) /\ FitsViews(task'[h])
  PROVE  Copies'
<1>a. TypeSync /\ TypeStore /\ TypeServer
  BY DEF IInv, TypeOK
<1>1. /\ Queued' = Queued \ {h} /\ \A k \in Queued' : sync'.queue[k] = sync.queue[k]
      /\ sync'.pc = "next" /\ sync'.listing = sync.listing
  BY <1>a, NextTaskFacts
<1>2. Fewer
  BY <1>1, FewerFacts
<1>3. TextsKept
  BY DEF TextsKept
<1>4. \A i \in DOMAIN task' : i # h => Like(i)
  BY DEF Like
<1>5. \A k \in Queued' : Stays(k) /\ k # h
  BY <1>1, StayFacts
<1>6. CopiesNext
  BY <1>2, <1>3, <1>4, <1>5, ChangeCopies
<1>7. SameTask' /\ HeadUnfound'
  BY <1>1 DEF Copies, SameTask, HeadUnfound
<1>8. RootsFit' /\ MarkedFits'
  BY DEF Copies, RootsFit, MarkedFits
<1> QED
  BY <1>6, <1>7, <1>8, NextCopiesDef

\* Exchange: what is to be done with the task at the head.
LEMMA EwsRouteCopies ==
  ASSUME IInv, IInv', Copies, EwsRoute
  PROVE  Copies'
<1>a. /\ TypeStore /\ TypeSync /\ TypeServer /\ QueueFits /\ QueueRows /\ TaskFits /\ Phase /\ names \in Nat
      /\ RowsSeparate /\ BothSeparate /\ ViewsQueue /\ ViewsRows /\ HeadUnfound /\ MarkedFits
  BY DEF IInv, TypeOK, TypeServer, Copies
<1>1. /\ UNCHANGED <<kind, marked, again, root, texts>> /\ UNCHANGED <<lastId, settler, history>> /\ sync.pc = "route"
  BY DEF EwsRoute, At, ghosts
<1>b. Queued # {} /\ kind = "ews"
  BY <1>a, <1>1 DEF Phase
<1>h. HeadId \in Queued /\ Head1 \in Row /\ Head1 = sync.queue[HeadId]
  BY <1>a, <1>b, HeadFacts DEF Head1
<1> DEFINE rejected == [task[HeadId] EXCEPT !.conflict = "rejected", !.marker = IF Head1.href = 0 THEN 0 ELSE @]
<1>2. CASE Drop(HeadId) /\ NextTask /\ UNCHANGED names
  <2>1. DOMAIN task' = DOMAIN task \ {HeadId} /\ \A i \in DOMAIN task' : task'[i] = task[i]
    BY <1>2 DEF Drop
  <2> QED
    BY <1>1, <1>b, <1>2, <2>1, DoneCopies
<1>3. ASSUME NEW x \in {"check", "send", "readback"}, Go(x), UNCHANGED <<task, names>>
      PROVE  Copies'
  <2>1. sync'.queue = sync.queue /\ sync'.listing = sync.listing /\ sync'.pc = x
    BY <1>a, <1>3 DEF Go, TypeSync
  <2>2. Queued' = Queued /\ HeadId' = HeadId /\ Head1' = Head1
    BY <2>1 DEF Queued, HeadId, Head1
  <2>3. HeadUnfound'
    BY <1>a, <1>1, <2>1, <2>2 DEF HeadUnfound, There
  <2>4. \A k \in Queued' : Stays(k)
    BY <1>1, <2>1, <2>2, StayFacts
  <2>5. Fewer
    BY <1>1, <1>3, <2>1, FewerFacts
  <2> QED
    BY <1>a, <1>1, <1>3, <2>3, <2>4, <2>5, SameRows, CalmCopies
<1>4. CASE Update(HeadId, rejected) /\ NextTask /\ UNCHANGED names
  <2> DEFINE h == HeadId
  <2>1. h \in DOMAIN task =>
          /\ rejected.text = task[h].text /\ rejected.href = task[h].href
          /\ rejected.marker = (IF Head1.href = 0 THEN 0 ELSE task[h].marker)
    BY <1>a DEF TypeStore, Row
  <2>2. Update(h, rejected)
    BY <1>4
  <2> HIDE DEF rejected
  <2>3. /\ DOMAIN task' = DOMAIN task /\ (h \in DOMAIN task => task'[h] = rejected)
        /\ \A i \in DOMAIN task : i # h => task'[i] = task[i]
    BY <2>2 DEF Update, Put
  <2>4. Fewer /\ \A k \in Queued' : k \in Queued /\ sync'.queue[k] = sync.queue[k]
    <3>1. Queued' = Queued \ {h} /\ sync'.listing = sync.listing /\ \A k \in Queued' : sync'.queue[k] = sync.queue[k]
      BY <1>a, <1>1, <1>b, <1>4, NextTaskFacts
    <3> QED
      BY <1>1, <2>3, <3>1, FewerFacts
  <2>5. ASSUME h \in DOMAIN task PROVE FitsAmong(rejected, h) /\ FitsViews(rejected)
    <3>1. ASSUME NEW s, Separate(task[h], s), Separate(s, task[h])
          PROVE  SeparateNext(rejected, s) /\ SeparateNext(s, rejected)
      BY <1>1, <2>1, <2>5, <3>1 DEF Separate, SeparateNext, Apart, ApartNext
    <3>2. ASSUME NEW p \in Names, NEW t \in Texts, SeenNext(p, t)
          PROVE  ApartNext(rejected.text, t) \/ rejected.href = p \/ ByMarkerNext(rejected, p)
      <4>1. Seen(p, t)
        BY <2>4, <3>2 DEF Fewer
      <4>2. Apart(task[h].text, t) \/ task[h].href = p \/ ByMarker(task[h], p)
        BY <1>a, <2>5, <4>1 DEF ViewsRows, RowOf
      <4>3. ByMarker(task[h], p) => FALSE
        <5>1. task[h].marker = Head1.marker /\ task[h].href = Head1.href
          BY <1>a, <1>1, <1>h, <2>5 DEF QueueRows, AtReadBack
        <5>2. There(p)
          BY <1>b, <4>1, LiveViews
        <5> QED
          BY <1>a, <1>1, <5>1, <5>2 DEF ByMarker, HeadUnfound
      <4> QED
        BY <1>1, <2>1, <2>5, <4>2, <4>3 DEF Apart, ApartNext
    <3>3. \A i \in DOMAIN task' : i # h => SeparateNext(rejected, task'[i]) /\ SeparateNext(task'[i], rejected)
      BY <1>a, <2>3, <2>5, <3>1 DEF RowsSeparate
    <3>4. \A k \in Queued' : k # h =>
            SeparateNext(rejected, sync'.queue[k]) /\ SeparateNext(sync'.queue[k], rejected)
      BY <1>a, <2>4, <2>5, <3>1 DEF BothSeparate
    <3> QED
      BY <3>2, <3>3, <3>4 DEF FitsAmong, FitsViews
  <2>6. h = HeadId
    OBVIOUS
  <2> HIDE DEF h
  <2> QED
    BY <1>1, <1>b, <1>4, <2>3, <2>5, <2>6, DoneCopies
<1>6. CASE /\ Head1.pending = "put" /\ Head1.href = 0 /\ Head1.marker = 0 /\ NewName
           /\ Update(HeadId, [task[HeadId] EXCEPT !.marker = names'])
           /\ sync' = [sync EXCEPT !.pc = "send", !.queue[HeadId].marker = names']
  <2>2. names' \in Names /\ names <= names' /\ names' # 0 /\ names' = names + 1
    BY <1>a, <1>6, NewNameFacts
  <2>3. Head1.etag = 0
    BY <1>a, <1>6, <1>h DEF QueueFits, RowFits
  <2>4. HeadId \in DOMAIN task => task[HeadId].href = 0 /\ task[HeadId].etag = 0 /\ task[HeadId] \in Row
    BY <1>a, <1>1, <1>6, <1>h DEF QueueRows, TaskFits, RowFits, TypeStore, AtReadBack
  <2>5. PlacesHead(0, names', 0, 0, "send")
    <3>1. Placed(Head1, 0, names', 0) = [Head1 EXCEPT !.marker = names']
      BY <1>h, <1>6, <2>3 DEF Placed, Row
    <3>2. HeadId \in DOMAIN task => Placed(task[HeadId], 0, names', 0) = [task[HeadId] EXCEPT !.marker = names']
      BY <2>4 DEF Placed, Row
    <3>3. Update(HeadId, Placed(task[HeadId], 0, names', 0))
      BY <1>6, <3>2 DEF Update
    <3>4. sync' = [sync EXCEPT !.pc = "send", !.queue = [sync.queue EXCEPT ![HeadId] = Placed(Head1, 0, names', 0)]]
      BY <1>6, <1>h, <3>1
    <3> QED
      BY <3>3, <3>4 DEF PlacesHead
  <2>6. HeadUnfound'
    <3>1. Placed(Head1, 0, names', 0) \in Row /\ Placed(Head1, 0, names', 0).marker = names'
      BY <1>h, <2>2 DEF Placed, Row
    <3>2. Head1' = Placed(Head1, 0, names', 0)
      BY <1>a, <1>1, <1>b, <2>5, <3>1, SwapFacts DEF PlacesHead
    <3>3. \A p \in Names : marked[p] # names'
      BY <1>a, <2>2 DEF MarkedFits
    <3> QED
      BY <1>1, <3>1, <3>2, <3>3 DEF HeadUnfound
  <2>7. FreeName(0, names', HeadId) /\ \A q \in Names, t \in Texts : Seen(q, t) /\ ByMarker(Head1, q) => q = 0
    BY <1>6, NewFree DEF ByMarker
  <2>8. names' \in Names \cup {0} /\ 0 \in Names \cup {0} /\ 0 \in Nat /\ "send" \in {"route", "send"}
    BY <2>2
  <2> QED
    BY <1>1, <1>b, <1>6, <2>2, <2>5, <2>6, <2>7, <2>8, PlaceCopies
<1>7. CASE \E x \in {"check", "send", "readback"} : Go(x) /\ UNCHANGED <<task, names>>
  BY <1>3, <1>7
<1> HIDE DEF rejected
<1>8. \/ Drop(HeadId) /\ NextTask /\ UNCHANGED names
      \/ Update(HeadId, rejected) /\ NextTask /\ UNCHANGED names
      \/ Go("check") /\ UNCHANGED <<task, names>>
      \/ Go("send") /\ UNCHANGED <<task, names>>
      \/ Go("readback") /\ UNCHANGED <<task, names>>
      \/ /\ Head1.pending = "put" /\ Head1.href = 0 /\ Head1.marker = 0 /\ NewName
         /\ Update(HeadId, [task[HeadId] EXCEPT !.marker = names'])
         /\ sync' = [sync EXCEPT !.pc = "send", !.queue[HeadId].marker = names']
  BY Zenon DEF EwsRoute, rejected
<1> QED
  BY <1>2, <1>4, <1>6, <1>7, <1>8

\* Exchange: the task just written is read, and kept as the version read.
LEMMA EwsReadBackCopies ==
  ASSUME IInv, IInv', Copies, EwsReadBack
  PROVE  Copies'
<1>a. /\ TypeStore /\ TypeSync /\ TypeServer /\ Phase /\ HeadFits /\ names \in Nat
      /\ RowsSeparate /\ BothSeparate /\ QueueSeparate /\ ViewsQueue /\ SameTask
  BY DEF IInv, TypeOK, TypeServer, Copies
<1> DEFINE h == HeadId
           p == Head1.href
           r == [task[h] EXCEPT !.href = p, !.marker = 0, !.etag = Version(p), !.pending = Sent(task[h]),
                                !.conflict = IF @ = "rejected" THEN "none" ELSE @]
<1>1. /\ UNCHANGED <<kind, marked, again, root, texts>> /\ UNCHANGED <<lastId, settler, history, names>>
      /\ sync.pc = "readback" /\ NextTask /\ Update(h, r)
  BY DEF EwsReadBack, At, ghosts, server
<1>b. Queued # {}
  BY <1>a, <1>1 DEF Phase
<1>h. h \in Queued /\ Head1 \in Row /\ Head1 = sync.queue[h] /\ p \in Names /\ p # 0
  BY <1>a, <1>1, <1>b, HeadFacts DEF Head1, Row, HeadFits
<1>r. h \in DOMAIN task => /\ r.text = task[h].text /\ r.href = p /\ r.marker = 0
                           /\ root[Head1.text] = root[task[h].text]
  BY <1>a, <1>h DEF TypeStore, Row, SameTask
<1> HIDE DEF r
<1>2. /\ DOMAIN task' = DOMAIN task /\ (h \in DOMAIN task => task'[h] = r)
      /\ \A i \in DOMAIN task : i # h => task'[i] = task[i]
  BY <1>1 DEF Update, Put
<1>3. Fewer /\ \A k \in Queued' : k \in Queued /\ sync'.queue[k] = sync.queue[k]
  <2>1. Queued' = Queued \ {h} /\ sync'.listing = sync.listing /\ \A k \in Queued' : sync'.queue[k] = sync.queue[k]
    BY <1>a, <1>1, <1>b, NextTaskFacts
  <2> QED
    BY <1>1, <1>2, <2>1, FewerFacts
<1>4. ASSUME h \in DOMAIN task PROVE FitsAmong(r, h) /\ FitsViews(r)
  <2>1. ASSUME NEW s, Separate(Head1, s), Separate(s, Head1)
        PROVE  SeparateNext(r, s) /\ SeparateNext(s, r)
    BY <1>1, <1>h, <1>r, <1>4, <2>1 DEF Separate, SeparateNext, Apart, ApartNext
  <2>2. ASSUME NEW q \in Names, NEW t \in Texts, SeenNext(q, t)
        PROVE  ApartNext(r.text, t) \/ r.href = q
    <3>1. Seen(q, t)
      BY <1>3, <2>2 DEF Fewer
    <3>2. Apart(Head1.text, t) \/ Head1.href = q
      BY <1>a, <1>h, <3>1 DEF ViewsQueue, ByMarker
    <3> QED
      BY <1>1, <1>r, <1>4, <3>2 DEF Apart, ApartNext
  <2>3. \A i \in DOMAIN task' : i # h => SeparateNext(r, task'[i]) /\ SeparateNext(task'[i], r)
    BY <1>a, <1>h, <1>2, <2>1 DEF BothSeparate
  <2>4. \A k \in Queued' : k # h => SeparateNext(r, sync'.queue[k]) /\ SeparateNext(sync'.queue[k], r)
    BY <1>a, <1>h, <1>3, <2>1 DEF QueueSeparate
  <2> QED
    BY <2>2, <2>3, <2>4 DEF FitsAmong, FitsViews
<1>5. h = HeadId
  OBVIOUS
<1> HIDE DEF h
<1> QED
  BY <1>1, <1>b, <1>2, <1>4, <1>5, DoneCopies

\* A change is written over the version it names.
LEMMA WritesCopies ==
  ASSUME IInv, IInv', Copies, Queued # {}, sync.pc = "send", NEW p \in Names, p = Head1.href,
         history' = [history EXCEPT ![p] = Append(@, Head1.text)], There(p) \/ kind = "caldav",
         sync'.queue = sync.queue, sync'.listing = sync.listing, sync'.pc \in {"answer", "readback"},
         UNCHANGED <<kind, marked, again, root, texts>>, UNCHANGED <<task, settler, names>>
  PROVE  Copies'
<1>a. /\ TypeStore /\ TypeSync /\ TypeServer /\ QueueRows
      /\ ViewsApart /\ ViewsRows /\ ViewsQueue /\ RowsSeparate /\ QueueSeparate /\ BothSeparate /\ SameTask
      /\ RootsFit /\ MarkedFits
  BY DEF IInv, TypeOK, Copies
<1>h. HeadId \in Queued /\ Head1 \in Row /\ Head1 = sync.queue[HeadId] /\ Head1.text \in Texts /\ p # 0
  BY <1>a, HeadFacts DEF Head1, Row, Names
<1>q. Queued' = Queued
  BY DEF Queued
<1>v. \A q \in Names, u \in Texts : SeenNext(q, u) => Seen(q, u) \/ (q = p /\ u = Head1.text)
  <2>1. Head1.text \in Texts \cup {0}
    BY <1>h
  <2> QED
    BY <2>1, GrownViews
<1>s. /\ \A t, u : Apart(t, u) => ApartNext(t, u) /\ ApartNext(u, t)
      /\ \A r, x : ByMarker(r, x) => ByMarkerNext(r, x)
      /\ \A r, s : Separate(r, s) => SeparateNext(r, s)
      /\ \A k : ~UnfoundNext(k)
  BY DEF Apart, ApartNext, Separate, SeparateNext, ByMarker, ByMarkerNext, UnfoundNext
<1>m. ASSUME NEW q \in Names, NEW u \in Texts, Seen(q, u), q # p
      PROVE  Apart(Head1.text, u) /\ (marked[p] # 0 => marked[p] # marked[q]) /\ (marked[q] # 0 => marked[q] # marked[p])
  <2>1. Apart(Head1.text, u)
    BY <1>a, <1>h, <1>m DEF ViewsQueue, ByMarker
  <2>2. CASE kind = "caldav"
    BY <1>a, <2>1, <2>2 DEF MarkedFits
  <2>3. CASE There(p)
    <3>1. Seen(p, Last(history[p])) /\ Last(history[p]) \in Texts
      BY <1>a, <2>3, ThereFacts DEF Seen
    <3> QED
      BY <1>a, <1>m, <2>1, <3>1 DEF ViewsApart
  <2> QED
    BY <2>2, <2>3
<1>1. ASSUME NEW x \in Names, NEW q \in Names, NEW t \in Texts, NEW u \in Texts,
             SeenNext(x, t), SeenNext(q, u), x # q
      PROVE  ApartNext(t, u) /\ (marked[x] # 0 => marked[x] # marked[q])
  <2>1. CASE Seen(x, t) /\ Seen(q, u)
    BY <1>a, <1>s, <1>1, <2>1 DEF ViewsApart
  <2>2. CASE x = p /\ t = Head1.text
    BY <1>m, <1>s, <1>v, <1>1, <2>2
  <2>3. CASE q = p /\ u = Head1.text
    BY <1>m, <1>s, <1>v, <1>1, <2>3
  <2> QED
    BY <1>v, <1>1, <2>1, <2>2, <2>3
<1>2. ASSUME NEW x \in Names, NEW t \in Texts, NEW i \in DOMAIN task, SeenNext(x, t)
      PROVE  ApartNext(task[i].text, t) \/ task[i].href = x \/ ByMarkerNext(task[i], x)
  <2>1. CASE Seen(x, t)
    BY <1>a, <1>s, <2>1 DEF ViewsRows, RowOf
  <2>2. CASE x = p /\ t = Head1.text /\ i = HeadId
    BY <1>a, <1>h, <2>2 DEF QueueRows, AtReadBack
  <2>3. CASE x = p /\ t = Head1.text /\ i # HeadId
    BY <1>a, <1>h, <1>s, <2>3 DEF BothSeparate, Separate
  <2> QED
    BY <1>v, <1>2, <2>1, <2>2, <2>3
<1>3. ASSUME NEW x \in Names, NEW t \in Texts, NEW k \in Queued, SeenNext(x, t)
      PROVE  ApartNext(sync.queue[k].text, t) \/ sync.queue[k].href = x \/ ByMarkerNext(sync.queue[k], x)
  <2>1. CASE Seen(x, t)
    BY <1>a, <1>s, <2>1 DEF ViewsQueue
  <2>2. CASE x = p /\ t = Head1.text /\ k = HeadId
    BY <1>h, <2>2
  <2>3. CASE x = p /\ t = Head1.text /\ k # HeadId
    BY <1>a, <1>h, <1>s, <2>3 DEF QueueSeparate, Separate
  <2> QED
    BY <1>v, <1>3, <2>1, <2>2, <2>3
<1>4. CopiesNext
  <2>1. /\ \A i, j \in DOMAIN task : i # j => SeparateNext(task[i], task[j])
        /\ \A k, l \in Queued : k # l => SeparateNext(sync.queue[k], sync.queue[l])
        /\ \A k \in Queued, i \in DOMAIN task :
             i # k => SeparateNext(sync.queue[k], task[i]) /\ SeparateNext(task[i], sync.queue[k])
    BY <1>a, <1>s DEF RowsSeparate, QueueSeparate, BothSeparate
  <2> QED
    BY <1>q, <1>s, <1>1, <1>2, <1>3, <2>1 DEF CopiesNext
<1>5. HeadUnfound' /\ SameTask'
  BY <1>a, <1>q DEF HeadUnfound, SameTask
<1>6. RootsFit' /\ MarkedFits'
  BY <1>a DEF RootsFit, MarkedFits
<1> QED
  BY <1>4, <1>5, <1>6, NextCopiesDef

\* CalDAV PUT and Exchange UpdateItem.
LEMMA PutsCopies ==
  ASSUME IInv, IInv', Copies, ServerPuts \/ EwsUpdates
  PROVE  Copies'
<1>a. TypeStore /\ TypeSync /\ TypeServer /\ Phase /\ HeadFits /\ QueueFits
  BY DEF IInv, TypeOK
<1>1. /\ UNCHANGED <<kind, marked, again, root, texts>> /\ UNCHANGED <<task, settler, names>> /\ sync.pc = "send"
  BY DEF ServerPuts, EwsUpdates, At, ghosts
<1>b. Queued # {}
  BY <1>a, <1>1 DEF Phase
<1>h. /\ HeadId \in Queued /\ Head1 \in Row /\ Head1 = sync.queue[HeadId] /\ Head1.href \in Names
  BY <1>a, <1>1, <1>b, HeadFacts DEF Head1, Row, HeadFits, ServerPuts, EwsUpdates
<1>2. CASE UNCHANGED history
  BY <1>2, DeletesCopies
<1>3. CASE ~UNCHANGED history
  <2>1. /\ history' = [history EXCEPT ![Head1.href] = Append(@, Head1.text)] /\ Tag(Head1.href) = Head1.etag
        /\ kind = "caldav" \/ (kind = "ews" /\ Head1.href # 0)
        /\ Go("readback") \/ \E tag : Says("saved", tag)
    BY <1>3 DEF ServerPuts, EwsUpdates
  <2>2. sync'.queue = sync.queue /\ sync'.listing = sync.listing /\ sync'.pc \in {"answer", "readback"}
    BY <1>a, <2>1 DEF Go, Says, TypeSync
  <2>3. There(Head1.href) \/ kind = "caldav"
    <3>1. kind = "ews" => Head1.etag # 0
      BY <1>a, <1>1, <1>h, <2>1 DEF QueueFits, AtReadBack
    <3> QED
      BY <1>a, <1>h, <2>1, <3>1, ThereFacts
  <2> QED
    BY <1>1, <1>b, <1>h, <2>1, <2>2, <2>3, WritesCopies
<1> QED
  BY <1>2, <1>3

\* Exchange CreateItem: a new object with our marker, which no object has.
LEMMA EwsCreatesCopies ==
  ASSUME IInv, IInv', Copies, EwsCreates
  PROVE  Copies'
<1>a. /\ TypeStore /\ TypeSync /\ TypeServer /\ Phase /\ HeadFits /\ QueueFits /\ QueueRows /\ TaskFits
      /\ ViewsApart /\ ViewsRows /\ ViewsQueue /\ RowsSeparate /\ QueueSeparate /\ BothSeparate /\ SameTask
      /\ RootsFit /\ MarkedFits /\ HeadUnfound
  BY DEF IInv, TypeOK, Copies
<1>1. /\ UNCHANGED <<kind, again, root, texts>> /\ UNCHANGED <<task, lastId, settler>>
      /\ sync.pc = "send" /\ kind = "ews" /\ Head1.href = 0 /\ NewName
      /\ history' = [history EXCEPT ![names'] = Append(@, Head1.text)]
      /\ marked' = [marked EXCEPT ![names'] = Head1.marker]
      /\ sync' = [sync EXCEPT !.pc = "readback", !.queue[HeadId].href = names']
  BY DEF EwsCreates, At, ghosts
<1>b. Queued # {}
  BY <1>a, <1>1 DEF Phase
<1>h. /\ HeadId \in Queued /\ Head1 \in Row /\ Head1 = sync.queue[HeadId] /\ Head1.text \in Texts
      /\ Head1.marker # 0 /\ Head1.marker \in Names /\ Head1.marker <= names
  BY <1>a, <1>1, <1>b, HeadFacts DEF Head1, Row, HeadFits, QueueFits, RowFits
<1> DEFINE h == HeadId
           p == names'
           m == Head1.marker
           c == [Head1 EXCEPT !.href = p]
<1>n. p = names + 1 /\ p \in Names /\ names <= p /\ names \in Nat /\ p # 0
  BY <1>a, <1>1, NewNameFacts
<1>c. c \in Row /\ c.text = Head1.text /\ c.href = p /\ c.marker = m
  BY <1>h, <1>n DEF Row
<1>2. sync' = [sync EXCEPT !.pc = "readback", !.queue = [sync.queue EXCEPT ![HeadId] = c]]
  BY <1>1, <1>h
<1>k. /\ marked'[p] = m /\ \A q \in Names : q # p => marked'[q] = marked[q]
  BY <1>a, <1>1, <1>n DEF TypeServer
<1>g. history' = [history EXCEPT ![p] = Append(@, Head1.text)] /\ p = names' /\ h = HeadId /\ m = Head1.marker
  BY <1>1
<1> HIDE DEF c, h, p, m
<1>3. /\ Queued' = Queued /\ sync'.queue[h] = c /\ sync'.pc = "readback" /\ sync'.listing = sync.listing
      /\ \A k \in Queued : k # h => sync'.queue[k] = sync.queue[k]
  BY <1>a, <1>1, <1>b, <1>c, <1>g, <1>2, SwapFacts
<1>v. \A q \in Names, u \in Texts : SeenNext(q, u) => (Seen(q, u) /\ q # p) \/ (q = p /\ u = Head1.text)
  <2>1. Head1.text \in Texts \cup {0}
    BY <1>h
  <2>2. \A q \in Names, u \in Texts : SeenNext(q, u) => Seen(q, u) \/ (q = p /\ u = Head1.text)
    <3>1. history' = [history EXCEPT ![p] = Append(@, Head1.text)] /\ p \in Names
      BY <1>g, <1>n
    <3>2. sync'.listing = sync.listing /\ UNCHANGED <<settler, task>>
      BY <1>1, <1>3
    <3> QED
      BY <2>1, <3>1, <3>2, GrownViews
  <2>3. \A u \in Texts : ~Seen(p, u)
    BY <1>n, SeenFits
  <2> QED
    BY <2>2, <2>3
<1>m. ASSUME NEW q \in Names, NEW u \in Texts, Seen(q, u)
      PROVE  Apart(Head1.text, u) /\ marked[q] # m
  <2>1. Unfound(h) /\ h \in Queued /\ sync.queue[h] = Head1 /\ q # 0
    BY <1>1, <1>h, <1>g DEF Unfound, Names
  <2>2. Apart(Head1.text, u)
    BY <1>a, <1>1, <1>m, <2>1 DEF ViewsQueue
  <2>3. There(q)
    BY <1>b, <1>m, LiveViews
  <2> QED
    BY <1>a, <1>1, <1>h, <1>g, <2>2, <2>3 DEF HeadUnfound
<1>s. /\ \A t, u : Apart(t, u) => ApartNext(t, u) /\ ApartNext(u, t)
      /\ \A r, x : x \in Names /\ x # p /\ ByMarker(r, x) => ByMarkerNext(r, x)
      /\ \A k : ~UnfoundNext(k)
  BY <1>1, <1>k, <1>3 DEF Apart, ApartNext, ByMarker, ByMarkerNext, UnfoundNext
<1>f. /\ \A i \in DOMAIN task : task[i].href \in Names \cup {0} /\ task[i].href # p
      /\ \A k \in Queued : sync.queue[k].href \in Names \cup {0} /\ sync.queue[k].href # p
  <2>1. ASSUME NEW r \in Row, RowFits(r) PROVE r.href \in Names \cup {0} /\ r.href # p
    BY <1>n, <2>1 DEF Row, RowFits, Names
  <2> QED
    BY <1>a, <2>1 DEF TypeStore, TypeSync, TaskFits, QueueFits
<1>x. ASSUME NEW r, NEW s, Separate(r, s), s.href \in Names \cup {0}, s.href # p PROVE SeparateNext(r, s)
  BY <1>s, <1>k, <1>x DEF Separate, SeparateNext
<1>y. ASSUME NEW s, Separate(Head1, s), Separate(s, Head1), s.href \in Names \cup {0}, s.href # p
      PROVE  SeparateNext(c, s) /\ SeparateNext(s, c)
  BY <1>s, <1>k, <1>c, <1>g, <1>h, <1>n, <1>y DEF Separate, SeparateNext
<1>4. ASSUME NEW x \in Names, NEW q \in Names, NEW t \in Texts, NEW u \in Texts,
             SeenNext(x, t), SeenNext(q, u), x # q
      PROVE  ApartNext(t, u) /\ (marked'[x] # 0 => marked'[x] # marked'[q])
  <2>1. CASE Seen(x, t) /\ Seen(q, u) /\ x # p /\ q # p
    BY <1>a, <1>s, <1>k, <1>4, <2>1 DEF ViewsApart
  <2>2. CASE x = p /\ t = Head1.text
    BY <1>m, <1>s, <1>v, <1>k, <1>4, <2>2
  <2>3. CASE q = p /\ u = Head1.text
    BY <1>m, <1>s, <1>v, <1>k, <1>4, <2>3
  <2> QED
    BY <1>v, <1>4, <2>1, <2>2, <2>3
<1>5. ASSUME NEW x \in Names, NEW t \in Texts, NEW i \in DOMAIN task, SeenNext(x, t)
      PROVE  ApartNext(task[i].text, t) \/ task[i].href = x \/ ByMarkerNext(task[i], x)
  <2>1. CASE Seen(x, t) /\ x # p
    BY <1>a, <1>s, <2>1 DEF ViewsRows, RowOf
  <2>2. CASE x = p /\ t = Head1.text /\ i = h
    <3>1. task[h].marker = m /\ task[h].href = 0
      BY <1>a, <1>1, <1>h, <1>g, <2>2 DEF QueueRows, AtReadBack
    <3> QED
      BY <1>k, <1>h, <1>g, <2>2, <3>1 DEF ByMarkerNext
  <2>3. CASE x = p /\ t = Head1.text /\ i # h
    BY <1>a, <1>h, <1>g, <1>s, <2>3 DEF BothSeparate, Separate
  <2> QED
    BY <1>v, <1>5, <2>1, <2>2, <2>3
<1>6. ASSUME NEW x \in Names, NEW t \in Texts, NEW k \in Queued, SeenNext(x, t)
      PROVE  ApartNext(sync'.queue[k].text, t) \/ sync'.queue[k].href = x \/ ByMarkerNext(sync'.queue[k], x)
  <2>1. CASE k = h
    BY <1>v, <1>m, <1>s, <1>c, <1>3, <1>6, <2>1
  <2>2. CASE k # h /\ Seen(x, t) /\ x # p
    BY <1>a, <1>s, <1>3, <2>2 DEF ViewsQueue
  <2>3. CASE k # h /\ x = p /\ t = Head1.text
    BY <1>a, <1>h, <1>g, <1>s, <1>3, <2>3 DEF QueueSeparate, Separate
  <2> QED
    BY <1>v, <1>6, <2>1, <2>2, <2>3
<1>7. \A i, j \in DOMAIN task : i # j => SeparateNext(task[i], task[j])
  BY <1>a, <1>x, <1>f DEF RowsSeparate
<1>8. ASSUME NEW k \in Queued, NEW l \in Queued, k # l PROVE SeparateNext(sync'.queue[k], sync'.queue[l])
  <2>1. Separate(sync.queue[k], sync.queue[l]) /\ Separate(sync.queue[l], sync.queue[k])
    BY <1>a, <1>8 DEF QueueSeparate
  <2>2. CASE k = h
    BY <1>y, <1>f, <1>3, <1>h, <1>g, <1>8, <2>1, <2>2
  <2>3. CASE l = h
    BY <1>y, <1>f, <1>3, <1>h, <1>g, <1>8, <2>1, <2>3
  <2>4. CASE k # h /\ l # h
    BY <1>x, <1>f, <1>3, <2>1, <2>4
  <2> QED
    BY <2>2, <2>3, <2>4
<1>9. ASSUME NEW k \in Queued, NEW i \in DOMAIN task, i # k
      PROVE  SeparateNext(sync'.queue[k], task[i]) /\ SeparateNext(task[i], sync'.queue[k])
  <2>1. Separate(sync.queue[k], task[i]) /\ Separate(task[i], sync.queue[k])
    BY <1>a, <1>9 DEF BothSeparate
  <2>2. CASE k = h
    BY <1>y, <1>f, <1>3, <1>h, <1>g, <2>1, <2>2
  <2>3. CASE k # h
    BY <1>x, <1>f, <1>3, <2>1, <2>3
  <2> QED
    BY <2>2, <2>3
<1>10. CopiesNext
  BY <1>1, <1>3, <1>s, <1>4, <1>5, <1>6, <1>7, <1>8, <1>9 DEF CopiesNext
<1>11. HeadUnfound'
  BY <1>3 DEF HeadUnfound
<1>12. SameTask'
  <2> SUFFICES ASSUME NEW k \in Queued, k \in DOMAIN task PROVE root[sync'.queue[k].text] = root[task[k].text]
    BY <1>1, <1>3 DEF SameTask
  <2>1. root[sync.queue[k].text] = root[task[k].text]
    BY <1>a DEF SameTask
  <2>2. sync'.queue[k].text = sync.queue[k].text
    BY <1>3, <1>c, <1>h, <1>g
  <2> QED
    BY <2>1, <2>2
<1>13. RootsFit'
  BY <1>a, <1>1 DEF RootsFit
<1>14. MarkedFits'
  <2>1. \A q \in Names : marked[q] # 0 => marked[q] <= names' /\ q <= names'
    <3>1. \A q \in Names : marked[q] \in Nat /\ q \in Nat
      BY <1>a DEF TypeServer, Names
    <3> QED
      BY <1>a, <1>n, <1>g, <3>1 DEF MarkedFits
  <2>2. m <= names' /\ p <= names'
    BY <1>h, <1>n, <1>g DEF Names
  <2> QED
    BY <1>1, <1>k, <2>1, <2>2 DEF MarkedFits
<1> QED
  BY <1>10, <1>11, <1>12, <1>13, <1>14, NextCopiesDef

\* Another client writes: a task of its own, or one that is there.
LEMMA OthersCopies ==
  ASSUME IInv, IInv', Copies, OtherCreates \/ \E p \in Names : OtherEdits(p)
  PROVE  Copies'
<1>a. /\ TypeStore /\ TypeSync /\ TypeServer /\ TypeGhosts /\ texts \in Nat /\ names \in Nat
      /\ ViewsApart /\ ViewsRows /\ ViewsQueue /\ RowsSeparate /\ QueueSeparate /\ BothSeparate /\ SameTask
      /\ RootsFit /\ MarkedFits /\ HeadUnfound
  BY DEF IInv, TypeOK, TypeGhosts, TypeServer, Copies
<1>1. \E p \in Names, of \in Texts \cup {0} :
        /\ OtherWrites(p, of) /\ p <= names' /\ names <= names' /\ names' \in 0 .. MaxNames
        /\ (of = 0 /\ p = names + 1) \/ (of # 0 /\ There(p) /\ of = Last(history[p]))
  <2>1. CASE OtherCreates
    <3>1. names' = names + 1 /\ names' \in Names /\ names' \in 0 .. MaxNames /\ names <= names' /\ NewName
      BY <1>a, <2>1, NewNameFacts DEF OtherCreates
    <3>2. OtherWrites(names', 0) /\ 0 \in Texts \cup {0} /\ names' <= names'
      BY <2>1, <3>1 DEF OtherCreates
    <3> QED
      BY <3>1, <3>2
  <2>2. CASE \E p \in Names : OtherEdits(p)
    <3>1. PICK p \in Names : OtherEdits(p)
      BY <2>2
    <3>2. There(p) /\ OtherWrites(p, Last(history[p])) /\ names' = names
      BY <3>1 DEF OtherEdits
    <3>3. Last(history[p]) \in Texts /\ Len(history[p]) # 0 /\ Last(history[p]) # 0
      BY <1>a, <3>2, ThereFacts DEF Texts
    <3>4. p <= names' /\ names <= names' /\ names' \in 0 .. MaxNames
      BY <1>a, <3>2, <3>3 DEF IInv, ServerFits, TypeServer
    <3> QED
      BY <3>2, <3>3, <3>4
  <2> QED
    BY <2>1, <2>2
<1>2. PICK p \in Names, of \in Texts \cup {0} :
        /\ OtherWrites(p, of) /\ p <= names' /\ names <= names' /\ names' \in 0 .. MaxNames
        /\ (of = 0 /\ p = names + 1) \/ (of # 0 /\ There(p) /\ of = Last(history[p]))
  BY <1>1
<1> DEFINE n == texts + 1
<1>3. /\ texts' = n /\ n \in Texts /\ n \in Nat /\ n > texts
      /\ UNCHANGED <<kind, task, lastId, sync, settler, marked, again>>
      /\ root'[n] = (IF of = 0 THEN n ELSE root[of])
      /\ \A t \in Texts : t # n => root'[t] = root[t]
      /\ history' = [history EXCEPT ![p] = Append(@, n)]
  <2>1. history' = [history EXCEPT ![p] = Append(@, texts')]
    BY <1>2 DEF OtherWrites
  <2>2. /\ texts' = texts + 1 /\ texts + 1 \in Texts
        /\ UNCHANGED <<kind, task, lastId, sync, settler, marked, again>>
        /\ root'[texts + 1] = (IF of = 0 THEN texts + 1 ELSE root[of])
        /\ \A t \in Texts : t # texts + 1 => root'[t] = root[t]
    BY <1>2, OtherWritesFacts
  <2>3. texts + 1 \in Nat /\ texts + 1 > texts
    BY <1>a
  <2> QED
    BY <2>1, <2>2, <2>3
<1> HIDE DEF n
<1>t. /\ TextsKept /\ \A t \in Texts : t <= texts => root'[t] = root[t] /\ root[t] \in Nat /\ root[t] <= texts
  BY <1>a, <1>3 DEF TextsKept, RootsFit, TypeGhosts, Texts
<1>w. /\ \A i \in DOMAIN task : root'[task[i].text] = root[task[i].text] /\ root[task[i].text] <= texts
      /\ \A k \in Queued : root'[sync.queue[k].text] = root[sync.queue[k].text] /\ root[sync.queue[k].text] <= texts
      /\ \A q \in Names, t \in Texts : Seen(q, t) => root'[t] = root[t] /\ root[t] <= texts
  BY <1>t, TextsFit, SeenFits
<1>v. \A q \in Names, u \in Texts : SeenNext(q, u) => Seen(q, u) \/ (q = p /\ u = n)
  <2>1. n \in Texts \cup {0} /\ sync'.listing = sync.listing /\ UNCHANGED <<settler, task>>
        /\ history' = [history EXCEPT ![p] = Append(@, n)]
    BY <1>3
  <2> QED
    BY <2>1, GrownViews
<1>m. \/ root'[n] = n /\ (\A q \in Names, u \in Texts : Seen(q, u) => q # p) /\ marked[p] = 0
      \/ of \in Texts /\ Seen(p, of) /\ root'[n] = root[of]
  <2>1. CASE of = 0
    <3>1. p = names + 1 /\ root'[n] = n
      BY <1>2, <1>3, <2>1
    <3> QED
      BY <1>a, <3>1, SeenFits DEF MarkedFits
  <2>2. CASE of # 0
    BY <1>2, <1>3, <2>2 DEF Seen
  <2> QED
    BY <2>1, <2>2
<1>s. \A t, u, v, w : Apart(t, u) /\ root'[v] = root[t] /\ root'[w] = root[u] => ApartNext(v, w) /\ ApartNext(w, v)
  BY <1>3 DEF Apart, ApartNext
<1>z. ASSUME NEW x, root'[x] = root[x], root[x] <= texts, root[x] \in Nat, root'[n] = n
      PROVE  ApartNext(x, n) /\ ApartNext(n, x)
  BY <1>a, <1>3, <1>z DEF ApartNext
<1>g. \A t \in Texts : root[t] \in Nat
  BY <1>a DEF TypeGhosts, Texts
<1>4. ASSUME NEW q \in Names, NEW u \in Texts, Seen(q, u), q # p
      PROVE  /\ ApartNext(n, u) /\ ApartNext(u, n) /\ (marked[p] # 0 => marked[p] # marked[q])
             /\ (marked[q] # 0 => marked[q] # marked[p])
  <2>1. root'[u] = root[u] /\ root[u] <= texts /\ root[u] \in Nat
    BY <1>w, <1>g, <1>4
  <2>2. CASE root'[n] = n /\ marked[p] = 0
    BY <1>z, <2>1, <2>2
  <2>3. CASE of \in Texts /\ Seen(p, of) /\ root'[n] = root[of]
    <3>1. Apart(of, u) /\ (marked[p] # 0 => marked[p] # marked[q]) /\ (marked[q] # 0 => marked[q] # marked[p])
      BY <1>a, <1>4, <2>3 DEF ViewsApart
    <3> QED
      BY <1>s, <2>1, <2>3, <3>1
  <2> QED
    BY <1>m, <2>2, <2>3
<1>5. ASSUME NEW x \in Names, NEW q \in Names, NEW t \in Texts, NEW u \in Texts,
             SeenNext(x, t), SeenNext(q, u), x # q
      PROVE  ApartNext(t, u) /\ (marked[x] # 0 => marked[x] # marked[q])
  <2>1. CASE Seen(x, t) /\ Seen(q, u)
    BY <1>a, <1>s, <1>w, <1>5, <2>1 DEF ViewsApart
  <2>2. CASE x = p /\ t = n
    BY <1>4, <1>v, <1>5, <2>2
  <2>3. CASE q = p /\ u = n
    BY <1>4, <1>v, <1>5, <2>3
  <2> QED
    BY <1>v, <1>5, <2>1, <2>2, <2>3
<1>6. ASSUME NEW x \in Names, NEW t \in Texts, NEW i \in DOMAIN task, SeenNext(x, t)
      PROVE  ApartNext(task[i].text, t) \/ task[i].href = x \/ ByMarker(task[i], x)
  <2>0. /\ root'[task[i].text] = root[task[i].text] /\ root[task[i].text] <= texts
        /\ root[task[i].text] \in Nat
    BY <1>w, <1>g, TextsFit
  <2>1. CASE Seen(x, t)
    BY <1>a, <1>s, <1>w, <2>0, <2>1 DEF ViewsRows, RowOf
  <2>2. CASE x = p /\ t = n /\ root'[n] = n
    BY <1>z, <2>0, <2>2
  <2>3. CASE x = p /\ t = n /\ of \in Texts /\ Seen(p, of) /\ root'[n] = root[of]
    <3>1. Apart(task[i].text, of) \/ task[i].href = p \/ ByMarker(task[i], p)
      BY <1>a, <2>3 DEF ViewsRows, RowOf
    <3> QED
      BY <1>s, <2>0, <2>3, <3>1
  <2> QED
    BY <1>v, <1>m, <1>6, <2>1, <2>2, <2>3
<1>7. ASSUME NEW x \in Names, NEW t \in Texts, NEW k \in Queued, SeenNext(x, t)
      PROVE  \/ ApartNext(sync.queue[k].text, t) \/ sync.queue[k].href = x
             \/ ByMarker(sync.queue[k], x) /\ ~Unfound(k)
  <2>0. /\ root'[sync.queue[k].text] = root[sync.queue[k].text] /\ root[sync.queue[k].text] <= texts
        /\ root[sync.queue[k].text] \in Nat
    BY <1>w, <1>g, TextsFit
  <2>1. CASE Seen(x, t)
    BY <1>a, <1>s, <1>w, <2>0, <2>1 DEF ViewsQueue
  <2>2. CASE x = p /\ t = n /\ root'[n] = n
    BY <1>z, <2>0, <2>2
  <2>3. CASE x = p /\ t = n /\ of \in Texts /\ Seen(p, of) /\ root'[n] = root[of]
    <3>1. \/ Apart(sync.queue[k].text, of) \/ sync.queue[k].href = p
          \/ ByMarker(sync.queue[k], p) /\ ~Unfound(k)
      BY <1>a, <2>3 DEF ViewsQueue
    <3> QED
      BY <1>s, <2>0, <2>3, <3>1
  <2> QED
    BY <1>v, <1>m, <1>7, <2>1, <2>2, <2>3
<1>8. ASSUME NEW r, NEW s, Separate(r, s), root'[r.text] = root[r.text], root'[s.text] = root[s.text]
      PROVE  SeparateNext(r, s)
  BY <1>s, <1>3, <1>8 DEF Separate, SeparateNext
<1>9. Queued' = Queued /\ (\A k : UnfoundNext(k) <=> Unfound(k)) /\ \A r, x : ByMarker(r, x) <=> ByMarkerNext(r, x)
  BY <1>3 DEF Queued, UnfoundNext, Unfound, HeadId, ByMarker, ByMarkerNext
<1>10. CopiesNext
  <2>1. /\ \A i, j \in DOMAIN task : i # j => SeparateNext(task[i], task[j])
        /\ \A k, l \in Queued : k # l => SeparateNext(sync.queue[k], sync.queue[l])
        /\ \A k \in Queued, i \in DOMAIN task :
             i # k => SeparateNext(sync.queue[k], task[i]) /\ SeparateNext(task[i], sync.queue[k])
    BY <1>a, <1>w, <1>8 DEF RowsSeparate, QueueSeparate, BothSeparate
  <2> QED
    BY <1>3, <1>5, <1>6, <1>7, <1>9, <2>1 DEF CopiesNext
<1>11. HeadUnfound'
  <2> SUFFICES ASSUME sync.pc \in {"route", "send"}, Head1.href = 0, Head1.marker # 0, NEW q \in Names, There(q)'
               PROVE  marked[q] # Head1.marker
    BY <1>3, <1>9 DEF HeadUnfound, Head1, HeadId, Queued
  <2>1. Queued # {}
    BY DEF IInv, Phase
  <2>2. TypeServer'
    BY DEF IInv, TypeOK
  <2>3. \E u \in Texts : SeenNext(q, u)
    <3>1. history'[q] \in Seq(Texts \cup {0}) /\ history'[q] # <<>> /\ Last(history'[q]) # 0
      BY <2>2 DEF TypeServer, There
    <3>2. Last(history'[q]) \in Texts
      BY <3>1 DEF Last
    <3> QED
      BY <3>1, <3>2 DEF SeenNext
  <2>4. CASE There(q)
    BY <1>a, <2>4 DEF HeadUnfound
  <2>5. CASE ~There(q)
    BY <1>m, <1>v, <2>1, <2>3, <2>5, LiveViews
  <2> QED
    BY <2>4, <2>5
<1>12. SameTask'
  BY <1>a, <1>3, <1>9, <1>w DEF SameTask
<1>13. RootsFit'
  <2> SUFFICES ASSUME NEW t \in Texts
               PROVE  (t > texts' => root'[t] = t) /\ (t <= texts' => root'[t] <= texts')
    BY DEF RootsFit
  <2>0. t \in Nat /\ n = texts + 1
    BY DEF Texts, n
  <2>1. CASE t # n
    BY <1>a, <1>3, <1>t, <2>0, <2>1 DEF RootsFit
  <2>2. CASE t = n
    <3>1. root'[n] = n \/ (root'[n] \in Nat /\ root'[n] <= texts)
      BY <1>m, <1>w, <1>g
    <3> QED
      BY <1>a, <1>3, <2>0, <2>2, <3>1
  <2> QED
    BY <2>1, <2>2
<1>14. MarkedFits'
  <2>1. names' \in Nat /\ \A q \in Names : marked[q] \in Nat /\ q \in Nat
    BY <1>a, <1>2 DEF TypeServer, Names
  <2> QED
    BY <1>a, <1>2, <1>3, <2>1 DEF MarkedFits
<1> QED
  BY <1>10, <1>11, <1>12, <1>13, <1>14, NextCopiesDef

-----------------------------------------------------------------------------
(* The list is reconciled.                                                 *)

\* What becomes of a row: it stays where it is, it is found by its marker, or it
\* is what was listed at p.
KeepsPlace(i) ==
  /\ i \in DOMAIN task /\ task'[i].text = task[i].text
  /\ task'[i].href = task[i].href /\ task'[i].marker = task[i].marker
GetsPlace(i, p) ==
  /\ i \in DOMAIN task /\ Adopts(i, p) /\ task[i].href = 0
  /\ task'[i].text = task[i].text /\ task'[i].href = p /\ task'[i].marker = 0
IsListed(i, p) ==
  /\ sync.listing[p] # 0 /\ task'[i].text = history[p][sync.listing[p]]
  /\ task'[i].href = p /\ task'[i].marker = 0
  /\ (i \in DOMAIN task /\ task[i].href = p) \/ (i \notin DOMAIN task /\ Listed(i, p))

\* One of these becomes of every row.
LEMMA ReconcileCases ==
  ASSUME IInv, ReconcileStep, NEW i \in DOMAIN task'
  PROVE  KeepsPlace(i) \/ \E p \in Names : GetsPlace(i, p) \/ IsListed(i, p)
<1>a. TypeServer /\ TypeSync /\ ListingFits
  BY DEF IInv, TypeOK
<1>b. \A p \in Names : sync.listing[p] # 0 => sync.listing[p] \in Nat /\ history[p][sync.listing[p]] \in Texts
  <2> SUFFICES ASSUME NEW p \in Names, sync.listing[p] # 0
               PROVE  sync.listing[p] \in Nat /\ history[p][sync.listing[p]] \in Texts
    OBVIOUS
  <2>1. sync.listing[p] \in Nat
    BY <1>a DEF TypeSync
  <2> QED
    BY <2>1, SeenFits DEF Seen
<1>r. i \in DOMAIN task => task[i] \in Row
  BY DEF IInv, TypeOK, TypeStore
<1>1. CASE i \in DOMAIN task /\ task'[i] = task[i]
  BY <1>1 DEF KeepsPlace
<1>2. CASE i \in DOMAIN task /\ Adopted(i)
  <2>1. PICK p \in Names : Adopts(i, p) /\ task'[i] = Placed(task[i], p, 0, sync.listing[p])
    BY <1>2 DEF Adopted
  <2> QED
    BY <1>r, <1>2, <2>1, PlacedFacts DEF GetsPlace, Adopted
<1>3. CASE i \in DOMAIN task /\ Took(i)
  BY <1>b, <1>r, <1>3, TakenFacts DEF IsListed, Took
<1>4. CASE i \in DOMAIN task /\ Held(i)
  BY <1>r, <1>4 DEF KeepsPlace, Held, Waits, Row
<1>5. CASE i \notin DOMAIN task /\ \E p \in Names : Listed(i, p)
  <2>1. PICK p \in Names : Listed(i, p)
    BY <1>5
  <2>2. sync.listing[p] # 0 /\ task'[i] = Copy(p, sync.listing[p])
    BY <2>1 DEF Listed, Unknown
  <2> QED
    BY <1>b, <1>5, <2>1, <2>2, CopyFacts DEF IsListed
<1> QED
  BY <1>1, <1>2, <1>3, <1>4, <1>5 DEF ReconcileStep

\* What is listed at p is no other row's.
LEMMA ListedAlone ==
  ASSUME IInv, Copies, NEW i \in DOMAIN task', NEW p \in Names, IsListed(i, p), NEW j \in DOMAIN task, j # i
  PROVE  /\ task[j].href # p /\ (task[j].marker # 0 => marked[p] # task[j].marker)
         /\ Apart(task'[i].text, task[j].text) /\ Apart(task[j].text, task'[i].text)
<1>a. RowsSeparate /\ ViewsRows
  BY DEF Copies
<1>n. p # 0
  BY DEF Names
<1>1. task[j].href # p /\ (task[j].marker # 0 => marked[p] # task[j].marker)
  <2>1. CASE i \in DOMAIN task /\ task[i].href = p
    <3>1. Separate(task[i], task[j]) /\ Separate(task[j], task[i])
      BY <1>a, <2>1 DEF RowsSeparate
    <3> QED
      BY <1>n, <2>1, <3>1 DEF Separate
  <2>2. CASE Listed(i, p)
    BY <2>2 DEF Listed, Unknown, Hrefs, Adopts
  <2> QED
    BY <2>1, <2>2 DEF IsListed
<1>2. Seen(p, task'[i].text) /\ task'[i].text \in Texts
  <2>1. Seen(p, task'[i].text)
    BY DEF IsListed, Seen
  <2> QED
    BY <2>1, SeenFits
<1>3. Apart(task[j].text, task'[i].text)
  BY <1>a, <1>1, <1>2 DEF ViewsRows, RowOf, ByMarker
<1> QED
  BY <1>1, <1>3, ApartFacts

\* What is listed at two places is of two tasks.
LEMMA ListedApart ==
  ASSUME IInv, Copies, ReconcileStep, NEW i \in DOMAIN task', NEW j \in DOMAIN task', i # j,
         NEW p \in Names, NEW q \in Names, IsListed(i, p), IsListed(j, q)
  PROVE  p # q /\ Apart(task'[i].text, task'[j].text)
<1>a. RowsSeparate /\ ViewsApart
  BY DEF Copies
<1>1. p # q
  <2>1. CASE i \in DOMAIN task
    BY <2>1, ListedAlone DEF IsListed, Listed, Unknown, Hrefs
  <2>2. CASE j \in DOMAIN task
    BY <2>2, ListedAlone DEF IsListed, Listed, Unknown, Hrefs
  <2>3. CASE i \notin DOMAIN task /\ j \notin DOMAIN task
    BY <2>3 DEF IsListed, ReconcileStep
  <2> QED
    BY <2>1, <2>2, <2>3
<1>2. Seen(p, task'[i].text) /\ Seen(q, task'[j].text)
  BY DEF IsListed, Seen
<1> QED
  BY <1>a, <1>1, <1>2, SeenFits DEF ViewsApart

\* A row found by its marker gets a place no other row has.
LEMMA FoundAlone ==
  ASSUME Copies, NEW i, NEW p \in Names, GetsPlace(i, p), NEW j \in DOMAIN task, j # i
  PROVE  task[j].href # p /\ (task[j].marker # 0 => marked[p] # task[j].marker)
<1>1. Separate(task[i], task[j]) /\ p # 0
  BY DEF Copies, RowsSeparate, GetsPlace, Names
<1> QED
  BY <1>1 DEF Separate, GetsPlace, Adopts

\* Two rows after the reconciliation.
LEMMA ReconciledSeparate ==
  ASSUME IInv, Copies, ReconcileStep, UNCHANGED <<marked, again, root>>,
         NEW i \in DOMAIN task', NEW j \in DOMAIN task', i # j
  PROVE  SeparateNext(task'[i], task'[j])
<1>a. RowsSeparate
  BY DEF Copies
<1>s. \A t, u : Apart(t, u) => ApartNext(t, u)
  BY DEF Apart, ApartNext
<1>b. i \in DOMAIN task /\ j \in DOMAIN task => Separate(task[i], task[j])
  BY <1>a DEF RowsSeparate
<1>1. CASE KeepsPlace(i) /\ KeepsPlace(j)
  BY <1>b, <1>s, <1>1 DEF KeepsPlace, Separate, SeparateNext
<1>2. ASSUME KeepsPlace(i), NEW q \in Names, GetsPlace(j, q) PROVE SeparateNext(task'[i], task'[j])
  <2>1. task[i].href # q /\ (task[i].marker # 0 => marked[q] # task[i].marker)
    BY <1>2, FoundAlone DEF KeepsPlace
  <2> QED
    BY <1>b, <1>s, <1>2, <2>1 DEF KeepsPlace, GetsPlace, Separate, SeparateNext
<1>3. ASSUME KeepsPlace(i), NEW q \in Names, IsListed(j, q) PROVE SeparateNext(task'[i], task'[j])
  <2>1. /\ task[i].href # q /\ (task[i].marker # 0 => marked[q] # task[i].marker)
        /\ Apart(task[i].text, task'[j].text)
    BY <1>3, ListedAlone DEF KeepsPlace
  <2> QED
    BY <1>s, <1>3, <2>1 DEF KeepsPlace, IsListed, SeparateNext
<1>4. ASSUME NEW p \in Names, GetsPlace(i, p), KeepsPlace(j) PROVE SeparateNext(task'[i], task'[j])
  <2>1. task[j].href # p
    BY <1>4, FoundAlone DEF KeepsPlace
  <2> QED
    BY <1>b, <1>s, <1>4, <2>1 DEF KeepsPlace, GetsPlace, Separate, SeparateNext
<1>5. ASSUME NEW p \in Names, GetsPlace(i, p), NEW q \in Names, GetsPlace(j, q) PROVE SeparateNext(task'[i], task'[j])
  <2>1. p # q
    BY <1>5, FoundAlone DEF GetsPlace, Adopts
  <2> QED
    BY <1>b, <1>s, <1>5, <2>1 DEF GetsPlace, Separate, SeparateNext
<1>6. ASSUME NEW p \in Names, GetsPlace(i, p), NEW q \in Names, IsListed(j, q) PROVE SeparateNext(task'[i], task'[j])
  <2>1. /\ task[i].marker # 0 => marked[q] # task[i].marker
        /\ Apart(task[i].text, task'[j].text)
    BY <1>6, ListedAlone DEF GetsPlace
  <2>2. p # q
    BY <1>6, <2>1 DEF GetsPlace, Adopts
  <2> QED
    BY <1>s, <1>6, <2>1, <2>2 DEF GetsPlace, IsListed, SeparateNext
<1>7. ASSUME NEW p \in Names, IsListed(i, p), KeepsPlace(j) PROVE SeparateNext(task'[i], task'[j])
  <2>1. task[j].href # p /\ Apart(task'[i].text, task[j].text)
    BY <1>7, ListedAlone DEF KeepsPlace
  <2> QED
    BY <1>s, <1>7, <2>1 DEF KeepsPlace, IsListed, SeparateNext
<1>8. ASSUME NEW p \in Names, IsListed(i, p), NEW q \in Names, GetsPlace(j, q) PROVE SeparateNext(task'[i], task'[j])
  <2>1. /\ task[j].marker # 0 => marked[p] # task[j].marker
        /\ Apart(task'[i].text, task[j].text)
    BY <1>8, ListedAlone DEF GetsPlace
  <2>2. p # q
    BY <1>8, <2>1 DEF GetsPlace, Adopts
  <2> QED
    BY <1>s, <1>8, <2>1, <2>2 DEF GetsPlace, IsListed, SeparateNext
<1>9. ASSUME NEW p \in Names, IsListed(i, p), NEW q \in Names, IsListed(j, q) PROVE SeparateNext(task'[i], task'[j])
  <2>1. p # q /\ Apart(task'[i].text, task'[j].text)
    BY <1>9, ListedApart
  <2> QED
    BY <1>s, <1>9, <2>1 DEF IsListed, SeparateNext
<1>10. /\ KeepsPlace(i) \/ \E p \in Names : GetsPlace(i, p) \/ IsListed(i, p)
       /\ KeepsPlace(j) \/ \E p \in Names : GetsPlace(j, p) \/ IsListed(j, p)
  BY ReconcileCases
<1> QED
  BY <1>1, <1>2, <1>3, <1>4, <1>5, <1>6, <1>7, <1>8, <1>9, <1>10

\* The list is reconciled.
LEMMA ReconcileCopies ==
  ASSUME IInv, IInv', Copies, Reconcile
  PROVE  Copies'
<1>a. /\ ViewsApart /\ ViewsRows /\ RootsFit /\ MarkedFits /\ settler.id \in Nat /\ settler.id <= lastId
      /\ lastId \in Nat
  BY DEF Copies, IInv, TypeOK, TypeStore, TypeBeside
<1>1. /\ ReconcileStep /\ UNCHANGED <<kind, settler>> /\ UNCHANGED <<history, marked, names>>
      /\ UNCHANGED <<again, root, texts>> /\ sync' = NoSync
  BY ReconcileFacts
<1>2. Queued' = {} /\ sync'.pc = "idle" /\ \A p \in Names : sync'.listing[p] = 0
  BY <1>1, NoSyncFacts DEF Queued
<1>3. Fewer
  <2>1. settler.id \in DOMAIN task' => settler.id \in DOMAIN task
    BY <1>a, <1>1 DEF ReconcileStep
  <2> QED
    BY <1>1, <1>2, <2>1, FewerFacts
<1>s. /\ \A t, u : Apart(t, u) => ApartNext(t, u)
      /\ \A r, x : ByMarker(r, x) => ByMarkerNext(r, x)
  BY <1>1 DEF Apart, ApartNext, ByMarker, ByMarkerNext
<1>4. ASSUME NEW q \in Names, NEW u \in Texts, NEW i \in DOMAIN task', SeenNext(q, u)
      PROVE  ApartNext(task'[i].text, u) \/ task'[i].href = q \/ ByMarkerNext(task'[i], q)
  <2>1. Seen(q, u) /\ q # 0
    BY <1>3, <1>4 DEF Fewer, Names
  <2>2. i \in DOMAIN task => Apart(task[i].text, u) \/ task[i].href = q \/ ByMarker(task[i], q)
    BY <1>a, <2>1 DEF ViewsRows, RowOf
  <2>3. CASE KeepsPlace(i)
    BY <1>1, <1>s, <2>2, <2>3 DEF KeepsPlace, ByMarker, ByMarkerNext
  <2>4. ASSUME NEW p \in Names, GetsPlace(i, p) PROVE ApartNext(task'[i].text, u) \/ task'[i].href = q
    <3>1. Seen(p, history[p][sync.listing[p]])
      BY <2>4 DEF GetsPlace, Adopts, Seen
    <3>2. marked[q] = task[i].marker => q = p
      BY <1>a, <2>1, <2>4, <3>1, SeenFits DEF ViewsApart, GetsPlace, Adopts
    <3> QED
      BY <1>s, <2>1, <2>2, <2>4, <3>2 DEF GetsPlace, ByMarker
  <2>5. ASSUME NEW p \in Names, IsListed(i, p) PROVE ApartNext(task'[i].text, u) \/ task'[i].href = q
    <3>1. Seen(p, task'[i].text)
      BY <2>5 DEF IsListed, Seen
    <3>2. p # q => Apart(task'[i].text, u)
      BY <1>a, <2>1, <3>1, SeenFits DEF ViewsApart
    <3> QED
      BY <1>s, <2>5, <3>2 DEF IsListed
  <2> QED
    BY <1>1, <2>3, <2>4, <2>5, ReconcileCases
<1>5. \A p, q \in Names, t, u \in Texts :
        SeenNext(p, t) /\ SeenNext(q, u) /\ p # q => ApartNext(t, u) /\ (marked'[p] # 0 => marked'[p] # marked'[q])
  BY <1>a, <1>1, <1>3, <1>s DEF Fewer, ViewsApart
<1>6. \A i, j \in DOMAIN task' : i # j => SeparateNext(task'[i], task'[j])
  BY <1>1, ReconciledSeparate
<1>7. CopiesNext
  BY <1>2, <1>4, <1>5, <1>6 DEF CopiesNext
<1>8. HeadUnfound' /\ SameTask' /\ RootsFit' /\ MarkedFits'
  BY <1>a, <1>1, <1>2 DEF HeadUnfound, SameTask, RootsFit, MarkedFits
<1> QED
  BY <1>7, <1>8, NextCopiesDef

\* The choice is written.
LEMMA SettleWriteCopies ==
  ASSUME IInv, IInv', Copies, SettleWrite
  PROVE  Copies'
<1>a. /\ TypeStore /\ TypeBeside /\ TypeServer /\ TypeGhosts /\ SettlerFits /\ Unblocked /\ names \in Nat
      /\ ViewsApart /\ ViewsRows /\ RowsSeparate /\ HeadUnfound /\ SameTask /\ RootsFit /\ MarkedFits
  BY DEF IInv, TypeOK, TypeServer, Copies
<1> DEFINE h == settler.id
<1>1. /\ SettleStep(h) /\ settler.pc = "write" /\ settler' = NoSettler
      /\ UNCHANGED <<kind, sync, history, marked, names>> /\ UNCHANGED <<root, texts>>
  BY SettleWriteFacts
<1>2. /\ \A i \in DOMAIN task' : i \in DOMAIN task /\ (i # h => task'[i] = task[i])
      /\ again \subseteq again' \/ h \notin DOMAIN task
  BY <1>1 DEF SettleStep, TakesServers, KeepsMine, GivesUp, MakesAgain
<1>3. Fewer
  BY <1>1, <1>2, FewerFacts DEF NoSettler
<1>4. CASE h \notin DOMAIN task
  <2>1. again' = again
    BY <1>4 DEF SettleWrite
  <2>2. \A i \in DOMAIN task' : Like(i)
    BY <1>1, <1>2, <1>4 DEF Like
  <2>3. \A k \in Queued' : Stays(k)
    BY <1>1 DEF Stays, UnfoundNext, Unfound, Queued, HeadId
  <2>4. HeadUnfound'
    BY <1>a, <1>1 DEF HeadUnfound, Head1, HeadId, Queued, There
  <2> QED
    BY <1>a, <1>1, <1>3, <2>1, <2>2, <2>3, <2>4, CalmCopies
<1>5. CASE h \in DOMAIN task
  <2>1. task[h] \in Row /\ task[h].pending # "none" /\ task[h].href = settler.href /\ settler.href \in Names
    BY <1>1, <1>5, SettledRow
  <2>2. Queued' = {}
    <3>1. Queued = {}
      BY <1>a, <1>1, <1>5 DEF Unblocked, SettlerFits
    <3> QED
      BY <1>1, <3>1 DEF Queued
  <2>3. TextsKept
    BY <1>1, <1>2, <1>5 DEF TextsKept
  <2>4. ASSUME h \in DOMAIN task' PROVE FitsAmong(task'[h], h) /\ FitsViews(task'[h])
    <3>s. \A t, u : Apart(t, u) => ApartNext(t, u) /\ ApartNext(u, t)
      BY <1>1, <2>3 DEF Apart, ApartNext, TextsKept
    <3>p. \A i \in DOMAIN task : i # h => Separate(task[h], task[i]) /\ Separate(task[i], task[h])
      BY <1>a, <1>5 DEF RowsSeparate
    <3>1. CASE TakesServers(h)
      <4> DEFINE p == settler.href
                 t == history[p][settler.got]
      <4>1. Seen(p, t)
        BY <1>1, <1>5, <3>1 DEF Seen, TakesServers
      <4>2. t \in Texts /\ settler.got \in Nat
        BY <1>a, <2>1, <4>1, SeenFits DEF TypeBeside
      <4>3. task'[h].text = t /\ task'[h].href = p /\ task'[h].marker = 0
        BY <2>1, <3>1, <4>2, TakenFacts DEF TakesServers
      <4>4. p \in Names /\ p # 0 /\ task[h].href = p
        BY <2>1 DEF Names
      <4> HIDE DEF p, t
      <4>5. ASSUME NEW i \in DOMAIN task, i # h
            PROVE  SeparateNext(task'[h], task[i]) /\ SeparateNext(task[i], task'[h])
        <5>1. task[i].href # p /\ (task[i].marker # 0 => marked[p] # task[i].marker)
          BY <3>p, <4>4, <4>5 DEF Separate
        <5>2. Apart(task[i].text, t)
          BY <1>a, <4>1, <4>2, <4>4, <5>1 DEF ViewsRows, RowOf, ByMarker
        <5> QED
          BY <1>1, <3>s, <4>3, <5>1, <5>2 DEF SeparateNext
      <4>6. ASSUME NEW q \in Names, NEW u \in Texts, SeenNext(q, u)
            PROVE  ApartNext(task'[h].text, u) \/ task'[h].href = q
        BY <1>a, <1>3, <3>s, <4>1, <4>2, <4>3, <4>4, <4>6 DEF Fewer, ViewsApart
      <4> QED
        BY <1>2, <2>2, <4>5, <4>6 DEF FitsAmong, FitsViews
    <3>2. CASE KeepsMine(h)
      <4>1. task'[h].text = task[h].text /\ task'[h].href = task[h].href /\ task'[h].marker = task[h].marker
        BY <1>a, <2>1, <3>2, MineFacts DEF KeepsMine
      <4>2. ASSUME NEW i \in DOMAIN task, i # h
            PROVE  SeparateNext(task'[h], task[i]) /\ SeparateNext(task[i], task'[h])
        BY <1>1, <3>s, <3>p, <4>1, <4>2 DEF Separate, SeparateNext
      <4>3. ASSUME NEW q \in Names, NEW u \in Texts, SeenNext(q, u)
            PROVE  ApartNext(task'[h].text, u) \/ task'[h].href = q \/ ByMarkerNext(task'[h], q)
        <5>1. Apart(task[h].text, u) \/ task[h].href = q \/ ByMarker(task[h], q)
          BY <1>a, <1>3, <1>5, <4>3 DEF Fewer, ViewsRows, RowOf
        <5> QED
          BY <1>1, <3>s, <4>1, <5>1 DEF ByMarker, ByMarkerNext
      <4> QED
        BY <1>2, <2>2, <4>2, <4>3 DEF FitsAmong, FitsViews
    <3>3. CASE MakesAgain(h) /\ kind = "ews"
      <4>1. task'[h].text = task[h].text /\ task'[h].href = 0 /\ task'[h].marker = 0
        BY <1>a, <2>1, <3>3, MineFacts DEF MakesAgain
      <4>2. \A u : ApartNext(task'[h].text, u)
        BY <1>1, <3>3, <4>1 DEF ApartNext, MakesAgain
      <4>3. ASSUME NEW i \in DOMAIN task, i # h
            PROVE  SeparateNext(task'[h], task[i]) /\ SeparateNext(task[i], task'[h])
        BY <3>s, <3>p, <4>1, <4>2, <4>3 DEF Separate, SeparateNext
      <4> QED
        BY <1>2, <2>2, <4>2, <4>3 DEF FitsAmong, FitsViews
    <3>4. CASE MakesAgain(h) /\ kind # "ews"
      <4>1. task'[h].text = task[h].text /\ task'[h].href = task[h].href /\ task'[h].marker = task[h].marker
        BY <1>a, <2>1, <3>4, MineFacts DEF MakesAgain
      <4>2. ASSUME NEW i \in DOMAIN task, i # h
            PROVE  SeparateNext(task'[h], task[i]) /\ SeparateNext(task[i], task'[h])
        BY <1>1, <3>s, <3>p, <4>1, <4>2 DEF Separate, SeparateNext
      <4>3. ASSUME NEW q \in Names, NEW u \in Texts, SeenNext(q, u)
            PROVE  ApartNext(task'[h].text, u) \/ task'[h].href = q \/ ByMarkerNext(task'[h], q)
        <5>1. Apart(task[h].text, u) \/ task[h].href = q \/ ByMarker(task[h], q)
          BY <1>a, <1>3, <1>5, <4>3 DEF Fewer, ViewsRows, RowOf
        <5> QED
          BY <1>1, <3>s, <4>1, <5>1 DEF ByMarker, ByMarkerNext
      <4> QED
        BY <1>2, <2>2, <4>2, <4>3 DEF FitsAmong, FitsViews
    <3>5. CASE GivesUp(h)
      BY <2>4, <3>5 DEF GivesUp
    <3> QED
      BY <1>1, <1>5, <3>1, <3>2, <3>3, <3>4, <3>5 DEF SettleStep
  <2>5. CopiesNext
    <3>1. \A i \in DOMAIN task' : i # h => Like(i)
      BY <1>1, <1>2 DEF Like
    <3> HIDE DEF h
    <3> QED
      BY <1>1, <1>3, <2>2, <2>3, <2>4, <3>1, ChangeCopies
  <2>6. HeadUnfound'
    <3>1. sync.pc \notin {"route", "send"}
      BY <1>1, <2>2 DEF IInv, Phase
    <3> QED
      BY <1>1, <3>1 DEF HeadUnfound
  <2>7. SameTask' /\ RootsFit' /\ MarkedFits'
    BY <1>a, <1>1, <2>2 DEF SameTask, RootsFit, MarkedFits
  <2> QED
    BY <2>5, <2>6, <2>7, NextCopiesDef
<1> QED
  BY <1>4, <1>5

\* They hold at first.
LEMMA InitCopies == Init => Copies
<1> SUFFICES ASSUME Init PROVE Copies
  OBVIOUS
<1>1. /\ DOMAIN task = {} /\ Queued = {} /\ settler.pc = "idle" /\ texts = 0 /\ names = 0 /\ sync.pc = "idle"
      /\ \A p \in Names : marked[p] = 0 /\ sync.listing[p] = 0 /\ history[p] = <<>>
      /\ \A t \in Texts : root[t] = t
  BY NoSyncFacts DEF Init, NoRows, Queued, NoSettler
<1>2. \A p \in Names, t \in Texts : ~Seen(p, t)
  BY <1>1 DEF Seen, There
<1>3. RootsFit
  BY <1>1 DEF RootsFit, Texts
<1> QED
  BY <1>1, <1>2, <1>3 DEF Copies, ViewsApart, ViewsRows, ViewsQueue, HeadUnfound, RowsSeparate, QueueSeparate,
     BothSeparate, SameTask, MarkedFits

\* Every step keeps them.
LEMMA NextCopies == IInv /\ Copies /\ [Next]_vars => Copies'
<1> SUFFICES ASSUME IInv, Copies, [Next]_vars PROVE Copies'
  OBVIOUS
<1>i. IInv'
  BY NextIInv
<1>1. CASE Person
  BY <1>i, <1>1, PersonCopies, LooksCopies, SettleWriteCopies DEF Person, PersonActs
<1>2. CASE Syncs
  BY <1>i, <1>2, SyncStartCopies, MovesCopies, AnswersCopies, KeepPlaceCopies, EwsFindCopies, EwsRouteCopies,
     EwsReadBackCopies, ReconcileCopies DEF Syncs
<1>3. CASE Server
  BY <1>i, <1>3, PutsCopies, DeletesCopies, EwsCreatesCopies, OthersCopies DEF Server
<1>4. CASE SyncFails \/ Crash
  BY <1>i, <1>4, MovesCopies
<1>5. CASE UNCHANGED vars
  <2>1. /\ UNCHANGED <<kind, marked, again, root, texts>> /\ UNCHANGED <<task, sync, settler, history, names>>
    BY <1>5 DEF vars, server, ghosts
  <2>2. Fewer
    BY <2>1, FewerFacts
  <2>3. \A k \in Queued' : Stays(k)
    BY <2>1 DEF Stays, UnfoundNext, Unfound, Queued, HeadId
  <2>4. HeadUnfound'
    BY <2>1 DEF Copies, HeadUnfound, Head1, HeadId, Queued, There
  <2>5. names <= names'
    BY <2>1 DEF IInv, TypeOK, TypeServer
  <2> QED
    BY <1>i, <2>1, <2>2, <2>3, <2>4, <2>5, SameRows, CalmCopies
<1> QED
  BY <1>1, <1>2, <1>3, <1>4, <1>5 DEF Next

\* What is on the server is in hand.
LEMMA CopiesSuffice == IInv /\ Copies => NoSecondCopy
<1> SUFFICES ASSUME IInv, Copies PROVE NoSecondCopy
  OBVIOUS
<1>a. TypeServer /\ ViewsApart /\ RowsSeparate
  BY DEF IInv, TypeOK, Copies
<1>1. \A p \in Objects : p \in Names /\ Seen(p, Last(history[p])) /\ Last(history[p]) \in Texts
  BY <1>a, ThereFacts DEF Objects, Seen
<1> QED
  BY <1>a, <1>1 DEF NoSecondCopy, ViewsApart, RowsSeparate, Separate, Apart

\* A task, unless the person had it made again on Exchange, has one object on the
\* server and one row here, through lost answers, retries, crashes, other clients
\* and conflicts settled beside a sync.
THEOREM OneCopy == Spec => []NoSecondCopy
<1> QED
  BY InitIInv, NextIInv, InitCopies, NextCopies, CopiesSuffice, PTL DEF Spec

=============================================================================
