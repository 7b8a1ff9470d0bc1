------------------------------ MODULE TaskSync ------------------------------
(***************************************************************************)
(* A task list kept on a server (task_sync/mod.rs for CalDAV,              *)
(* task_sync/exchange.rs for an Exchange account's Tasks folder).          *)
(*                                                                         *)
(* A change made here is kept in the store first, as pending.  A sync      *)
(* sends the pending changes one by one, each against the version it was   *)
(* made from, reads the whole list and reconciles it with the rows.  Other *)
(* clients write to the same list at any moment, the person goes on        *)
(* editing while a change is being sent, an answer may be lost and the     *)
(* process may end.  A task changed on both sides waits for the person,    *)
(* and that choice is carried out beside the syncs.                        *)
(*                                                                         *)
(* What a task says is one number, its text, new with every edit.  Lists   *)
(* share nothing, so one is enough; a lock lets one sync of it run at a    *)
(* time.  A task that repeats in a way this client does not write is never *)
(* edited here (check_editable), so it is left out.                        *)
(***************************************************************************)
EXTENDS Naturals, Sequences, FiniteSets, SequencesExt

CONSTANTS
  Kinds,       \* the kinds of server: "caldav", "ews"
  Unwritable,  \* texts Exchange can never take
  MaxEdits,    \* bound: edits, deletions and choices of the person
  MaxOthers,   \* bound: writes of other clients
  MaxRows,     \* bound: rows ever made in the store
  MaxNames,    \* bound: places and markers ever made
  MaxFaults    \* bound: syncs cut short, ends of the process, deletions of other clients

ASSUME KindsAssumption == Kinds \subseteq {"caldav", "ews"} /\ Kinds # {}
ASSUME TaskSyncBounds ==
  /\ MaxEdits \in Nat /\ MaxOthers \in Nat /\ MaxRows \in Nat
  /\ MaxNames \in Nat /\ MaxFaults \in Nat

Texts == 1 .. (2 * MaxEdits + MaxOthers)
Names == 1 .. MaxNames
Ids == 1 .. MaxRows

VARIABLES
  kind,      \* what keeps the list
  \* The store
  task,      \* the rows of the list, by id
  lastId,    \* the last id given (AUTOINCREMENT)
  \* The process
  sync,      \* the sync that runs
  settler,   \* the conflict being settled
  editor,    \* the task open in the editor, as it was read
  \* The server
  history,   \* what each object said, version by version; 0 where it was deleted
  marked,    \* Exchange: our marker on each object, 0 for none
  names,     \* places and markers made so far
  \* History and bounds
  byOther,   \* texts other clients wrote
  knows,     \* texts of other clients each text was written in sight of
  settled,   \* texts of other clients the person chose to write over
  again,     \* tasks the person chose to have made again in an Exchange list
  cut,       \* texts written here whose row was never marked as waiting
  root,      \* the first text of the task each text belongs to, which names the task
  texts,     \* texts used so far
  asked, faults

server == <<history, marked, names>>
ghosts == <<byOther, knows, settled, again, cut, root, texts>>
bounds == <<asked, faults>>
vars   == <<kind, task, lastId, sync, settler, editor, server, ghosts, bounds>>

Row ==
  [text: Texts, href: Names \cup {0}, marker: Names \cup {0}, etag: Nat,
   pending: {"none", "put", "delete"}, conflict: {"none", "changed", "deleted", "rejected"},
   seq: Nat, revision: Nat]

\* A conflict that waits for the person.
Unsettled == {"changed", "deleted"}

NoRows == [i \in {} |-> 0]
NoListing == [p \in Names |-> 0]
NoSync == [pc |-> "idle", queue |-> NoRows, said |-> "none", tag |-> 0, listing |-> NoListing]
NoSettler == [pc |-> "idle", id |-> 0, keep |-> "none", was |-> "none", href |-> 0, got |-> 0]
NoEditor == [id |-> 0, revision |-> 0, text |-> 0]

Init ==
  /\ kind \in Kinds
  /\ task = NoRows /\ lastId = 0
  /\ sync = NoSync /\ settler = NoSettler /\ editor = NoEditor
  /\ history = [p \in Names |-> <<>>]
  /\ marked = [p \in Names |-> 0]
  /\ names = 0
  /\ byOther = {} /\ settled = {} /\ again = {} /\ cut = {}
  /\ knows = [n \in Texts |-> {}] /\ root = [n \in Texts |-> n]
  /\ texts = 0 /\ asked = 0 /\ faults = 0

-----------------------------------------------------------------------------
(* The rows and the objects.                                               *)

Version(p) == Len(history[p])
There(p) == history[p] # <<>> /\ Last(history[p]) # 0
Objects == {p \in Names : There(p)}

\* The etag or change key a reader gets: 0 where there is nothing.
Tag(p) == IF There(p) THEN Version(p) ELSE 0

\* The places the rows name.
Hrefs == {task[i].href : i \in DOMAIN task}

Put(id, row) == task' = [i \in DOMAIN task \cup {id} |-> IF i = id THEN row ELSE task[i]]
Drop(id) == task' = [i \in DOMAIN task \ {id} |-> task[i]]

\* UPDATE ... WHERE id: nothing when the row is gone.
Update(id, row) == IF id \in DOMAIN task THEN Put(id, row) ELSE UNCHANGED task

\* touched: the row waits to be sent, unless it waits to be deleted.
Touched(row) == [row EXCEPT !.pending = "put", !.seq = @ + 1]

\* take_server_copy, of the version `tag` of the object at p.
Taken(row, p, tag) ==
  [row EXCEPT !.text = history[p][tag], !.href = p, !.marker = 0, !.etag = tag,
              !.pending = "none", !.conflict = "none", !.revision = @ + 1]

\* insert_server_copy.
Copy(p, tag) ==
  [text |-> history[p][tag], href |-> p, marker |-> 0, etag |-> tag,
   pending |-> "none", conflict |-> "none", seq |-> 0, revision |-> 1]

-----------------------------------------------------------------------------
(* The person.                                                             *)

Asked == asked < MaxEdits /\ asked' = asked + 1

\* A new text, written in sight of `seen`, of the task `of` (itself when 0).
Writes(seen, of) ==
  /\ texts' = texts + 1
  /\ knows' = [knows EXCEPT ![texts'] = seen]
  /\ root' = [root EXCEPT ![texts'] = IF of = 0 THEN texts' ELSE root[of]]

InSight(n) == knows[n] \cup ({n} \cap byOther)

\* A task that was never on the server.
Blank(n) == [text |-> n, href |-> 0, marker |-> 0, etag |-> 0,
             pending |-> "none", conflict |-> "none", seq |-> 0, revision |-> 1]

\* The row is written, then marked as waiting by a statement of its own: the
\* process may end, or the store fail, between the two.
PutAndTouch(id, row) ==
  \/ Put(id, Touched(row)) /\ UNCHANGED <<cut, faults>>
  \/ /\ faults < MaxFaults /\ faults' = faults + 1
     /\ Put(id, row)
     /\ cut' = cut \cup {texts'}

\* "tasks.create".
Create ==
  /\ Asked
  /\ lastId < MaxRows /\ lastId' = lastId + 1
  /\ Writes({}, 0)
  /\ PutAndTouch(lastId', Blank(texts'))
  /\ UNCHANGED <<kind, sync, settler, editor, server, byOther, settled, again>>

\* "tasks.setCompleted" changes the row as it is now; ending its repetition is
\* a new revision as well.
Complete(id, stops) ==
  /\ Asked
  /\ task[id].pending # "delete"
  /\ Writes(InSight(task[id].text), task[id].text)
  /\ PutAndTouch(id, [task[id] EXCEPT !.text = texts', !.revision = IF stops THEN @ + 1 ELSE @])
  /\ UNCHANGED <<kind, lastId, sync, settler, editor, server, byOther, settled, again>>

\* A repeating task moves on to its next occurrence, and the one done is kept as
\* a new task, in one transaction.
CompleteOccurrence(id) ==
  /\ Asked
  /\ task[id].pending # "delete"
  /\ lastId < MaxRows /\ lastId' = lastId + 1
  /\ texts' = texts + 2
  /\ knows' = [knows EXCEPT ![texts + 2] = InSight(task[id].text)]
  /\ root' = [root EXCEPT ![texts + 2] = root[task[id].text]]
  /\ task' = [i \in DOMAIN task \cup {lastId'} |->
               IF i = lastId' THEN Touched(Blank(texts + 1))
               ELSE IF i = id THEN Touched([task[id] EXCEPT !.text = texts', !.revision = @ + 1])
               ELSE task[i]]
  /\ UNCHANGED <<kind, sync, settler, editor, server, byOther, settled, again, cut, faults>>

\* "tasks.get", to open the editor.
OpenEditor(id) ==
  /\ editor = NoEditor
  /\ asked < MaxEdits
  /\ task[id].pending # "delete"
  /\ editor' = [id |-> id, revision |-> task[id].revision, text |-> task[id].text]
  /\ UNCHANGED <<kind, task, lastId, sync, settler, server, ghosts, bounds>>

EditorCurrent ==
  /\ editor.id \in DOMAIN task
  /\ task[editor.id].pending # "delete"
  /\ task[editor.id].revision = editor.revision

\* "tasks.update": refused when the row is not the one that was read.
SaveEditor ==
  /\ editor # NoEditor
  /\ Asked
  /\ editor' = NoEditor
  /\ IF EditorCurrent
     THEN /\ Writes(InSight(editor.text), task[editor.id].text)
          /\ Put(editor.id, Touched([task[editor.id] EXCEPT !.text = texts', !.revision = @ + 1]))
     ELSE UNCHANGED <<task, knows, root, texts>>
  /\ UNCHANGED <<kind, lastId, sync, settler, server, byOther, settled, again, cut, faults>>

\* "tasks.delete": a row the server has stays, hidden, until it is deleted there.
Delete(id) ==
  /\ Asked
  /\ task[id].pending # "delete" \/ task[id].conflict # "none"
  /\ IF task[id].etag # 0
     THEN Put(id, [task[id] EXCEPT !.pending = "delete", !.seq = @ + 1])
     ELSE Drop(id)
  /\ UNCHANGED <<kind, lastId, sync, settler, editor, server, ghosts, faults>>

-----------------------------------------------------------------------------
(* A sync: the queue.                                                      *)

At(pc) == sync.pc = pc
Go(pc) == sync' = [sync EXCEPT !.pc = pc]

\* The queue: the rows that wait, as they were read; the lowest id goes next.
Queued == DOMAIN sync.queue
HeadId == Min(Queued)
Head1 == sync.queue[HeadId]
Rest == [i \in Queued \ {HeadId} |-> sync.queue[i]]
NextTask == sync' = [sync EXCEPT !.pc = "next", !.queue = Rest, !.said = "none", !.tag = 0]

\* The list holds a conflict: nothing of it is sent.
Blocked == \E i \in DOMAIN task :
  task[i].conflict \in IF kind = "ews" THEN Unsettled ELSE Unsettled \cup {"rejected"}

QueueOf == [i \in {i \in DOMAIN task : task[i].pending # "none"} |-> task[i]]

\* sync takes the lock; push reads the queue and whether the list is blocked.
SyncStart ==
  /\ At("idle")
  /\ sync' = IF Blocked THEN [NoSync EXCEPT !.pc = "list"]
                        ELSE [NoSync EXCEPT !.pc = "next", !.queue = QueueOf]
  /\ UNCHANGED <<kind, task, lastId, settler, editor, server, ghosts, bounds>>

\* After the last of the queue the list is read.
QueueDone ==
  /\ At("next") /\ Queued = {}
  /\ Go("list")
  /\ UNCHANGED <<kind, task, lastId, settler, editor, server, ghosts, bounds>>

\* A deletion of a task the server does not have: the row goes.
DropDeleted ==
  /\ At("next") /\ Queued # {} /\ kind = "caldav"
  /\ Head1.pending = "delete"
  /\ Head1.href = 0 \/ Head1.etag = 0
  /\ Drop(HeadId)
  /\ NextTask
  /\ UNCHANGED <<kind, lastId, settler, editor, server, ghosts, bounds>>

NewName == names < MaxNames /\ names' = names + 1

\* CalDAV, a new task: its place is chosen and kept before it is sent.
KeepPlace ==
  /\ At("next") /\ Queued # {} /\ kind = "caldav"
  /\ Head1.pending = "put" /\ Head1.href = 0
  /\ NewName
  /\ Update(HeadId, [task[HeadId] EXCEPT !.href = names'])
  /\ sync' = [sync EXCEPT !.pc = "send", !.queue[HeadId].href = names']
  /\ UNCHANGED <<kind, lastId, settler, editor, history, marked, ghosts, bounds>>

\* CalDAV, a task that has a place: it is written or deleted there.
HasPlace ==
  /\ At("next") /\ Queued # {} /\ kind = "caldav"
  /\ Head1.href # 0
  /\ Head1.pending = "put" \/ Head1.etag # 0
  /\ Go("send")
  /\ UNCHANGED <<kind, task, lastId, settler, editor, server, ghosts, bounds>>

\* Mutation: a lost answer is retried without a look.
Mutant_EwsFind ==
  /\ At("next") /\ Queued # {} /\ kind = "ews"
  /\ sync' = [sync EXCEPT !.pc = "route"]
  /\ UNCHANGED <<kind, task, lastId, settler, editor, server, ghosts, bounds>>

\* Exchange, a creation whose answer was lost: the task found by its marker is
\* taken as the one written, with its version.
EwsFind ==
  /\ At("next") /\ Queued # {} /\ kind = "ews"
  /\ LET found == {p \in Objects : Head1.marker # 0 /\ marked[p] = Head1.marker}
         adopted(row, p) == [row EXCEPT !.href = p, !.marker = 0, !.etag = Version(p)]
     IN  IF found = {}
         THEN Go("route") /\ UNCHANGED task
         ELSE \E p \in found :
                /\ Update(HeadId, adopted(task[HeadId], p))
                /\ sync' = [sync EXCEPT !.pc = "route", !.queue[HeadId] = adopted(Head1, p)]
  /\ UNCHANGED <<kind, lastId, settler, editor, server, ghosts, bounds>>

\* There is something to write, compared with the version last read.
Differs(row) == IF row.href = 0 THEN TRUE ELSE history[row.href][row.etag] # row.text

\* Exchange: what is to be done with the task at the head of the queue.  Its
\* fields are checked before anything is sent, and an update without a
\* difference is not sent.
EwsRoute ==
  /\ At("route")
  /\ LET row == Head1
         rejected == [task[HeadId] EXCEPT !.conflict = "rejected",
                                            !.marker = IF row.href = 0 THEN 0 ELSE @]
     IN  \/ /\ row.pending = "delete"
            /\ IF row.href = 0 THEN Drop(HeadId) /\ NextTask
                               ELSE Go("check") /\ UNCHANGED task
            /\ UNCHANGED names
         \/ /\ row.pending = "put" /\ row.text \in Unwritable
            /\ Differs(row)
            /\ Update(HeadId, rejected)
            /\ NextTask
            /\ UNCHANGED names
         \/ /\ row.pending = "put" /\ row.text \notin Unwritable /\ row.href = 0
            /\ IF row.marker # 0
               THEN Go("send") /\ UNCHANGED <<task, names>>
               ELSE /\ NewName
                    /\ Update(HeadId, [task[HeadId] EXCEPT !.marker = names'])
                    /\ sync' = [sync EXCEPT !.pc = "send", !.queue[HeadId].marker = names']
         \/ /\ row.pending = "put" /\ row.href # 0
            /\ row.text \in Unwritable => ~Differs(row)
            /\ Go(IF Differs(row) THEN "send" ELSE "readback")
            /\ UNCHANGED <<task, names>>
  /\ UNCHANGED <<kind, lastId, settler, editor, history, marked, ghosts, bounds>>

\* Exchange's delete_task reads the task first: DeleteItem does not compare.
EwsCheck ==
  /\ At("check")
  /\ sync' = CASE ~There(Head1.href) -> [sync EXCEPT !.pc = "answer", !.said = "saved"]
             [] Tag(Head1.href) # Head1.etag /\ There(Head1.href) ->
                  [sync EXCEPT !.pc = "answer", !.said = "conflict"]
             [] OTHER -> [sync EXCEPT !.pc = "send"]
  /\ UNCHANGED <<kind, task, lastId, settler, editor, server, ghosts, bounds>>

-----------------------------------------------------------------------------
(* A sync: the server, and its answers.                                    *)

Says(word, tag) == sync' = [sync EXCEPT !.pc = "answer", !.said = word, !.tag = tag]

\* CalDAV PUT: over the version named (If-Match), or where there is nothing
\* (If-None-Match).  The answer may come without the new version.
ServerPuts ==
  /\ At("send") /\ kind = "caldav" /\ Head1.pending = "put"
  /\ LET p == Head1.href IN
     IF Tag(p) = Head1.etag
     THEN /\ history' = [history EXCEPT ![p] = Append(@, Head1.text)]
          /\ \/ Says("saved", Version(p) + 1)
             \/ Says("saved", 0)
     ELSE Says("conflict", 0) /\ UNCHANGED history
  /\ UNCHANGED <<kind, task, lastId, settler, editor, marked, names, ghosts, bounds>>

\* CalDAV DELETE of the version named, Exchange's of whatever is there.
ServerDeletes ==
  /\ At("send") /\ Head1.pending = "delete"
  /\ LET p == Head1.href IN
     IF There(p) /\ (kind = "ews" \/ Version(p) = Head1.etag)
     THEN history' = [history EXCEPT ![p] = Append(@, 0)] /\ Says("saved", 0)
     ELSE Says(IF There(p) THEN "conflict" ELSE "saved", 0) /\ UNCHANGED history
  /\ UNCHANGED <<kind, task, lastId, settler, editor, marked, names, ghosts, bounds>>

\* Exchange CreateItem: a new object with our marker.
EwsCreates ==
  /\ At("send") /\ kind = "ews" /\ Head1.pending = "put" /\ Head1.href = 0
  /\ NewName
  /\ history' = [history EXCEPT ![names'] = Append(@, Head1.text)]
  /\ marked' = [marked EXCEPT ![names'] = Head1.marker]
  /\ sync' = [sync EXCEPT !.pc = "readback", !.queue[HeadId].href = names']
  /\ UNCHANGED <<kind, task, lastId, settler, editor, ghosts, bounds>>

\* Exchange UpdateItem with NeverOverwrite.
EwsUpdates ==
  /\ At("send") /\ kind = "ews" /\ Head1.pending = "put" /\ Head1.href # 0
  /\ LET p == Head1.href IN
     IF Tag(p) = Head1.etag
     THEN history' = [history EXCEPT ![p] = Append(@, Head1.text)] /\ Go("readback")
     ELSE Says("conflict", 0) /\ UNCHANGED history
  /\ UNCHANGED <<kind, task, lastId, settler, editor, marked, names, ghosts, bounds>>

\* Mutation: a change made while another was being sent is taken as sent.
Mutant_Sent(row) == "none"

\* pending after an answer: a change made here meanwhile stays.
Sent(row) == IF row.seq = Head1.seq THEN "none" ELSE row.pending

\* Exchange: the task just written is read, and kept as the version read
\* (written_here).  The fields here stay as they are.
EwsReadBack ==
  /\ At("readback")
  /\ LET p == Head1.href
         row == task[HeadId]
     IN  /\ There(p)
         /\ Update(HeadId,
              [row EXCEPT !.href = p, !.marker = 0, !.etag = Version(p), !.pending = Sent(row),
                          !.conflict = IF @ = "rejected" THEN "none" ELSE @])
  /\ NextTask
  /\ UNCHANGED <<kind, lastId, settler, editor, server, ghosts, bounds>>

\* The task just written is gone already: the sync fails.
EwsReadBackGone ==
  /\ At("readback") /\ ~There(Head1.href)
  /\ sync' = NoSync
  /\ UNCHANGED <<kind, task, lastId, settler, editor, server, ghosts, bounds>>

\* The answer to a write.  A refusal stops the queue.
Answer ==
  /\ At("answer")
  /\ LET row == task[HeadId] IN
     \/ /\ sync.said = "conflict"
        /\ Update(HeadId, [row EXCEPT !.conflict = "changed"])
        /\ sync' = [NoSync EXCEPT !.pc = "list"]
     \/ /\ sync.said = "saved" /\ Head1.pending = "delete"
        /\ IF HeadId \in DOMAIN task /\ row.pending = "delete" THEN Drop(HeadId) ELSE UNCHANGED task
        /\ NextTask
     \/ /\ sync.said = "saved" /\ Head1.pending = "put"
        /\ Update(HeadId, [row EXCEPT !.etag = sync.tag, !.pending = Sent(row)])
        /\ NextTask
  /\ UNCHANGED <<kind, lastId, settler, editor, server, ghosts, bounds>>

-----------------------------------------------------------------------------
(* A sync: the list is read and reconciled.                                *)

\* CalDAV: one request, all or nothing.
List ==
  /\ At("list") /\ kind = "caldav"
  /\ sync' = [NoSync EXCEPT !.pc = "reconcile", !.listing = [p \in Names |-> Tag(p)]]
  /\ UNCHANGED <<kind, task, lastId, settler, editor, server, ghosts, bounds>>

\* Exchange: page by page.  A page may miss a task when another goes meanwhile.
EwsList ==
  /\ At("list") /\ kind = "ews"
  /\ \E missed \in SUBSET Objects :
       /\ missed # {} => \E p \in Names : history[p] # <<>> /\ ~There(p)
       /\ sync' = [NoSync EXCEPT !.pc = "missing",
                      !.listing = [p \in Names |-> IF p \in missed THEN 0 ELSE Tag(p)]]
  /\ UNCHANGED <<kind, task, lastId, settler, editor, server, ghosts, bounds>>

\* Exchange: what is known here and was not listed is asked for by its id.
EwsMissing ==
  /\ At("missing")
  /\ LET known == Hrefs IN
     sync' = [sync EXCEPT !.pc = "reconcile",
                !.listing = [p \in Names |-> IF @[p] = 0 /\ p \in known THEN Tag(p) ELSE @[p]]]
  /\ UNCHANGED <<kind, task, lastId, settler, editor, server, ghosts, bounds>>

\* A row whose creation's answer was lost, and the listed object that is it.
Adopts(i, p) == task[i].marker # 0 /\ marked[p] = task[i].marker /\ sync.listing[p] # 0

Gone(row) ==
  /\ row.href # 0 /\ sync.listing[row.href] = 0
  /\ row.pending \in {"none", "delete"}

\* Mutation: a pending change takes the version that was read.
Mutant_Reconciled(i) ==
  LET row == task[i]
      tag == IF row.href = 0 THEN 0 ELSE sync.listing[row.href]
  IN  IF tag # 0 /\ tag # row.etag
      THEN IF row.pending = "none" THEN Taken(row, row.href, tag) ELSE [row EXCEPT !.etag = tag]
      ELSE row

\* What becomes of a row that stays.
Reconciled(i) ==
  LET row == task[i]
      tag == IF row.href = 0 THEN 0 ELSE sync.listing[row.href]
      ours == {p \in Names : Adopts(i, p)}
  IN  CASE row.href = 0 /\ ours # {} ->
             LET p == CHOOSE p \in ours : TRUE
             IN  [row EXCEPT !.href = p, !.marker = 0, !.etag = sync.listing[p]]
        [] row.href = 0 /\ ours = {} -> row
        [] tag # 0 /\ tag = row.etag -> row
        [] tag # 0 /\ tag # row.etag /\ row.pending = "none" -> Taken(row, row.href, tag)
        [] tag # 0 /\ tag # row.etag /\ row.pending # "none" -> [row EXCEPT !.conflict = "changed"]
        [] tag = 0 /\ row.href # 0 /\ kind = "caldav" /\ row.etag = 0 /\ row.conflict = "none" -> row
        [] OTHER -> [row EXCEPT !.conflict = "deleted"]

\* reconcile, one transaction.  New objects come in the order of the listing.
Reconcile ==
  /\ At("reconcile")
  /\ LET known == Hrefs
         new == {p \in Names : /\ sync.listing[p] # 0 /\ p \notin known
                               /\ \A i \in DOMAIN task : ~Adopts(i, p)}
         stay == {i \in DOMAIN task : ~Gone(task[i])}
     IN  \E order \in SetToSeqs(new) :
         /\ lastId' = lastId + Cardinality(new)
         /\ lastId' <= MaxRows
         /\ task' = [i \in stay \cup (lastId + 1 .. lastId') |->
                       IF i \in stay THEN Reconciled(i)
                       ELSE Copy(order[i - lastId], sync.listing[order[i - lastId]])]
  /\ sync' = NoSync
  /\ UNCHANGED <<kind, settler, editor, server, ghosts, bounds>>

-----------------------------------------------------------------------------
(* A conflict is settled, without the lock the syncs share.                *)

\* "tasks.resolveConflict" reads the row.  The interface offers no choice for a
\* rejected change, nor a second one while the first is carried out.
SettleAsk(id, keep) ==
  /\ settler.pc = "idle"
  /\ Asked
  /\ task[id].conflict \in Unsettled
  /\ settler' = [pc |-> "get", id |-> id, keep |-> keep, was |-> task[id].pending,
                 href |-> task[id].href, got |-> 0]
  /\ UNCHANGED <<kind, task, lastId, sync, editor, server, ghosts, faults>>

\* It reads the server's copy.
SettleGet ==
  /\ settler.pc = "get"
  /\ settler' = [settler EXCEPT !.pc = "write", !.got = IF settler.href = 0 THEN 0 ELSE Tag(settler.href)]
  /\ UNCHANGED <<kind, task, lastId, sync, editor, server, ghosts, bounds>>

\* Mine, over the copy that was read.
Requeued(row) ==
  [row EXCEPT !.etag = settler.got, !.conflict = "none", !.seq = @ + 1,
              !.pending = IF @ = "none" THEN "put" ELSE @]

\* Mine, where the server has nothing any more.
MadeAgain(row) ==
  [row EXCEPT !.etag = 0, !.conflict = "none", !.pending = "put", !.seq = @ + 1,
              !.href = IF kind = "ews" THEN 0 ELSE @, !.marker = IF kind = "ews" THEN 0 ELSE @]

\* And writes the choice.
SettleWrite ==
  /\ settler.pc = "write"
  /\ LET id == settler.id
         row == task[id]
         there == settler.got # 0
         seen == {history[settler.href][settler.got]} \cap byOther
     IN  \/ /\ settler.keep = "server" /\ there
            /\ Update(id, Taken(row, settler.href, settler.got))
            /\ UNCHANGED <<settled, again>>
         \/ /\ settler.keep = "mine" /\ there
            /\ Update(id, Requeued(row))
            /\ settled' = settled \cup seen
            /\ UNCHANGED again
         \/ /\ ~there /\ (settler.keep = "server" \/ settler.was = "delete")
            /\ Drop(id)
            /\ UNCHANGED <<settled, again>>
         \/ /\ ~there /\ settler.keep = "mine" /\ settler.was # "delete"
            /\ Update(id, MadeAgain(row))
            /\ again' = IF kind = "ews" /\ id \in DOMAIN task THEN again \cup {root[row.text]} ELSE again
            /\ UNCHANGED settled
  /\ settler' = NoSettler
  /\ UNCHANGED <<kind, lastId, sync, editor, server, byOther, knows, cut, root, texts, bounds>>

-----------------------------------------------------------------------------
(* Other clients, and faults.                                              *)

OtherWrites(p, of) ==
  /\ Cardinality(byOther) < MaxOthers
  /\ Writes({}, of)
  /\ byOther' = byOther \cup {texts'}
  /\ history' = [history EXCEPT ![p] = Append(@, texts')]
  /\ UNCHANGED <<kind, task, lastId, sync, settler, editor, marked, settled, again, cut, bounds>>

OtherCreates == NewName /\ OtherWrites(names', 0)
OtherEdits(p) == There(p) /\ OtherWrites(p, Last(history[p])) /\ UNCHANGED names

OtherDeletes(p) ==
  /\ There(p) /\ faults < MaxFaults
  /\ faults' = faults + 1
  /\ history' = [history EXCEPT ![p] = Append(@, 0)]
  /\ UNCHANGED <<kind, task, lastId, sync, settler, editor, marked, names, ghosts, asked>>

\* A request or an answer is lost, or the server or the store fails: the sync ends.
SyncFails ==
  /\ sync.pc # "idle" /\ faults < MaxFaults
  /\ faults' = faults + 1
  /\ sync' = NoSync
  /\ UNCHANGED <<kind, task, lastId, settler, editor, server, ghosts, asked>>

\* The process ends.  What it had in memory is gone.
Crash ==
  /\ faults < MaxFaults
  /\ faults' = faults + 1
  /\ sync' = NoSync /\ settler' = NoSettler /\ editor' = NoEditor
  /\ UNCHANGED <<kind, task, lastId, server, ghosts, asked>>

Person ==
  \/ Create \/ SaveEditor \/ SettleGet \/ SettleWrite
  \/ \E id \in DOMAIN task :
       \/ CompleteOccurrence(id) \/ OpenEditor(id) \/ Delete(id)
       \/ \E stops \in BOOLEAN : Complete(id, stops)
       \/ \E keep \in {"mine", "server"} : SettleAsk(id, keep)

Syncs ==
  \/ SyncStart \/ QueueDone \/ DropDeleted \/ KeepPlace \/ HasPlace
  \/ EwsFind \/ EwsRoute \/ EwsCheck \/ EwsReadBack \/ EwsReadBackGone \/ Answer
  \/ List \/ EwsList \/ EwsMissing \/ Reconcile

Server ==
  \/ ServerPuts \/ ServerDeletes \/ EwsCreates \/ EwsUpdates
  \/ OtherCreates \/ \E p \in Names : OtherEdits(p) \/ OtherDeletes(p)

Next == Person \/ Syncs \/ Server \/ SyncFails \/ Crash

Spec == Init /\ [][Next]_vars

-----------------------------------------------------------------------------
(* Properties.                                                             *)

\* The store and the tasks of the process.
TypeStore ==
  /\ lastId \in 0 .. MaxRows
  /\ task \in [DOMAIN task -> Row] /\ DOMAIN task \subseteq 1 .. lastId
TypeSync ==
  /\ sync \in [pc: {"idle", "next", "route", "check", "send", "readback", "answer",
                    "list", "missing", "reconcile"},
               queue: {sync.queue}, said: {"none", "saved", "conflict"}, tag: Nat,
               listing: [Names -> Nat]]
  /\ sync.queue \in [Queued -> Row] /\ Queued \subseteq 1 .. lastId
TypeBeside ==
  /\ settler \in [pc: {"idle", "get", "write"}, id: 0 .. lastId, keep: {"none", "mine", "server"},
                  was: {"none", "put", "delete"}, href: Names \cup {0}, got: Nat]
  /\ editor \in [id: 0 .. lastId, revision: Nat, text: Texts \cup {0}]
  /\ editor.id # 0 => editor.text # 0

\* The server.
TypeServer ==
  /\ history \in [Names -> Seq(Texts \cup {0})]
  /\ marked \in [Names -> Names \cup {0}]
  /\ names \in 0 .. MaxNames

\* What was written by whom, and the bounds on what is ever made.
TypeGhosts ==
  /\ byOther \in SUBSET Texts /\ Cardinality(byOther) <= MaxOthers
  /\ knows \in [Texts -> SUBSET Texts] /\ root \in [Texts -> Texts]
  /\ settled \in SUBSET Texts /\ again \in SUBSET Texts /\ cut \in SUBSET Texts
  /\ asked \in 0 .. MaxEdits /\ faults \in 0 .. MaxFaults
  /\ texts \in Nat /\ texts <= 2 * asked + Cardinality(byOther)

\* Types.
TypeOK == kind \in Kinds /\ TypeStore /\ TypeSync /\ TypeBeside /\ TypeServer /\ TypeGhosts

\* The objects this client replaces or deletes in a step.
Overwritten == {p \in Names : There(p) /\ history'[p] # history[p] /\ byOther' = byOther /\ faults' = faults}

KnownBySender(p) == Last(history[p]) \in byOther => Last(history[p]) \in InSight(Head1.text) \cup settled

\* Nothing another client wrote is replaced or deleted on a CalDAV server unless
\* the change sent was made in sight of it, or the person chose against it:
\* through retries, edits while sending, choices and restarts.
NoSilentOverwrite == [][kind = "caldav" => \A p \in Overwritten : KnownBySender(p)]_vars

\* A CalDAV task with nothing pending says here what the version it names said
\* on the server, unless its last change was cut short before the row was marked
\* as waiting.
CleanIsTheServers ==
  kind = "caldav" =>
    \A i \in DOMAIN task :
      task[i].pending = "none" /\ task[i].etag # 0 =>
        task[i].text = history[task[i].href][task[i].etag] \/ task[i].text \in cut

\* A task has one object on the server and one row here, however often the
\* answer to its creation was lost, and an object has one row.  A task that was
\* deleted on Exchange and that the person had made again is another task there,
\* and is not counted.
NoSecondCopy ==
  /\ \A p, q \in Objects :
       p # q => \/ root[Last(history[p])] # root[Last(history[q])]
                \/ root[Last(history[p])] \in again
  /\ \A i, j \in DOMAIN task :
       i # j => /\ task[i].href # 0 => task[i].href # task[j].href
                /\ root[task[i].text] # root[task[j].text] \/ root[task[i].text] \in again

\* A change made here stops waiting only when the server took it, when the person
\* deletes the task, or chooses the server's copy.  One cut short while an earlier
\* change of the same row was waiting stops with that one.
EditNotLost ==
  [][\A i \in DOMAIN task :
       /\ task[i].pending = "put"
       /\ i \notin DOMAIN task' \/ task'[i].pending = "none"
       => \/ Delete(i)
          \/ SettleWrite /\ settler.id = i /\ settler.keep = "server"
          \/ task[i].text \in cut
          \/ \E p \in Names : task[i].text \in Range(history[p])]_vars

\* Nothing another client wrote is replaced in an Exchange list unless the change
\* sent was made in sight of it: "nothing is merged silently".  A deletion, which
\* only moves the task to Deleted Items, is not counted.
NothingMergedSilently ==
  [][kind = "ews" => \A p \in Overwritten : There(p)' => KnownBySender(p)]_vars

=============================================================================
