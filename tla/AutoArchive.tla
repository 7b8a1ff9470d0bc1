----------------------------- MODULE AutoArchive -----------------------------
(***************************************************************************)
(* Automatic archiving by age (auto_archive/mod.rs): one folder of an IMAP *)
(* account, its policy, and the run that carries the policy out.           *)
(*                                                                         *)
(* A run asks the server what is old, and then either moves it to the      *)
(* account's Archive folder or, message by message, copies it to the local *)
(* archive, compares the copy with the server's bytes, and removes what    *)
(* was compared from the server.  A journal says how far each message got. *)
(* Every command to the server and every critical section of the store is  *)
(* an action; a crash, another client or the person may come in between.   *)
(*                                                                         *)
(* A message stands for its bytes: two uids may hold the same one.  Dates  *)
(* are abstracted to Old, unread and starred to one flag that keeps a      *)
(* message where it is, and a run to one chunk.  The clock of the schedule *)
(* is left out: a run may start whenever the policy lets it.  So are       *)
(* folders that are renamed meanwhile, and accounts that are removed.      *)
(***************************************************************************)
EXTENDS Naturals, FiniteSets, FiniteSetsExt, Functions

CONSTANTS
  Messages, None,
  Damaged,    \* what a copy that does not match is read back as
  Old,        \* messages of the age the policy asks for
  HasId,      \* messages that have a Message-ID
  Uids,       \* of the folder
  MaxLocal,   \* bound: uids of the local archive's folder
  MaxEvents,  \* bound: what other clients and the person do to the mail
  MaxSaves,   \* bound: changes of the policy, and previews
  MaxFaults   \* bound: crashes, and steps that fail

ASSUME ArchiveAssumption ==
  /\ None \notin Messages /\ Damaged \notin Messages /\ None # Damaged
  /\ Old \subseteq Messages /\ HasId \subseteq Messages
  /\ Uids \subseteq Nat /\ MaxLocal \in Nat

LocalUids == 1 .. MaxLocal

\* What decides what moves and where; its fingerprint is the policy itself.  The
\* server's copy can be kept only when the local archive is the destination.
Policies ==
  {p \in [dest : {"server", "local"}, keep : BOOLEAN] : p.keep => p.dest = "local"}

VARIABLES
  \* The server
  folder, flagged,
  archive,    \* messages of its Archive folder
  \* The store
  local,      \* the local archive's folder
  journal,    \* auto_archive_items of the folder
  policy, on,
  confirmed,  \* the confirmed fingerprint
  \* The process
  run,
  \* History
  had,        \* messages that were in the folder
  seen,       \* policies that were previewed
  discarded,  \* messages somebody removed
  shifted,    \* uids were given anew under a run that had chosen some
  \* Bounds
  events, saves, faults

server  == <<folder, flagged, archive>>
store   == <<local, journal>>
choice  == <<policy, on, confirmed, seen>>
history == <<had, discarded, shifted>>
bounds  == <<events, saves, faults>>
vars    == <<server, store, choice, run, history, bounds>>

NoRow == [stage |-> None]
Idle ==
  [pc |-> "idle", policy |-> None, todo |-> {}, ids |-> [u \in {} |-> None], verified |-> {},
   uid |-> 0, raw |-> None, at |-> 0]

Id(m) == IF m \in HasId THEN m ELSE None

Init ==
  /\ folder \in [Uids -> Messages \cup {None}] /\ flagged = {} /\ archive = {}
  /\ local = [l \in LocalUids |-> None] /\ journal = [u \in Uids |-> NoRow]
  /\ policy \in Policies /\ on = TRUE /\ confirmed = policy /\ seen = {policy}
  /\ run = Idle
  /\ had = Range(folder) \ {None} /\ discarded = {} /\ shifted = FALSE
  /\ events = 0 /\ saves = 0 /\ faults = 0

Fault == faults < MaxFaults /\ faults' = faults + 1 /\ UNCHANGED <<events, saves>>
Works == UNCHANGED bounds

-----------------------------------------------------------------------------
(* The policy.                                                             *)

\* autoArchive.preview: what the policy would move is shown, with its fingerprint.
Preview(p) ==
  /\ p \notin seen /\ Cardinality(seen) <= MaxSaves
  /\ seen' = seen \cup {p}
  /\ UNCHANGED <<server, store, policy, on, confirmed, run, history, bounds>>

\* Mutation: a confirmation is carried over to what the policy is changed to.
Mutant_Confirmation(p, token) == IF token # None \/ confirmed # None THEN p ELSE None

\* What counts as confirmed after a save.
Confirmation(p, token) ==
  IF token # None THEN p ELSE IF confirmed = p THEN p ELSE None

\* save: a confirmation must be of this policy, and one is needed to turn it on.
Save(p, enabled, token) ==
  /\ saves < MaxSaves /\ saves' = saves + 1
  /\ token # None => token = p
  /\ enabled => Confirmation(p, token) # None
  /\ policy' = p /\ on' = enabled /\ confirmed' = Confirmation(p, token)
  /\ UNCHANGED <<server, store, seen, run, history, events, faults>>

-----------------------------------------------------------------------------
(* A run: plan.                                                            *)

is_confirmed == confirmed # None /\ confirmed = policy

\* One run at a time, of a policy that is confirmed.
RunStart ==
  /\ run = Idle /\ is_confirmed
  /\ run' = [Idle EXCEPT !.pc = "search", !.policy = policy]
  /\ UNCHANGED <<server, store, choice, history, bounds>>

\* The schedule's runs also need the policy to be on.
Scheduled == on /\ RunStart

\* The server is asked for what may be old enough.  A run that cannot look ends.
Search ==
  /\ run.pc = "search"
  /\ \/ /\ run' = [run EXCEPT !.pc = "headers", !.todo = {u \in Uids : folder[u] # None}]
        /\ Works
     \/ run' = Idle /\ Fault
  /\ UNCHANGED <<server, store, choice, history>>

\* Already archived with the server's copy kept.
KeptAlready(u) == journal[u].stage = "kept" /\ journal[u].id = Id(folder[u])

\* Mutation: whatever the journal knows of is left alone.
Mutant_Selected(p, found) ==
  {u \in found : /\ folder[u] \in Old
                 /\ u \notin flagged
                 /\ journal[u] = NoRow}

\* select, and what plan leaves out.
Selected(p, found) ==
  {u \in found : /\ folder[u] \in Old
                 /\ u \notin flagged
                 /\ ~(p.keep /\ KeptAlready(u))}

\* The headers of what was found decide.
Headers ==
  /\ run.pc = "headers"
  /\ \/ LET chosen == Selected(run.policy, run.todo) IN
          /\ run' = IF chosen = {} THEN Idle
                    ELSE [run EXCEPT !.pc = IF run.policy.dest = "local" THEN "fetch" ELSE "move",
                                     !.todo = chosen, !.ids = [u \in chosen |-> Id(folder[u])]]
          /\ Works
     \/ run' = Idle /\ Fault
  /\ UNCHANGED <<server, store, choice, history>>

-----------------------------------------------------------------------------
(* A run: to the local archive.                                            *)

Cleared(uids) == [u \in Uids |-> IF u \in uids THEN NoRow ELSE journal[u]]

\* The run is done with a message, for better or worse.
NextOne(r) == [r EXCEPT !.pc = "fetch", !.uid = 0, !.raw = None, !.at = 0]

\* The message's bytes are read, as they are now; or it is gone.
Fetch ==
  /\ run.pc = "fetch" /\ run.todo # {}
  /\ LET u == Min(run.todo)
         rest == [run EXCEPT !.todo = @ \ {u}] IN
       \/ /\ folder[u] # None
          /\ run' = [rest EXCEPT !.pc = "look", !.uid = u, !.raw = folder[u]]
          /\ Works /\ UNCHANGED journal
       \/ /\ folder[u] = None /\ run' = rest
          /\ (journal' = Cleared({u}) /\ Works) \/ (UNCHANGED journal /\ Fault)
       \/ run' = rest /\ Fault /\ UNCHANGED journal
  /\ UNCHANGED <<server, local, choice, history>>

\* The local copy the journal names.
Named(u) == IF journal[u] = NoRow THEN 0 ELSE journal[u].at

\* Mutation: the copy the journal names is taken without reading it.
Mutant_Existing(u, id, raw) ==
  IF journal[u] # NoRow THEN {Named(u)}
  ELSE {l \in LocalUids : local[l] = raw /\ id # None /\ Id(local[l]) = id}

\* Mutation: only the journal is asked.
Mutant_Existing_journal(u, id, raw) ==
  {l \in LocalUids : local[l] = raw /\ l = Named(u)}

\* Copies of the same bytes that the journal or the Message-ID of the plan leads to.
Existing(u, id, raw) ==
  {l \in LocalUids :
     /\ local[l] = raw
     /\ l = Named(u) \/ (id # None /\ Id(local[l]) = id)}

\* A copy from an earlier run is taken, the journal's first, else one is to be made.
Look ==
  /\ run.pc = "look"
  /\ LET copies == Existing(run.uid, run.ids[run.uid], run.raw) IN
       \/ /\ run' = IF copies = {} THEN [run EXCEPT !.pc = "store"]
                    ELSE [run EXCEPT !.pc = "verify",
                                     !.at = IF Named(run.uid) \in copies THEN Named(run.uid) ELSE Min(copies)]
          /\ Works
       \/ run' = NextOne(run) /\ Fault
  /\ UNCHANGED <<server, store, choice, history>>

\* next_uid: one more than the highest in use.
next_uid == 1 + Max({l \in LocalUids : local[l] # None} \cup {0})

\* store_message is one transaction.
Store ==
  /\ run.pc = "store"
  /\ \/ /\ next_uid \in LocalUids
        /\ \/ local' = [local EXCEPT ![next_uid] = run.raw] /\ Works
           \/ local' = [local EXCEPT ![next_uid] = Damaged] /\ Fault
        /\ run' = [run EXCEPT !.pc = "note", !.at = next_uid]
     \/ run' = NextOne(run) /\ Fault /\ UNCHANGED local
  /\ UNCHANGED <<server, journal, choice, history>>

Row(stage) == [stage |-> stage, id |-> run.ids[run.uid], at |-> run.at]

Note ==
  /\ run.pc = "note"
  /\ \/ /\ journal' = [journal EXCEPT ![run.uid] = Row("copied")]
        /\ run' = [run EXCEPT !.pc = "check"] /\ Works
     \/ run' = NextOne(run) /\ Fault /\ UNCHANGED journal
  /\ UNCHANGED <<server, local, choice, history>>

\* The copy is read back and compared.
Check ==
  /\ run.pc = "check"
  /\ \/ run' = [run EXCEPT !.pc = IF local[run.at] = run.raw THEN "verify" ELSE "discard"] /\ Works
     \/ run' = [run EXCEPT !.pc = "discard"] /\ Fault
  /\ UNCHANGED <<server, store, choice, history>>

\* A copy that does not match goes, and then its row; neither failure is looked at.
Discard ==
  /\ run.pc = "discard"
  /\ (local' = [local EXCEPT ![run.at] = None] /\ Works) \/ (UNCHANGED local /\ Fault)
  /\ run' = [run EXCEPT !.pc = "clear"]
  /\ UNCHANGED <<server, journal, choice, history>>

ClearRow ==
  /\ run.pc = "clear"
  /\ (journal' = Cleared({run.uid}) /\ Works) \/ (UNCHANGED journal /\ Fault)
  /\ run' = NextOne(run)
  /\ UNCHANGED <<server, local, choice, history>>

Verify ==
  /\ run.pc = "verify"
  /\ \/ /\ journal' = [journal EXCEPT ![run.uid] = Row("verified")]
        /\ run' = NextOne([run EXCEPT !.verified = @ \cup {run.uid}]) /\ Works
     \/ run' = NextOne(run) /\ Fault /\ UNCHANGED journal
  /\ UNCHANGED <<server, local, choice, history>>

\* Every message was looked at: what was compared is kept, or is to be removed.
ChunkEnd ==
  /\ run.pc = "fetch" /\ run.todo = {}
  /\ IF run.verified # {} /\ ~run.policy.keep
     THEN run' = [run EXCEPT !.pc = "delete"] /\ UNCHANGED journal /\ Works
     ELSE /\ run' = Idle
          /\ \/ /\ journal' = [u \in Uids |-> IF u \in run.verified /\ journal[u] # NoRow
                                             THEN [journal[u] EXCEPT !.stage = "kept"] ELSE journal[u]]
                /\ Works
             \/ run.verified # {} /\ UNCHANGED journal /\ Fault
  /\ UNCHANGED <<server, local, choice, history>>

Without(uids) == [u \in Uids |-> IF u \in uids THEN None ELSE folder[u]]

\* expunge_uids on the uids that were compared.  When it fails the server may have
\* removed any of them; the rows then stay.
Delete ==
  /\ run.pc = "delete"
  /\ \/ folder' = Without(run.verified) /\ run' = [run EXCEPT !.pc = "settle"] /\ Works
     \/ /\ \E done \in SUBSET run.verified : folder' = Without(done)
        /\ run' = Idle /\ Fault
  /\ UNCHANGED <<flagged, archive, store, choice, history>>

Settle ==
  /\ run.pc = "settle"
  /\ (journal' = Cleared(run.verified) /\ Works) \/ (UNCHANGED journal /\ Fault)
  /\ run' = Idle
  /\ UNCHANGED <<server, local, choice, history>>

-----------------------------------------------------------------------------
(* A run: to the server's Archive folder.                                  *)

InFolder(uids) == {folder[u] : u \in uids} \ {None}

\* UID MOVE, or a copy that is followed by a removal when the server does not say, or
\* cannot be heard to say, that it can move.
Move ==
  /\ run.pc = "move"
  /\ \/ /\ archive' = archive \cup InFolder(run.todo)
        /\ \/ folder' = Without(run.todo) /\ run' = Idle
           \/ run' = [run EXCEPT !.pc = "remove"] /\ UNCHANGED folder
        /\ Works
     \/ run' = Idle /\ Fault /\ UNCHANGED <<folder, archive>>
  /\ UNCHANGED <<flagged, store, choice, history>>

Remove ==
  /\ run.pc = "remove"
  /\ (folder' = Without(run.todo) /\ Works) \/ (UNCHANGED folder /\ Fault)
  /\ run' = Idle
  /\ UNCHANGED <<flagged, archive, store, choice, history>>

-----------------------------------------------------------------------------
(* Everybody else.                                                         *)

Event == events < MaxEvents /\ events' = events + 1 /\ UNCHANGED <<saves, faults>>

\* A message is marked, or unmarked.
OtherFlags(u) ==
  /\ folder[u] # None /\ Event
  /\ flagged' = IF u \in flagged THEN flagged \ {u} ELSE flagged \cup {u}
  /\ UNCHANGED <<folder, archive, store, choice, run, history>>

\* A message is removed from the folder by another client or by the person.
OtherRemoves(u) ==
  /\ folder[u] # None /\ Event
  /\ folder' = Without({u}) /\ discarded' = discarded \cup {folder[u]}
  /\ UNCHANGED <<flagged, archive, store, choice, run, had, shifted>>

\* The person removes a copy from the local archive.
LocalRemoved(l) ==
  /\ local[l] \in Messages /\ Event
  /\ local' = [local EXCEPT ![l] = None] /\ discarded' = discarded \cup {local[l]}
  /\ UNCHANGED <<server, journal, choice, run, had, shifted>>

\* The server gives the folder's messages other uids.
Rebuilt ==
  /\ Event
  /\ \E p \in Bijection(Uids, Uids) :
       /\ folder' = [u \in Uids |-> folder[p[u]]] /\ folder' # folder
       /\ flagged' = {u \in Uids : p[u] \in flagged}
  /\ shifted' = (shifted \/ run.pc \notin {"idle", "search", "headers"})
  /\ UNCHANGED <<archive, store, choice, run, had, discarded>>

Crash ==
  /\ run # Idle /\ Fault
  /\ run' = Idle
  /\ UNCHANGED <<server, store, choice, history>>

-----------------------------------------------------------------------------
RunStep ==
  \/ Search \/ Headers \/ Fetch \/ Look \/ Store \/ Note \/ Check \/ Discard \/ ClearRow
  \/ Verify \/ ChunkEnd \/ Delete \/ Settle \/ Move \/ Remove

Others ==
  \/ \E u \in Uids : OtherFlags(u) \/ OtherRemoves(u)
  \/ \E l \in LocalUids : LocalRemoved(l)
  \/ Rebuilt

Next ==
  \/ \E p \in Policies : Preview(p) \/ \E e \in BOOLEAN, t \in seen \cup {None} : Save(p, e, t)
  \/ RunStart
  \/ RunStep
  \/ Others
  \/ Crash

\* The ticker comes round while the application is open, and every step of a run
\* ends or times out.
Spec == Init /\ [][Next]_vars /\ WF_vars(RunStep) /\ WF_vars(Scheduled)

-----------------------------------------------------------------------------
(* Properties.                                                             *)

Rows ==
  {NoRow} \cup
    [stage : {"copied", "verified", "kept"}, id : Messages \cup {None}, at : LocalUids]
IdMaps == UNION {[uids -> Messages \cup {None}] : uids \in SUBSET Uids}
Runs ==
  [pc : {"idle", "search", "headers", "fetch", "look", "store", "note", "check", "discard", "clear",
         "verify", "delete", "settle", "move", "remove"},
   policy : Policies \cup {None}, todo : SUBSET Uids,
   ids : IdMaps, verified : SUBSET Uids,
   uid : Uids \cup {0}, raw : Messages \cup {None}, at : {0} \cup LocalUids]

\* The server, the store, the policy and the run keep their types.
TypeOK ==
  /\ folder \in [Uids -> Messages \cup {None}] /\ flagged \subseteq Uids /\ archive \subseteq Messages
  /\ local \in [LocalUids -> Messages \cup {None, Damaged}] /\ journal \in [Uids -> Rows]
  /\ policy \in Policies /\ on \in BOOLEAN /\ confirmed \in Policies \cup {None}
  /\ seen \subseteq Policies
  /\ run \in Runs
  /\ had \subseteq Messages /\ discarded \subseteq Messages /\ shifted \in BOOLEAN
  /\ events \in Nat /\ saves \in Nat /\ faults \in Nat

\* A message nobody removed is on the server or intact in the local archive, through
\* crashes, failing steps, damaged copies, and uids that come to name other messages
\* between runs.  (When they do so within a run, after it chose, expunge_uids removes
\* whatever the uids name by then.)
NeverLost ==
  ~shifted =>
    had \subseteq archive \cup Range(folder) \cup Range(local) \cup discarded

\* No message that has a Message-ID gets a second copy in the local archive, wherever
\* a run is cut short.
NoSecondLocalCopy ==
  ~shifted => \A m \in HasId : Cardinality({l \in LocalUids : local[l] = m}) <= 1

\* What a run carries out was previewed, however often the policy is changed, turned
\* off and on, and confirmed in between.
MovesWereSeen == run # Idle => run.policy \in seen

\* What the policy asks for is archived in the end: an interrupted run is finished by
\* a later one, whatever it left in the journal and in the local archive.
Ready(m) ==
  on /\ ~policy.keep /\ m \in Old /\ \E u \in Uids \ flagged : folder[u] = m
Finishes == \A m \in Messages : Ready(m) ~> ~Ready(m)

=============================================================================
