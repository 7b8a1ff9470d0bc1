------------------------------- MODULE MailSync -------------------------------
(***************************************************************************)
(* The Inbox of an IMAP account and its copy in the store: sync_messages   *)
(* (engine.rs), the two tasks that run it, what they do with mail that has *)
(* arrived, and the requests of the person that change the server first    *)
(* and the store after it (main.rs).                                       *)
(*                                                                         *)
(* "refresh" is the background sync a view asks for (run_message_sync);    *)
(* "watch" is the IDLE watcher of the folder, or the periodic check when   *)
(* no watcher runs.  They share the store, one lock around each of their   *)
(* accesses to it, and between those the server changes.                   *)
(*                                                                         *)
(* A message stands for its Message-ID; \Seen stands for both flags.  The  *)
(* server has CONDSTORE.  A rebuilt mailbox numbers its messages from 1    *)
(* under a new UIDVALIDITY.                                                *)
(***************************************************************************)
EXTENDS Naturals, FiniteSets

CONSTANTS
  Limit,       \* messages the window of a sync covers
  Backlog,     \* messages on the server before the account is added
  Gone,        \* uids of messages that were removed before them
  Poison,      \* messages whose FETCH answer cannot be parsed
  MaxMsgs,     \* bound: messages
  MaxSyncs,    \* bound: syncs
  MaxEvents    \* bound: requests of the person, changes by other clients, times the
               \* mailbox is rebuilt, failed commands, lost answers, ends of the process

Msgs == 1 .. MaxMsgs
Uids == 1 .. (Gone + MaxMsgs)
Syncers == {"refresh", "watch"}

ASSUME MailSyncBounds ==
  /\ Limit \in Nat \ {0} /\ Backlog \in 0 .. MaxMsgs /\ Poison \subseteq Msgs
  /\ \A b \in {Gone, MaxMsgs, MaxSyncs, MaxEvents} : b \in Nat

VARIABLES
  \* The server's mailbox
  mail,        \* uid -> [msg, seen, mod]
  uidNext, validity, modseq, delivered,
  \* The store
  rows,        \* uid -> [msg, seen]
  state,       \* folder_state: [validity, uidNext, modseq]
  observed,    \* observed_mail_identities
  \* The process
  claimed,     \* whose claim of the Inbox engine.syncing has
  sync,        \* of each task
  op,          \* the person's request in progress
  \* How often a message went through the rules and was announced
  ruled, told,
  \* History: syncs nothing has interfered with, and whether one wrote what it had read
  \* of a mailbox that was rebuilt since, or left rows of an earlier one beside its own
  quiet, outdated,
  \* Bounds
  syncs, events

server == <<mail, uidNext, validity, modseq, delivered>>
store  == <<rows, state, observed>>
bounds == <<syncs, events>>
vars   == <<server, store, claimed, sync, op, ruled, told, quiet, outdated, bounds>>

Nothing == [u \in {} |-> 0]
NoFlags == [ok |-> FALSE, high |-> 0, changes |-> Nothing]
NoList == [ok |-> FALSE, uids |-> {}]
NoOp == [pc |-> "idle", kind |-> "none", uids |-> {}]

\* What a sync has in memory: the position it started from, what it read, and what it
\* makes of it.
NoSync ==
  [pc |-> "idle", before |-> 0, validity |-> 0, modseq |-> 0,
   apart |-> FALSE, found |-> 0, next |-> 0, window |-> {}, batch |-> Nothing,
   flags |-> NoFlags, listed |-> NoList, whole |-> FALSE,
   after |-> 0, new |-> Nothing, left |-> {}, handled |-> {}, kind |-> "none", at |-> 0]

\* The part of a function on a smaller domain, and one function over another.
Only(f, S) == [u \in DOMAIN f \cap S |-> f[u]]
Over(f, g) == [u \in DOMAIN f \cup DOMAIN g |-> IF u \in DOMAIN f THEN f[u] ELSE g[u]]

\* The newest uids of a mailbox.
Newest(D) == {u \in D : Cardinality({v \in D : v > u}) < Limit}

\* The headers of a set of uids.
Headers(U) == [u \in U |-> [msg |-> mail[u].msg, seen |-> mail[u].seen]]

Poisoned(U) == {u \in U : mail[u].msg \in Poison}

\* The newest messages that can be read.
Readable == Newest(DOMAIN mail) \ Poisoned(Newest(DOMAIN mail))

\* The account was just added, or a first sync has run.
Init ==
  /\ delivered = Backlog
  /\ mail = [u \in (Gone + 1) .. (Gone + Backlog) |-> [msg |-> u - Gone, seen |-> FALSE, mod |-> 1]]
  /\ uidNext = Gone + Backlog + 1 /\ validity = 1 /\ modseq = 1
  /\ \/ rows = Nothing /\ state = [validity |-> 0, uidNext |-> 0, modseq |-> 0]
     \/ rows = Headers(Readable) /\ state = [validity |-> 1, uidNext |-> uidNext, modseq |-> 1]
  /\ observed = {}
  /\ claimed = "nobody"
  /\ sync = [s \in Syncers |-> NoSync] /\ op = NoOp
  /\ ruled = [m \in Msgs |-> 0] /\ told = [m \in Msgs |-> 0]
  /\ quiet = {} /\ outdated = FALSE
  /\ syncs = 0 /\ events = 0

Event == events < MaxEvents /\ events' = events + 1

-----------------------------------------------------------------------------
(* The server, and other clients of it.                                    *)

Deliver ==
  /\ delivered < MaxMsgs /\ delivered' = delivered + 1
  /\ mail' = [u \in DOMAIN mail \cup {uidNext} |->
               IF u = uidNext THEN [msg |-> delivered + 1, seen |-> FALSE, mod |-> modseq + 1] ELSE mail[u]]
  /\ uidNext' = uidNext + 1 /\ modseq' = modseq + 1
  /\ quiet' = {}
  /\ UNCHANGED <<validity, store, claimed, sync, op, ruled, told, bounds, outdated>>

\* \Seen is set or cleared on the messages of a set of uids that are there.
Flagged(U, seen) ==
  /\ modseq' = modseq + 1
  /\ mail' = [u \in DOMAIN mail |->
               IF u \in U THEN [mail[u] EXCEPT !.seen = seen, !.mod = modseq + 1] ELSE mail[u]]

OtherFlags(u) ==
  /\ u \in DOMAIN mail /\ Event
  /\ Flagged({u}, ~mail[u].seen)
  /\ quiet' = {}
  /\ UNCHANGED <<uidNext, validity, delivered, store, claimed, sync, op, ruled, told,
                 syncs, outdated>>

OtherRemoves(u) ==
  /\ u \in DOMAIN mail /\ Event
  /\ mail' = Only(mail, DOMAIN mail \ {u})
  /\ quiet' = {}
  /\ UNCHANGED <<uidNext, validity, modseq, delivered, store, claimed, sync, op, ruled,
                 told, syncs, outdated>>

\* The mailbox is rebuilt: the same messages in the same order, numbered from 1.
Reset ==
  /\ Event
  /\ validity' = validity + 1
  /\ uidNext' = Cardinality(DOMAIN mail) + 1
  /\ mail' = [n \in 1 .. Cardinality(DOMAIN mail) |->
               mail[CHOOSE u \in DOMAIN mail : Cardinality({v \in DOMAIN mail : v < u}) = n - 1]]
  /\ quiet' = {}
  /\ UNCHANGED <<modseq, delivered, store, claimed, sync, op, ruled, told, syncs, outdated>>

-----------------------------------------------------------------------------
(* A sync, from the task that asks for it to the change of the store.      *)

\* The cached UIDNEXT is read before the sync.  The refresh and the periodic check
\* claim the folder (claim_message_sync), the IDLE watcher does not.
Begin(s) ==
  /\ sync[s].pc = "idle"
  /\ syncs < MaxSyncs /\ syncs' = syncs + 1
  /\ claimed' \in {claimed, s}
  /\ claimed' = s => claimed = "nobody"
  /\ s = "refresh" => claimed' = s
  /\ sync' = [sync EXCEPT ![s] = [NoSync EXCEPT !.pc = "prior", !.before = state.uidNext]]
  /\ UNCHANGED <<server, store, op, ruled, told, quiet, events, outdated>>

\* A claim ends.
Unclaimed(s) == IF claimed = s THEN "nobody" ELSE claimed

\* backfill_observed_mail_identities, for the whole account.
Backfilled == observed \cup {rows[u].msg : u \in DOMAIN rows}

\* The position of the last sync, before any command is sent.
Prior(s) ==
  /\ sync[s].pc = "prior"
  /\ observed' = Backfilled
  /\ sync' = [sync EXCEPT ![s].pc = "fetch", ![s].validity = state.validity, ![s].modseq = state.modseq]
  /\ quiet' = quiet \cup {s}
  /\ UNCHANGED <<server, rows, state, claimed, op, ruled, told, bounds, outdated>>

\* imap::fetch_recent, or the attempt at it: a message that cannot be parsed fails
\* the whole of it.
Fetch(s) ==
  /\ sync[s].pc = "fetch"
  /\ LET window == Newest(DOMAIN mail) IN
       sync' = [sync EXCEPT ![s] =
         IF Poisoned(window) # {} THEN [@ EXCEPT !.pc = "recent"]
         ELSE [@ EXCEPT !.pc = "flags", !.found = validity, !.next = uidNext, !.batch = Headers(window)]]
  /\ UNCHANGED <<server, store, claimed, op, ruled, told, quiet, bounds, outdated>>

\* imap::recent_uids: the window once more, as uids.
Recent(s) ==
  /\ sync[s].pc = "recent"
  /\ sync' = [sync EXCEPT ![s] = [@ EXCEPT !.pc = "isolate", !.apart = TRUE, !.found = validity,
                                          !.next = uidNext, !.window = Newest(DOMAIN mail)]]
  /\ UNCHANGED <<server, store, claimed, op, ruled, told, quiet, bounds, outdated>>

\* fetch_headers_isolating_unparseable: what is still there of it and can be read.
Isolate(s) ==
  /\ sync[s].pc = "isolate"
  /\ LET there == sync[s].window \cap DOMAIN mail IN
       sync' = [sync EXCEPT ![s] =
         [@ EXCEPT !.pc = "flags", !.window = {}, !.batch = Headers(there \ Poisoned(there))]]
  /\ UNCHANGED <<server, store, claimed, op, ruled, told, quiet, bounds, outdated>>

SameValidity(s) == sync[s].validity # 0 /\ sync[s].validity = sync[s].found

\* imap::sync_flags: what has changed since the last position, and the new position.
FlagSync(s) ==
  [ok |-> TRUE, high |-> modseq,
   changes |-> IF sync[s].modseq = 0 \/ ~SameValidity(s) \/ modseq <= sync[s].modseq THEN Nothing
               ELSE [u \in {v \in DOMAIN mail : mail[v].mod > sync[s].modseq} |-> mail[u].seen]]

\* imap::list_all_uids.
ListUids(s) == [ok |-> TRUE, uids |-> DOMAIN mail]

\* Both are best effort, and of a window read in parts so is the connection for them.
Flags(s) ==
  /\ sync[s].pc = "flags"
  /\ \/ sync' = [sync EXCEPT ![s] = [@ EXCEPT !.pc = "list", !.flags = FlagSync(s)]] /\ UNCHANGED events
     \/ sync' = [sync EXCEPT ![s] = [@ EXCEPT !.pc = "list", !.flags = NoFlags]] /\ Event
     \/ /\ sync[s].apart /\ Event
        /\ sync' = [sync EXCEPT ![s] = [@ EXCEPT !.pc = "apply", !.flags = NoFlags, !.listed = NoList]]
  /\ UNCHANGED <<server, store, claimed, op, ruled, told, quiet, syncs, outdated>>

List(s) ==
  /\ sync[s].pc = "list"
  /\ \/ sync' = [sync EXCEPT ![s] = [@ EXCEPT !.pc = "apply", !.listed = ListUids(s)]] /\ UNCHANGED events
     \/ sync' = [sync EXCEPT ![s] = [@ EXCEPT !.pc = "apply", !.listed = NoList]] /\ Event
  /\ UNCHANGED <<server, store, claimed, op, ruled, told, quiet, syncs, outdated>>

\* with_read_session: on a pooled connection that turns out dead, what was being
\* read is read again on a new one, from its beginning.
ReadAgain(s) ==
  /\ sync[s].pc \in {"flags", "list"} /\ Event
  /\ sync' = [sync EXCEPT ![s] =
       IF sync[s].apart THEN [@ EXCEPT !.pc = "flags"]
       ELSE [NoSync EXCEPT !.pc = "fetch", !.before = sync[s].before,
                           !.validity = sync[s].validity, !.modseq = sync[s].modseq]]
  /\ UNCHANGED <<server, store, claimed, op, ruled, told, quiet, syncs, outdated>>

\* The connection or the time fails: a refresh is tried once more (the bound on
\* events is the bound on that), the watch begins again later.  Once a window was
\* read in parts, only the time of a refresh can still fail it.
SyncFails(s) ==
  /\ sync[s].pc \in {"fetch", "recent", "isolate", "flags", "list"} /\ Event
  /\ LET read == sync[s].pc \in {"flags", "list"} /\ sync[s].apart IN
       \/ /\ s = "refresh" /\ ~read
          /\ sync' = [sync EXCEPT ![s] = [NoSync EXCEPT !.pc = "prior", !.before = sync[s].before]]
          /\ UNCHANGED claimed
       \/ /\ s = "refresh" \/ ~read
          /\ sync' = [sync EXCEPT ![s] = NoSync]
          /\ claimed' = Unclaimed(s)
  /\ quiet' = quiet \ {s}
  /\ UNCHANGED <<server, store, op, ruled, told, syncs, outdated>>

\* Under another UIDVALIDITY the cached messages are dropped.
Kept(s) == IF sync[s].validity # 0 /\ sync[s].validity # sync[s].found THEN Nothing ELSE rows

\* Mutation: an empty mailbox is never believed.
Mutant_Believed(s) ==
  /\ sync[s].listed.ok
  /\ sync[s].validity = 0 \/ SameValidity(s)
  /\ sync[s].listed.uids # {}

\* The uids of the server are believed when they can be of the same mailbox and do
\* not contradict what was just read from it.
Believed(s) ==
  /\ sync[s].listed.ok
  /\ sync[s].validity = 0 \/ SameValidity(s)
  /\ sync[s].listed.uids # {} \/ DOMAIN sync[s].batch = {}

\* upsert, prune and flags.
Updated(s) ==
  LET all == Over(sync[s].batch, Kept(s))
      left == IF Believed(s) THEN Only(all, sync[s].listed.uids) ELSE all
      changes == sync[s].flags.changes
  IN [u \in DOMAIN left |->
       IF u \in DOMAIN changes THEN [left[u] EXCEPT !.seen = changes[u]] ELSE left[u]]

\* The lock of the store is held from the upsert to set_folder_state; the claim of
\* a refresh ends with it.
Apply(s) ==
  /\ sync[s].pc = "apply"
  /\ rows' = Updated(s)
  /\ state' = [validity |-> sync[s].found, uidNext |-> sync[s].next,
               modseq |-> IF sync[s].flags.ok THEN sync[s].flags.high ELSE state.modseq]
  /\ \E pc \in IF s = "refresh" THEN {"companions", "after"} ELSE {"after"} :
       sync' = [sync EXCEPT ![s] =
         [NoSync EXCEPT !.pc = pc, !.before = sync[s].before, !.batch = sync[s].batch,
                        !.whole = sync[s].flags.ok /\ sync[s].listed.ok]]
  /\ claimed' = IF s = "refresh" THEN Unclaimed(s) ELSE claimed
  /\ quiet' = quiet \cap {s}
  /\ outdated' = (\/ outdated
                   \/ sync[s].found # validity
                   \/ (DOMAIN Kept(s) # {} /\ state.validity # sync[s].found))
  /\ UNCHANGED <<server, observed, op, ruled, told, bounds>>

\* sync_companion_folders, when one is known: a sync of the Sent folder begins as every sync does.
Companions ==
  /\ sync["refresh"].pc = "companions"
  /\ observed' = Backfilled
  /\ sync' = [sync EXCEPT !["refresh"].pc = "after"]
  /\ UNCHANGED <<server, rows, state, claimed, op, ruled, told, quiet, bounds, outdated>>

-----------------------------------------------------------------------------
(* Arrivals.                                                               *)

\* The cached UIDNEXT is read again.
After(s) ==
  /\ sync[s].pc = "after"
  /\ sync' = [sync EXCEPT ![s] = [@ EXCEPT !.pc = "arrivals", !.after = state.uidNext]]
  /\ UNCHANGED <<server, store, claimed, op, ruled, told, quiet, bounds, outdated>>

Batch(s) == {sync[s].batch[u].msg : u \in DOMAIN sync[s].batch}

\* Mutation: the first sync of an account counts as well.
Mutant_Advanced(s) == sync[s].after > sync[s].before

\* UIDNEXT has moved on from a known value.
Advanced(s) == sync[s].before # 0 /\ sync[s].after > sync[s].before

\* Mutation: what was observed before counts again.
Mutant_NewlyObserved(s) == Batch(s)

\* Messages of the batch that nobody has recorded yet.
NewlyObserved(s) == Batch(s) \ observed

\* new_unread_inbox_messages: cached unread messages of the new uids.
NewUnread(s) ==
  [u \in {v \in DOMAIN rows :
       /\ Advanced(s) /\ sync[s].before <= v /\ v < sync[s].after
       /\ ~rows[v].seen /\ rows[v].msg \in NewlyObserved(s)} |-> rows[u].msg]

Arrivals(s) ==
  /\ sync[s].pc = "arrivals"
  /\ observed' = IF Advanced(s) THEN observed \cup Batch(s) ELSE observed
  /\ LET new == NewUnread(s) IN
       sync' = [sync EXCEPT ![s] =
         [NoSync EXCEPT !.pc = IF s = "watch" /\ DOMAIN new # {} THEN "rules" ELSE "tell",
                        !.new = new, !.left = DOMAIN new]]
  /\ UNCHANGED <<server, rows, state, claimed, op, ruled, told, quiet, bounds, outdated>>

\* What a request of a kind does to the uids it names, on the server and then here.
OnServer(kind, U) ==
  CASE U \cap DOMAIN mail = {} -> UNCHANGED <<mail, modseq>>
    [] kind = "move" -> mail' = Only(mail, DOMAIN mail \ U) /\ UNCHANGED modseq
    [] OTHER -> Flagged(U, kind # "unread")

InStore(kind, U) ==
  rows' = CASE kind = "move" -> Only(rows, DOMAIN rows \ U)
            [] kind = "all" -> [u \in DOMAIN rows |-> [rows[u] EXCEPT !.seen = TRUE]]
            [] OTHER -> [u \in DOMAIN rows |->
                 IF u \in U THEN [rows[u] EXCEPT !.seen = (kind = "read")] ELSE rows[u]]

\* The watch has dealt with an arrival, or its rule did not work.
Dealt(u, done) ==
  LET w == sync["watch"] IN
  sync' = [sync EXCEPT !["watch"] =
    [NoSync EXCEPT !.pc = IF w.left = {u} THEN "tell" ELSE "rules", !.new = w.new, !.left = w.left \ {u},
                   !.handled = IF done THEN w.handled \cup {u} ELSE w.handled]]

\* apply_rules_to_arrivals, newest first: no rule matches or it fails, it puts a label
\* on, or it is the request the person would make, whose answer may be lost.
Rule ==
  /\ sync["watch"].pc = "rules"
  /\ LET u == CHOOSE v \in sync["watch"].left : \A x \in sync["watch"].left : v >= x IN
       /\ ruled' = [ruled EXCEPT ![sync["watch"].new[u]] = @ + 1]
       /\ \/ /\ \E done \in BOOLEAN : Dealt(u, done)
             /\ UNCHANGED <<mail, modseq, quiet, events>>
          \/ \E kind \in {"move", "read"} :
               /\ OnServer(kind, {u}) /\ quiet' = {}
               /\ \/ /\ sync' = [sync EXCEPT !["watch"] = [@ EXCEPT !.pc = "file", !.kind = kind, !.at = u]]
                     /\ UNCHANGED events
                  \/ Dealt(u, FALSE) /\ Event
  /\ UNCHANGED <<uidNext, validity, delivered, store, claimed, op, told, syncs, outdated>>

RuleFiles ==
  /\ sync["watch"].pc = "file"
  /\ InStore(sync["watch"].kind, {sync["watch"].at}) /\ quiet' = {}
  /\ Dealt(sync["watch"].at, TRUE)
  /\ UNCHANGED <<server, state, observed, claimed, op, ruled, told, bounds, outdated>>

\* mail.newMessages or mail.synced.  A periodic check ends here and gives up its claim.
Tell(s) ==
  /\ sync[s].pc = "tell"
  /\ LET news == {sync[s].new[u] : u \in DOMAIN sync[s].new \ sync[s].handled} IN
       told' = [m \in Msgs |-> IF m \in news THEN told[m] + 1 ELSE told[m]]
  /\ sync' = [sync EXCEPT ![s] = NoSync]
  /\ claimed' = Unclaimed(s)
  /\ UNCHANGED <<server, store, op, ruled, quiet, bounds, outdated>>

-----------------------------------------------------------------------------
(* The person's requests: markRead, markAllRead, and delete, which moves.  *)

OpBegin ==
  /\ op.pc = "idle" /\ Event
  /\ \E kind \in {"read", "unread", "all", "move"} :
       IF kind = "all"
       THEN op' = [pc |-> "server", kind |-> kind, uids |-> {u \in DOMAIN rows : ~rows[u].seen}]
       ELSE \E u \in DOMAIN rows : op' = [pc |-> "server", kind |-> kind, uids |-> {u}]
  /\ UNCHANGED <<server, store, claimed, sync, ruled, told, quiet, syncs, outdated>>

\* The command reaches the server; the answer may be lost, and is not asked for again.
OpServer ==
  /\ op.pc = "server"
  /\ OnServer(op.kind, op.uids)
  /\ (op' = [op EXCEPT !.pc = "store"] /\ UNCHANGED events) \/ (op' = NoOp /\ Event)
  /\ quiet' = {}
  /\ UNCHANGED <<uidNext, validity, delivered, store, claimed, sync, ruled, told, syncs, outdated>>

\* And then the store.
OpStore ==
  /\ op.pc = "store"
  /\ InStore(op.kind, op.uids)
  /\ op' = NoOp
  /\ quiet' = {}
  /\ UNCHANGED <<server, state, observed, claimed, sync, ruled, told, bounds, outdated>>

\* The process ends and starts again.
Crash ==
  /\ Event
  /\ sync' = [s \in Syncers |-> NoSync] /\ op' = NoOp /\ claimed' = "nobody" /\ quiet' = {}
  /\ UNCHANGED <<server, store, ruled, told, syncs, outdated>>

-----------------------------------------------------------------------------
SyncStep(s) ==
  \/ Begin(s) \/ Prior(s) \/ Fetch(s) \/ Recent(s) \/ Isolate(s) \/ Flags(s) \/ List(s)
  \/ ReadAgain(s) \/ SyncFails(s) \/ Apply(s) \/ After(s) \/ Arrivals(s) \/ Tell(s)

Next ==
  \/ Deliver \/ Reset
  \/ \E u \in Uids : OtherFlags(u) \/ OtherRemoves(u)
  \/ \E s \in Syncers : SyncStep(s)
  \/ Companions \/ Rule \/ RuleFiles
  \/ OpBegin \/ OpServer \/ OpStore
  \/ Crash

Spec == Init /\ [][Next]_vars

-----------------------------------------------------------------------------
(* Properties.                                                             *)

Header == [msg : Msgs, seen : BOOLEAN]
Headed == UNION {[uids -> Header] : uids \in SUBSET Uids}
Changes == UNION {[uids -> BOOLEAN] : uids \in SUBSET Uids}
News == UNION {[uids -> Msgs] : uids \in SUBSET Uids}
SyncStates ==
  [pc : {"idle", "prior", "fetch", "recent", "isolate", "flags", "list", "apply", "companions", "after",
         "arrivals", "rules", "file", "tell"},
   before : Nat, validity : Nat, modseq : Nat, apart : BOOLEAN, found : Nat, next : Nat,
   window : SUBSET Uids, batch : Headed,
   flags : [ok : BOOLEAN, high : Nat, changes : Changes],
   listed : [ok : BOOLEAN, uids : SUBSET Uids], whole : BOOLEAN, after : Nat, new : News,
   left : SUBSET Uids, handled : SUBSET Uids,
   kind : {"none", "move", "read"}, at : {0} \cup Uids]

\* The mailbox, the store and the tasks keep their types, and uids stay within bounds.
TypeOK ==
  /\ mail \in [DOMAIN mail -> [msg : Msgs, seen : BOOLEAN, mod : Nat]] /\ DOMAIN mail \subseteq Uids
  /\ uidNext \in Nat \ {0} /\ validity \in Nat \ {0} /\ modseq \in Nat
  /\ delivered \in Backlog .. MaxMsgs /\ uidNext <= Gone + delivered + 1
  /\ rows \in Headed /\ state \in [validity : Nat, uidNext : Nat, modseq : Nat] /\ observed \subseteq Msgs
  /\ claimed \in Syncers \cup {"nobody"} /\ sync \in [Syncers -> SyncStates]
  /\ op \in [pc : {"idle", "server", "store"}, kind : {"none", "read", "unread", "all", "move"},
             uids : SUBSET Uids]
  /\ ruled \in [Msgs -> Nat] /\ told \in [Msgs -> Nat]
  /\ quiet \subseteq Syncers /\ outdated \in BOOLEAN /\ syncs \in Nat /\ events \in Nat

\* Whatever came before it (overlapping syncs, lost answers, a rebuilt mailbox, the
\* end of the process), a sync that ran to its end with nothing else happening leaves
\* the window as the server has it, and no row for a message that is gone.
QuietSyncMatches ==
  \A s \in quiet : sync[s].pc \in {"companions", "after"} /\ sync[s].whole =>
    /\ DOMAIN rows \subseteq DOMAIN mail
    /\ \A u \in Readable : u \in DOMAIN rows /\ rows[u] = Headers({u})[u]

\* No message is an arrival twice: however the two tasks overlap and whatever becomes
\* of its rules, they run on it, and it is announced, once at most.  (A sync that read
\* the mailbox before it was rebuilt and writes after another one can leave a message
\* under two uids, as can one that began before the first sync and writes beside rows
\* of the mailbox as it was, and it then is two arrivals.)
ArrivesOnce == ~outdated => \A m \in Msgs : ruled[m] <= 1 /\ told[m] <= 1

\* Mail that was there before the account was added is no arrival, also after the
\* mailbox was rebuilt under other uids.  (Unless a sync writes as above.)
BacklogIsNoArrival == ~outdated => \A m \in 1 .. Backlog : told[m] = 0 /\ ruled[m] = 0

\* Rules are applied to mail as it arrives: what is announced has been through them.
RulesBeforeAnnouncing == \A m \in Msgs : told[m] > 0 => ruled[m] > 0

=============================================================================
