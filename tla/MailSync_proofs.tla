--------------------------- MODULE MailSync_proofs ---------------------------
(***************************************************************************)
(* The Inbox and its copy in the store, for every mailbox, window and      *)
(* number of syncs, changes, rebuilds and failures.                        *)
(*                                                                         *)
(* Three arguments, one for each property.  A message has one uid as long  *)
(* as the mailbox is not rebuilt, so whatever was read of the mailbox as   *)
(* it is now agrees on it (Numbered), and an arrival is one because it is  *)
(* recorded in the step that finds it (Once).  A rebuilt mailbox numbers a *)
(* message no higher than before, so the backlog stays below every UIDNEXT *)
(* that was ever read (Low).  And while nothing interferes, a sync holds   *)
(* what the server has (Holds).                                            *)
(***************************************************************************)
EXTENDS MailSync, FiniteSetTheorems, WellFoundedInduction, TLAPS

\* A window has been read and not written yet.
Reading == {"flags", "list", "apply"}

\* Arrivals were found and not announced yet.
Pending == {"rules", "file", "tell"}

\* Two maps from uids to messages give no message different uids.
Agree(f, g) == \A u \in DOMAIN f : \A v \in DOMAIN g : f[u].msg = g[v].msg => u = v

\* What was read of the mailbox as it is now, and what is cached of it.
Current(s) == sync[s].pc \in Reading /\ sync[s].found = validity
Cached == state.validity = validity

\* The server's uids and messages.
MailNumbered ==
  /\ Agree(mail, mail)
  /\ \A u \in DOMAIN mail : u < uidNext /\ mail[u].msg <= delivered

\* A sync reads what exists, and no UIDVALIDITY is from the future.
Positions ==
  /\ state.validity <= validity
  /\ \A s \in Syncers :
       sync[s].found <= validity /\ (sync[s].pc \in Reading \cup {"isolate"} => sync[s].found # 0)
  /\ state.validity = 0 => DOMAIN rows = {}

\* What was read of the mailbox as it is now agrees with it, and so do two tasks.
BatchNumbered ==
  \A s \in Syncers : Current(s) =>
    /\ \A u \in DOMAIN sync[s].batch : u < uidNext /\ sync[s].batch[u].msg <= delivered
    /\ Agree(sync[s].batch, mail)
    /\ \A t \in Syncers : Current(t) => Agree(sync[s].batch, sync[t].batch)

\* And so does the cache.
RowsNumbered ==
  ~outdated =>
    /\ Agree(rows, rows)
    /\ \A u \in DOMAIN rows : rows[u].msg <= delivered
    /\ Cached =>
         /\ Agree(mail, rows)
         /\ \A s \in Syncers : Current(s) => Agree(sync[s].batch, rows)

\* What was announced or went through the rules is recorded, and pending arrivals are
\* recorded, not announced yet, and of one task only.
Once ==
  /\ \A m \in Msgs : told[m] <= 1 /\ (told[m] > 0 \/ ruled[m] > 0 => m \in observed)
  /\ \A s \in Syncers : sync[s].pc \in Pending =>
       \A u \in DOMAIN sync[s].new :
         /\ sync[s].new[u] \in observed /\ told[sync[s].new[u]] = 0
         /\ \A t \in Syncers \ {s} : sync[t].pc \in Pending =>
              \A v \in DOMAIN sync[t].new : sync[t].new[v] # sync[s].new[u]

\* Arrivals still to go through the rules.
ToRule == IF sync["watch"].pc = "file" THEN sync["watch"].left \ {sync["watch"].at}
          ELSE sync["watch"].left

\* They are distinct messages that have not been through them.
RuledOnce ==
  /\ sync["watch"].pc \in {"rules", "file"} => sync["watch"].left \subseteq DOMAIN sync["watch"].new
  /\ sync["watch"].pc = "rules" => sync["watch"].left # {}
  /\ sync["watch"].pc = "file" => sync["watch"].at \in sync["watch"].left
  /\ sync["refresh"].pc \notin {"rules", "file"}
  /\ ~outdated =>
       /\ \A m \in Msgs : ruled[m] <= 1
       /\ sync["watch"].pc \in {"rules", "file"} =>
            /\ \A u \in ToRule : ruled[sync["watch"].new[u]] = 0
            /\ \A u, v \in DOMAIN sync["watch"].new :
                 sync["watch"].new[u] = sync["watch"].new[v] => u = v

\* Below a UIDNEXT, where one was read.
Below(u, next) == next # 0 => u < next

\* Below every UIDNEXT that was ever read.
Low(u) ==
  /\ Below(u, state.uidNext)
  /\ \A s \in Syncers : Below(u, sync[s].before) /\ Below(u, sync[s].next)

\* The backlog stays there, on the server and in what was read of it.
BacklogLow ==
  /\ \A u \in DOMAIN mail : mail[u].msg <= Backlog => Low(u)
  /\ \A s \in Syncers : Current(s) =>
       \A u \in DOMAIN sync[s].batch : sync[s].batch[u].msg <= Backlog => Low(u)

\* What is cached of it is either recorded or below where a sync looks for arrivals.
BacklogCached ==
  ~outdated =>
    \A s \in Syncers : sync[s].pc # "prior" =>
      \A u \in DOMAIN rows :
        rows[u].msg <= Backlog /\ rows[u].msg \notin observed => Below(u, sync[s].before)

\* It is no arrival.
BacklogQuiet ==
  ~outdated =>
    /\ \A m \in 1 .. Backlog : told[m] = 0 /\ ruled[m] = 0
    /\ \A s \in Syncers : sync[s].pc \in Pending =>
         \A u \in DOMAIN sync[s].new : sync[s].new[u] > Backlog

\* What a sync with which nothing interfered has read is what the server has.
Holds(s) ==
  /\ sync[s].pc = "isolate" => sync[s].window = Newest(DOMAIN mail)
  /\ sync[s].pc \in Reading =>
       /\ DOMAIN sync[s].batch = Readable
       /\ \A u \in Readable :
            sync[s].batch[u].msg = mail[u].msg /\ sync[s].batch[u].seen = mail[u].seen
  /\ sync[s].pc \in {"list", "apply"} =>
       \A u \in DOMAIN sync[s].flags.changes :
         u \in DOMAIN mail /\ sync[s].flags.changes[u] = mail[u].seen
  /\ sync[s].pc = "apply" /\ sync[s].listed.ok => sync[s].listed.uids = DOMAIN mail
QuietHolds == \A s \in quiet : Holds(s)

IInv ==
  /\ TypeOK /\ MailNumbered /\ Positions /\ BatchNumbered /\ RowsNumbered
  /\ Once /\ RuledOnce
  /\ BacklogLow /\ BacklogCached /\ BacklogQuiet
  /\ QuietHolds /\ QuietSyncMatches

-----------------------------------------------------------------------------
(* Maps from uids.                                                         *)

\* What membership in the sets of maps means, and how it is shown.
LEMMA HeadedFacts ==
  ASSUME NEW f \in Headed
  PROVE  DOMAIN f \subseteq Uids /\ \A u \in DOMAIN f : f[u].msg \in Msgs /\ f[u].seen \in BOOLEAN
BY DEF Headed, Header

\* The same of arrivals.
LEMMA NewsFacts ==
  ASSUME NEW f \in News
  PROVE  DOMAIN f \subseteq Uids /\ \A u \in DOMAIN f : f[u] \in Msgs
BY DEF News

\* The empty map is all of them.
LEMMA NothingFacts == DOMAIN Nothing = {} /\ Nothing \in Headed /\ Nothing \in Changes
          /\ Nothing \in News
<1>1. /\ Nothing \in [{} -> Header] /\ Nothing \in [{} -> BOOLEAN] /\ Nothing \in [{} -> Msgs]
      /\ DOMAIN Nothing = {}
  BY DEF Nothing
<1> QED
  BY <1>1 DEF Headed, Changes, News

\* No sync is in progress.
LEMMA NoSyncFacts == NoSync \in SyncStates
<1>1. NoFlags \in [ok : BOOLEAN, high : Nat, changes : Changes]
  BY NothingFacts DEF NoFlags
<1>2. NoList \in [ok : BOOLEAN, uids : SUBSET Uids]
  BY DEF NoList
<1> QED
  BY <1>1, <1>2, NothingFacts DEF NoSync, SyncStates

\* The headers of messages that are there.
LEMMA HeadersFacts ==
  ASSUME TypeOK, NEW U \in SUBSET DOMAIN mail
  PROVE  /\ Headers(U) \in Headed /\ DOMAIN Headers(U) = U
         /\ \A u \in U : Headers(U)[u].msg = mail[u].msg /\ Headers(U)[u].seen = mail[u].seen
<1>1. Headers(U) \in [U -> Header]
  BY DEF TypeOK, Headers, Header
<1>2. U \in SUBSET Uids
  BY DEF TypeOK
<1> QED
  BY <1>1, <1>2 DEF Headed, Headers

-----------------------------------------------------------------------------
(* A sync.                                                                 *)

\* A sync begins, from the cached UIDNEXT (run_message_sync).
LEMMA BeginIInv ==
  ASSUME IInv, NEW s \in Syncers, Begin(s)
  PROVE  IInv'
<1>a. /\ TypeOK /\ MailNumbered /\ Positions /\ BatchNumbered /\ RowsNumbered /\ Once /\ RuledOnce
      /\ BacklogLow /\ BacklogCached /\ BacklogQuiet /\ QuietHolds /\ QuietSyncMatches
  BY DEF IInv
<1>b. UNCHANGED <<mail, uidNext, validity, modseq, delivered, rows, state, observed, op, ruled,
                told, quiet, outdated, events>>
  BY DEF Begin, server, store, bounds
<1>c. claimed' \in Syncers \cup {"nobody"} /\ syncs' \in Nat
  BY <1>a DEF TypeOK, Begin
<1>d. sync' = [sync EXCEPT ![s] = [NoSync EXCEPT !.pc = "prior", !.before = state.uidNext]]
  BY DEF Begin
<1>e. /\ sync' \in [Syncers -> SyncStates] /\ \A t \in Syncers : t # s => sync'[t] = sync[t]
      /\ sync'[s].pc = "prior" /\ sync'[s].before = state.uidNext /\ sync'[s].found = 0
      /\ sync'[s].next = 0
  <2>1. [NoSync EXCEPT !.pc = "prior", !.before = state.uidNext] \in SyncStates
    BY <1>a, NoSyncFacts DEF TypeOK, SyncStates
  <2> QED
    BY <1>a, <1>d, NoSyncFacts, <2>1 DEF TypeOK, SyncStates, NoSync
<1>r. Readable' = Readable /\ quiet \subseteq Syncers /\ validity \in Nat \ {0}
  BY <1>a, <1>b DEF TypeOK, Readable, Newest, Poisoned
<1>p1. TypeOK'
  BY <1>a, <1>b, <1>c, <1>e DEF TypeOK
<1>p2. MailNumbered'
  BY <1>a, <1>b, <1>c, <1>e, <1>r DEF MailNumbered, Agree
<1>p3. Positions'
  BY <1>a, <1>b, <1>c, <1>e, <1>r DEF Positions, Reading
<1>p4. BatchNumbered'
  BY <1>a, <1>b, <1>c, <1>e, <1>r DEF BatchNumbered, Current, Agree, Reading
<1>p5. RowsNumbered'
  BY <1>a, <1>b, <1>c, <1>e, <1>r DEF RowsNumbered, Cached, Current, Agree, Reading
<1>p6. Once'
  BY <1>a, <1>b, <1>c, <1>e, <1>r DEF Once, Pending
<1>p7. RuledOnce'
  BY <1>a, <1>b, <1>c, <1>e, <1>r DEF RuledOnce, ToRule, Syncers
<1>p8. BacklogLow'
  BY <1>a, <1>b, <1>c, <1>e, <1>r DEF BacklogLow, Low, Below, Current, Reading
<1>p9. BacklogCached'
  BY <1>a, <1>b, <1>c, <1>e, <1>r DEF BacklogCached, Below
<1>p10. BacklogQuiet'
  BY <1>a, <1>b, <1>c, <1>e, <1>r DEF BacklogQuiet, Pending
<1>p11. QuietHolds'
  BY <1>a, <1>b, <1>c, <1>e, <1>r DEF QuietHolds, Holds, Reading
<1>p12. QuietSyncMatches'
  BY <1>a, <1>b, <1>c, <1>e, <1>r DEF QuietSyncMatches, Headers
<1> QED
  BY <1>p1, <1>p2, <1>p3, <1>p4, <1>p5, <1>p6, <1>p7, <1>p8, <1>p9, <1>p10, <1>p11, <1>p12 DEF IInv

\* The position is read, and what is cached is recorded.
LEMMA PriorIInv ==
  ASSUME IInv, NEW s \in Syncers, Prior(s)
  PROVE  IInv'
<1>a. /\ TypeOK /\ MailNumbered /\ Positions /\ BatchNumbered /\ RowsNumbered /\ Once /\ RuledOnce
      /\ BacklogLow /\ BacklogCached /\ BacklogQuiet /\ QuietHolds /\ QuietSyncMatches
  BY DEF IInv
<1>b. UNCHANGED <<mail, uidNext, validity, modseq, delivered, rows, state, claimed, op, ruled,
                told, outdated, syncs, events>>
  BY DEF Prior, server, store, bounds
<1>c. observed' \subseteq Msgs /\ observed \subseteq observed' /\ quiet' = quiet \cup {s}
      /\ \A u \in DOMAIN rows : rows[u].msg \in observed'
  BY <1>a, HeadedFacts DEF TypeOK, Prior, Backfilled
<1>d. sync' = [sync EXCEPT ![s] = [sync[s] EXCEPT !.pc = "fetch", !.validity = state.validity,
          !.modseq = state.modseq]]
  BY DEF Prior
<1>e. /\ sync' \in [Syncers -> SyncStates] /\ \A t \in Syncers : t # s => sync'[t] = sync[t]
      /\ sync'[s].pc = "fetch" /\ sync'[s].before = sync[s].before
      /\ sync'[s].found = sync[s].found /\ sync'[s].next = sync[s].next
  <2>1. [sync[s] EXCEPT !.pc = "fetch", !.validity = state.validity,
            !.modseq = state.modseq] \in SyncStates
    <3>1. sync[s] \in SyncStates
      BY <1>a DEF TypeOK, Syncers
    <3> QED
      BY <1>a, <3>1 DEF TypeOK, SyncStates
  <2> QED
    BY <1>a, <1>d, NoSyncFacts, <2>1 DEF TypeOK, SyncStates, NoSync
<1>r. Readable' = Readable /\ quiet \subseteq Syncers /\ validity \in Nat \ {0}
  BY <1>a, <1>b DEF TypeOK, Readable, Newest, Poisoned
<1>p1. TypeOK'
  BY <1>a, <1>b, <1>c, <1>e DEF TypeOK
<1>p2. MailNumbered'
  BY <1>a, <1>b, <1>c, <1>e, <1>r DEF MailNumbered, Agree
<1>p3. Positions'
  BY <1>a, <1>b, <1>c, <1>e, <1>r DEF Positions, Reading
<1>p4. BatchNumbered'
  BY <1>a, <1>b, <1>c, <1>e, <1>r DEF BatchNumbered, Current, Agree, Reading
<1>p5. RowsNumbered'
  BY <1>a, <1>b, <1>c, <1>e, <1>r DEF RowsNumbered, Cached, Current, Agree, Reading
<1>p6. Once'
  BY <1>a, <1>b, <1>c, <1>e, <1>r DEF Once, Pending
<1>p7. RuledOnce'
  BY <1>a, <1>b, <1>c, <1>e, <1>r DEF RuledOnce, ToRule, Syncers
<1>p8. BacklogLow'
  BY <1>a, <1>b, <1>c, <1>e, <1>r DEF BacklogLow, Low, Below, Current, Reading
<1>p9. BacklogCached'
  BY <1>a, <1>b, <1>c, <1>e, <1>r DEF BacklogCached, Below
<1>p10. BacklogQuiet'
  BY <1>a, <1>b, <1>c, <1>e, <1>r DEF BacklogQuiet, Pending
<1>p11. QuietHolds'
  BY <1>a, <1>b, <1>c, <1>e, <1>r DEF QuietHolds, Holds, Reading
<1>p12. QuietSyncMatches'
  BY <1>a, <1>b, <1>c, <1>e, <1>r DEF QuietSyncMatches, Headers
<1> QED
  BY <1>p1, <1>p2, <1>p3, <1>p4, <1>p5, <1>p6, <1>p7, <1>p8, <1>p9, <1>p10, <1>p11, <1>p12 DEF IInv

\* The window is read, or cannot be (fetch_recent).
LEMMA FetchIInv ==
  ASSUME IInv, NEW s \in Syncers, Fetch(s)
  PROVE  IInv'
<1>a. /\ TypeOK /\ MailNumbered /\ Positions /\ BatchNumbered /\ RowsNumbered /\ Once /\ RuledOnce
      /\ BacklogLow /\ BacklogCached /\ BacklogQuiet /\ QuietHolds /\ QuietSyncMatches
  BY DEF IInv
<1>b. UNCHANGED <<mail, uidNext, validity, modseq, delivered, rows, state, observed, claimed, op,
                ruled, told, quiet, outdated, syncs, events>>
  BY DEF Fetch, server, store, bounds
<1>r. Readable' = Readable /\ quiet \subseteq Syncers /\ validity \in Nat \ {0}
  BY <1>a, <1>b DEF TypeOK, Readable, Newest, Poisoned
<1>d. /\ Newest(DOMAIN mail) \subseteq DOMAIN mail /\ Readable \subseteq DOMAIN mail
      /\ DOMAIN mail \subseteq Uids
  BY <1>a DEF TypeOK, Readable, Newest
<1>h. /\ Headers(Newest(DOMAIN mail)) \in Headed
          /\ DOMAIN Headers(Newest(DOMAIN mail)) = Newest(DOMAIN mail)
      /\ \A u \in Newest(DOMAIN mail) : /\ Headers(Newest(DOMAIN mail))[u].msg = mail[u].msg
                                        /\ Headers(Newest(DOMAIN mail))[u].seen = mail[u].seen
  BY <1>a, <1>d, HeadersFacts
<1>1. ASSUME sync[s].pc = "fetch", sync' = [sync EXCEPT ![s] = [sync[s] EXCEPT !.pc = "recent"]]
      PROVE  IInv'
  <2>e. /\ sync' \in [Syncers -> SyncStates] /\ \A t \in Syncers : t # s => sync'[t] = sync[t]
        /\ sync'[s].pc = "recent" /\ sync'[s].before = sync[s].before
        /\ sync'[s].found = sync[s].found /\ sync'[s].next = sync[s].next
    <3>1. [sync[s] EXCEPT !.pc = "recent"] \in SyncStates
      <4>1. sync[s] \in SyncStates
        BY <1>a DEF TypeOK, Syncers
      <4> QED
        BY <1>a, <4>1 DEF TypeOK, SyncStates
    <3> QED
      BY <1>a, <1>1, NoSyncFacts, <3>1 DEF TypeOK, SyncStates, NoSync
  <2>1. sync[s].pc = "fetch"
    BY <1>1
  <2>p1. TypeOK'
    BY <1>a, <1>b, <2>e, <2>1 DEF TypeOK
  <2>p2. MailNumbered'
    BY <1>a, <1>b, <1>r, <2>e, <2>1 DEF MailNumbered, Agree
  <2>p3. Positions'
    BY <1>a, <1>b, <1>r, <2>e, <2>1 DEF Positions, Reading
  <2>p4. BatchNumbered'
    BY <1>a, <1>b, <1>r, <2>e, <2>1 DEF BatchNumbered, Current, Agree, Reading
  <2>p5. RowsNumbered'
    BY <1>a, <1>b, <1>r, <2>e, <2>1 DEF RowsNumbered, Cached, Current, Agree, Reading
  <2>p6. Once'
    BY <1>a, <1>b, <1>r, <2>e, <2>1 DEF Once, Pending
  <2>p7. RuledOnce'
    BY <1>a, <1>b, <1>r, <2>e, <2>1 DEF RuledOnce, ToRule, Syncers
  <2>p8. BacklogLow'
    BY <1>a, <1>b, <1>r, <2>e, <2>1 DEF BacklogLow, Low, Below, Current, Reading
  <2>p9. BacklogCached'
    BY <1>a, <1>b, <1>r, <2>e, <2>1 DEF BacklogCached, Below
  <2>p10. BacklogQuiet'
    BY <1>a, <1>b, <1>r, <2>e, <2>1 DEF BacklogQuiet, Pending
  <2>p11. QuietHolds'
    BY <1>a, <1>b, <1>r, <2>e, <2>1 DEF QuietHolds, Holds, Reading
  <2>p12. QuietSyncMatches'
    BY <1>a, <1>b, <1>r, <2>e, <2>1 DEF QuietSyncMatches, Headers
  <2> QED
    BY <2>p1, <2>p2, <2>p3, <2>p4, <2>p5, <2>p6, <2>p7, <2>p8, <2>p9, <2>p10, <2>p11,
       <2>p12 DEF IInv
<1>2. ASSUME sync[s].pc = "fetch", Poisoned(Newest(DOMAIN mail)) = {},
             sync' = [sync EXCEPT ![s] = [sync[s] EXCEPT !.pc = "flags", !.found = validity,
                       !.next = uidNext, !.batch = Headers(Newest(DOMAIN mail))]]
      PROVE  IInv'
  <2>e. /\ sync' \in [Syncers -> SyncStates] /\ \A t \in Syncers : t # s => sync'[t] = sync[t]
        /\ sync'[s].pc = "flags" /\ sync'[s].found = validity /\ sync'[s].next = uidNext
        /\ sync'[s].batch = Headers(Newest(DOMAIN mail)) /\ sync'[s].before = sync[s].before
    <3>1. [sync[s] EXCEPT !.pc = "flags", !.found = validity, !.next = uidNext,
              !.batch = Headers(Newest(DOMAIN mail))] \in SyncStates
      <4>1. sync[s] \in SyncStates
        BY <1>a DEF TypeOK, Syncers
      <4> QED
        BY <1>a, <4>1, <1>h DEF TypeOK, SyncStates
    <3> QED
      BY <1>a, <1>2, <1>h, NoSyncFacts, <3>1 DEF TypeOK, SyncStates, NoSync
  <2>1. sync[s].pc = "fetch"
    BY <1>2
  <2>2. /\ DOMAIN sync'[s].batch = Newest(DOMAIN mail)
        /\ \A u \in DOMAIN sync'[s].batch : u \in DOMAIN mail /\ sync'[s].batch[u].msg = mail[u].msg
                                             /\ sync'[s].batch[u].seen = mail[u].seen
    BY <2>e, <1>d, <1>h
  <2>3. Readable = Newest(DOMAIN mail)
    BY <1>2 DEF Readable
  <2>p1. TypeOK'
    BY <1>a, <1>b, <2>e, <2>1, <2>2, <2>3 DEF TypeOK
  <2>p2. MailNumbered'
    BY <1>a, <1>b, <1>r, <2>e, <2>1, <2>2, <2>3 DEF MailNumbered, Agree
  <2>p3. Positions'
    BY <1>a, <1>b, <1>r, <2>e, <2>1, <2>2, <2>3 DEF Positions, Reading
  <2>p4. BatchNumbered'
    BY <1>a, <1>b, <1>r, <2>e, <2>1, <2>2, <2>3 DEF BatchNumbered, Current, Agree, Reading,
       MailNumbered
  <2>p5. RowsNumbered'
    BY <1>a, <1>b, <1>r, <2>e, <2>1, <2>2, <2>3 DEF RowsNumbered, Cached, Current, Agree, Reading,
       MailNumbered
  <2>p6. Once'
    BY <1>a, <1>b, <1>r, <2>e, <2>1, <2>2, <2>3 DEF Once, Pending
  <2>p7. RuledOnce'
    BY <1>a, <1>b, <1>r, <2>e, <2>1, <2>2, <2>3 DEF RuledOnce, ToRule, Syncers
  <2>p8. BacklogLow'
    BY <1>a, <1>b, <1>r, <2>e, <2>1, <2>2, <2>3 DEF BacklogLow, Low, Below, Current, Reading,
       MailNumbered, BatchNumbered
  <2>p9. BacklogCached'
    BY <1>a, <1>b, <1>r, <2>e, <2>1, <2>2, <2>3 DEF BacklogCached, Below
  <2>p10. BacklogQuiet'
    BY <1>a, <1>b, <1>r, <2>e, <2>1, <2>2, <2>3 DEF BacklogQuiet, Pending
  <2>p11. QuietHolds'
    BY <1>a, <1>b, <1>r, <2>e, <2>1, <2>2, <2>3 DEF QuietHolds, Holds, Reading
  <2>p12. QuietSyncMatches'
    BY <1>a, <1>b, <1>r, <2>e, <2>1, <2>2, <2>3 DEF QuietSyncMatches, Headers
  <2> QED
    BY <2>p1, <2>p2, <2>p3, <2>p4, <2>p5, <2>p6, <2>p7, <2>p8, <2>p9, <2>p10, <2>p11,
       <2>p12 DEF IInv
<1> QED
  BY <1>1, <1>2 DEF Fetch

\* The window is read as uids (recent_uids).
LEMMA RecentIInv ==
  ASSUME IInv, NEW s \in Syncers, Recent(s)
  PROVE  IInv'
<1>a. /\ TypeOK /\ MailNumbered /\ Positions /\ BatchNumbered /\ RowsNumbered /\ Once /\ RuledOnce
      /\ BacklogLow /\ BacklogCached /\ BacklogQuiet /\ QuietHolds /\ QuietSyncMatches
  BY DEF IInv
<1>b. UNCHANGED <<mail, uidNext, validity, modseq, delivered, rows, state, observed, claimed, op,
                ruled, told, quiet, outdated, syncs, events>>
  BY DEF Recent, server, store, bounds
<1>r. Readable' = Readable /\ quiet \subseteq Syncers /\ validity \in Nat \ {0}
  BY <1>a, <1>b DEF TypeOK, Readable, Newest, Poisoned
<1>d. /\ Newest(DOMAIN mail) \subseteq DOMAIN mail /\ Readable \subseteq DOMAIN mail
      /\ DOMAIN mail \subseteq Uids
  BY <1>a DEF TypeOK, Readable, Newest
<1>1. ASSUME sync[s].pc = "recent", sync' = [sync EXCEPT ![s] = [sync[s] EXCEPT !.pc = "isolate",
          !.apart = TRUE, !.found = validity, !.next = uidNext,
                             !.window = Newest(DOMAIN mail)]]
      PROVE  IInv'
  <2>e. /\ sync' \in [Syncers -> SyncStates] /\ \A t \in Syncers : t # s => sync'[t] = sync[t]
        /\ sync'[s].pc = "isolate" /\ sync'[s].found = validity /\ sync'[s].next = uidNext
        /\ sync'[s].window = Newest(DOMAIN mail) /\ sync'[s].before = sync[s].before
    <3>1. [sync[s] EXCEPT !.pc = "isolate", !.apart = TRUE, !.found = validity, !.next = uidNext,
                             !.window = Newest(DOMAIN mail)] \in SyncStates
      <4>1. sync[s] \in SyncStates
        BY <1>a DEF TypeOK, Syncers
      <4> QED
        BY <1>a, <4>1, <1>d DEF TypeOK, SyncStates
    <3> QED
      BY <1>a, <1>1, <1>d, NoSyncFacts, <3>1 DEF TypeOK, SyncStates, NoSync
  <2>1. sync[s].pc = "recent"
    BY <1>1
  <2>p1. TypeOK'
    BY <1>a, <1>b, <2>e, <2>1 DEF TypeOK
  <2>p2. MailNumbered'
    BY <1>a, <1>b, <1>r, <2>e, <2>1 DEF MailNumbered, Agree
  <2>p3. Positions'
    BY <1>a, <1>b, <1>r, <2>e, <2>1 DEF Positions, Reading
  <2>p4. BatchNumbered'
    BY <1>a, <1>b, <1>r, <2>e, <2>1 DEF BatchNumbered, Current, Agree, Reading
  <2>p5. RowsNumbered'
    BY <1>a, <1>b, <1>r, <2>e, <2>1 DEF RowsNumbered, Cached, Current, Agree, Reading
  <2>p6. Once'
    BY <1>a, <1>b, <1>r, <2>e, <2>1 DEF Once, Pending
  <2>p7. RuledOnce'
    BY <1>a, <1>b, <1>r, <2>e, <2>1 DEF RuledOnce, ToRule, Syncers
  <2>p8. BacklogLow'
    BY <1>a, <1>b, <1>r, <2>e, <2>1 DEF BacklogLow, Low, Below, Current, Reading, MailNumbered,
       BatchNumbered
  <2>p9. BacklogCached'
    BY <1>a, <1>b, <1>r, <2>e, <2>1 DEF BacklogCached, Below
  <2>p10. BacklogQuiet'
    BY <1>a, <1>b, <1>r, <2>e, <2>1 DEF BacklogQuiet, Pending
  <2>p11. QuietHolds'
    BY <1>a, <1>b, <1>r, <2>e, <2>1 DEF QuietHolds, Holds, Reading
  <2>p12. QuietSyncMatches'
    BY <1>a, <1>b, <1>r, <2>e, <2>1 DEF QuietSyncMatches, Headers
  <2> QED
    BY <2>p1, <2>p2, <2>p3, <2>p4, <2>p5, <2>p6, <2>p7, <2>p8, <2>p9, <2>p10, <2>p11,
       <2>p12 DEF IInv
<1> QED
  BY <1>1 DEF Recent

\* What is left of the window and can be read (fetch_headers_isolating_unparseable).
LEMMA IsolateIInv ==
  ASSUME IInv, NEW s \in Syncers, Isolate(s)
  PROVE  IInv'
<1>a. /\ TypeOK /\ MailNumbered /\ Positions /\ BatchNumbered /\ RowsNumbered /\ Once /\ RuledOnce
      /\ BacklogLow /\ BacklogCached /\ BacklogQuiet /\ QuietHolds /\ QuietSyncMatches
  BY DEF IInv
<1>b. UNCHANGED <<mail, uidNext, validity, modseq, delivered, rows, state, observed, claimed, op,
                ruled, told, quiet, outdated, syncs, events>>
  BY DEF Isolate, server, store, bounds
<1>r. Readable' = Readable /\ quiet \subseteq Syncers /\ validity \in Nat \ {0}
  BY <1>a, <1>b DEF TypeOK, Readable, Newest, Poisoned
<1>d. /\ Newest(DOMAIN mail) \subseteq DOMAIN mail /\ Readable \subseteq DOMAIN mail
      /\ DOMAIN mail \subseteq Uids
  BY <1>a DEF TypeOK, Readable, Newest
<1> DEFINE there == sync[s].window \cap DOMAIN mail
           left == there \ Poisoned(there)
<1>h. /\ Headers(left) \in Headed /\ DOMAIN Headers(left) = left /\ left \subseteq DOMAIN mail
      /\ \A u \in left : Headers(left)[u].msg = mail[u].msg /\ Headers(left)[u].seen = mail[u].seen
  BY <1>a, HeadersFacts
<1> HIDE DEF there, left
<1>1. ASSUME sync[s].pc = "isolate", sync' = [sync EXCEPT ![s] = [sync[s] EXCEPT !.pc = "flags",
          !.window = {}, !.batch = Headers(left)]]
      PROVE  IInv'
  <2>e. /\ sync' \in [Syncers -> SyncStates] /\ \A t \in Syncers : t # s => sync'[t] = sync[t]
        /\ sync'[s].pc = "flags" /\ sync'[s].batch = Headers(left)
        /\ sync'[s].before = sync[s].before /\ sync'[s].found = sync[s].found
        /\ sync'[s].next = sync[s].next
    <3>1. [sync[s] EXCEPT !.pc = "flags", !.window = {}, !.batch = Headers(left)] \in SyncStates
      <4>1. sync[s] \in SyncStates
        BY <1>a DEF TypeOK, Syncers
      <4> QED
        BY <1>a, <4>1, <1>h DEF TypeOK, SyncStates
    <3> QED
      BY <1>a, <1>1, <1>h, NoSyncFacts, <3>1 DEF TypeOK, SyncStates, NoSync
  <2>1. sync[s].pc = "isolate"
    BY <1>1
  <2>2. /\ DOMAIN sync'[s].batch = left
        /\ \A u \in DOMAIN sync'[s].batch : u \in DOMAIN mail /\ sync'[s].batch[u].msg = mail[u].msg
                                             /\ sync'[s].batch[u].seen = mail[u].seen
    BY <2>e, <1>d, <1>h
  <2>3. sync[s].window = Newest(DOMAIN mail) => left = Readable
    BY <1>d DEF Readable, left, there
  <2>p1. TypeOK'
    BY <1>a, <1>b, <2>e, <2>1, <2>2, <2>3 DEF TypeOK
  <2>p2. MailNumbered'
    BY <1>a, <1>b, <1>r, <2>e, <2>1, <2>2, <2>3 DEF MailNumbered, Agree
  <2>p3. Positions'
    BY <1>a, <1>b, <1>r, <2>e, <2>1, <2>2, <2>3 DEF Positions, Reading
  <2>p4. BatchNumbered'
    BY <1>a, <1>b, <1>r, <2>e, <2>1, <2>2, <2>3 DEF BatchNumbered, Current, Agree, Reading,
       MailNumbered
  <2>p5. RowsNumbered'
    BY <1>a, <1>b, <1>r, <2>e, <2>1, <2>2, <2>3 DEF RowsNumbered, Cached, Current, Agree, Reading,
       MailNumbered
  <2>p6. Once'
    BY <1>a, <1>b, <1>r, <2>e, <2>1, <2>2, <2>3 DEF Once, Pending
  <2>p7. RuledOnce'
    BY <1>a, <1>b, <1>r, <2>e, <2>1, <2>2, <2>3 DEF RuledOnce, ToRule, Syncers
  <2>p8. BacklogLow'
    BY <1>a, <1>b, <1>r, <2>e, <2>1, <2>2, <2>3 DEF BacklogLow, Low, Below, Current, Reading,
       MailNumbered, BatchNumbered
  <2>p9. BacklogCached'
    BY <1>a, <1>b, <1>r, <2>e, <2>1, <2>2, <2>3 DEF BacklogCached, Below
  <2>p10. BacklogQuiet'
    BY <1>a, <1>b, <1>r, <2>e, <2>1, <2>2, <2>3 DEF BacklogQuiet, Pending
  <2>p11. QuietHolds'
    BY <1>a, <1>b, <1>r, <2>e, <2>1, <2>2, <2>3 DEF QuietHolds, Holds, Reading
  <2>p12. QuietSyncMatches'
    BY <1>a, <1>b, <1>r, <2>e, <2>1, <2>2, <2>3 DEF QuietSyncMatches, Headers
  <2> QED
    BY <2>p1, <2>p2, <2>p3, <2>p4, <2>p5, <2>p6, <2>p7, <2>p8, <2>p9, <2>p10, <2>p11,
       <2>p12 DEF IInv
<1> QED
  BY <1>1 DEF Isolate, there, left

\* The answer of imap::sync_flags, and its changes.
LEMMA FlagSyncFacts ==
  ASSUME TypeOK, NEW s \in Syncers
  PROVE  /\ FlagSync(s) \in [ok : BOOLEAN, high : Nat, changes : Changes]
         /\ \A u \in DOMAIN FlagSync(s).changes : u \in DOMAIN mail
                   /\ FlagSync(s).changes[u] = mail[u].seen
<1> DEFINE U == {v \in DOMAIN mail : mail[v].mod > sync[s].modseq}
           ch == [u \in U |-> mail[u].seen]
<1>1. ch \in [U -> BOOLEAN] /\ U \in SUBSET Uids
  BY DEF TypeOK
<1>2. ch \in Changes
  BY <1>1 DEF Changes
<1>3. FlagSync(s).changes \in {Nothing, ch} /\ FlagSync(s) \in [ok : BOOLEAN, high : Nat,
          changes : {Nothing, ch}]
  BY DEF FlagSync, TypeOK
<1>4. FlagSync(s) \in [ok : BOOLEAN, high : Nat, changes : Changes]
  BY <1>2, <1>3, NothingFacts
<1>5. \A u \in DOMAIN FlagSync(s).changes : u \in DOMAIN mail
          /\ FlagSync(s).changes[u] = mail[u].seen
  BY <1>3, NothingFacts
<1> QED
  BY <1>4, <1>5

\* Changed flags are asked for; best effort (sync_flags).
LEMMA FlagsIInv ==
  ASSUME IInv, NEW s \in Syncers, Flags(s)
  PROVE  IInv'
<1>a. /\ TypeOK /\ MailNumbered /\ Positions /\ BatchNumbered /\ RowsNumbered /\ Once /\ RuledOnce
      /\ BacklogLow /\ BacklogCached /\ BacklogQuiet /\ QuietHolds /\ QuietSyncMatches
  BY DEF IInv
<1>b. UNCHANGED <<mail, uidNext, validity, modseq, delivered, rows, state, observed, claimed, op,
                ruled, told, quiet, outdated, syncs>>
  BY DEF Flags, server, store, bounds
<1>c. events' \in Nat
  BY <1>a DEF TypeOK, Flags, Event
<1>r. Readable' = Readable /\ quiet \subseteq Syncers /\ validity \in Nat \ {0}
  BY <1>a, <1>b DEF TypeOK, Readable, Newest, Poisoned
<1>d. /\ FlagSync(s) \in [ok : BOOLEAN, high : Nat, changes : Changes]
      /\ \A u \in DOMAIN FlagSync(s).changes : u \in DOMAIN mail
                /\ FlagSync(s).changes[u] = mail[u].seen
  BY <1>a, FlagSyncFacts
<1>h. /\ NoFlags \in [ok : BOOLEAN, high : Nat, changes : Changes] /\ DOMAIN NoFlags.changes = {}
      /\ NoList \in [ok : BOOLEAN, uids : SUBSET Uids] /\ ~NoList.ok
  BY NothingFacts DEF NoFlags, NoList
<1>1. ASSUME sync[s].pc = "flags", sync' = [sync EXCEPT ![s] = [sync[s] EXCEPT !.pc = "list",
          !.flags = FlagSync(s)]]
      PROVE  IInv'
  <2>e. /\ sync' \in [Syncers -> SyncStates] /\ \A t \in Syncers : t # s => sync'[t] = sync[t]
        /\ sync'[s].pc = "list" /\ sync'[s].flags = FlagSync(s) /\ sync'[s].before = sync[s].before
        /\ sync'[s].found = sync[s].found /\ sync'[s].next = sync[s].next
        /\ sync'[s].batch = sync[s].batch
    <3>1. [sync[s] EXCEPT !.pc = "list", !.flags = FlagSync(s)] \in SyncStates
      <4>1. sync[s] \in SyncStates
        BY <1>a DEF TypeOK, Syncers
      <4> QED
        BY <1>a, <4>1, <1>d DEF TypeOK, SyncStates
    <3> QED
      BY <1>a, <1>1, <1>d, NoSyncFacts, <3>1 DEF TypeOK, SyncStates, NoSync
  <2>1. sync[s].pc = "flags"
    BY <1>1
  <2>p1. TypeOK'
    BY <1>a, <1>b, <1>c, <2>e, <2>1 DEF TypeOK
  <2>p2. MailNumbered'
    BY <1>a, <1>b, <1>c, <1>r, <2>e, <1>d, <2>1 DEF MailNumbered, Agree
  <2>p3. Positions'
    BY <1>a, <1>b, <1>c, <1>r, <2>e, <1>d, <2>1 DEF Positions, Reading
  <2>p4. BatchNumbered'
    BY <1>a, <1>b, <1>c, <1>r, <2>e, <1>d, <2>1 DEF BatchNumbered, Current, Agree, Reading
  <2>p5. RowsNumbered'
    BY <1>a, <1>b, <1>c, <1>r, <2>e, <1>d, <2>1 DEF RowsNumbered, Cached, Current, Agree, Reading
  <2>p6. Once'
    BY <1>a, <1>b, <1>c, <1>r, <2>e, <1>d, <2>1 DEF Once, Pending
  <2>p7. RuledOnce'
    BY <1>a, <1>b, <1>c, <1>r, <2>e, <1>d, <2>1 DEF RuledOnce, ToRule, Syncers
  <2>p8. BacklogLow'
    BY <1>a, <1>b, <1>c, <1>r, <2>e, <1>d, <2>1 DEF BacklogLow, Low, Below, Current, Reading
  <2>p9. BacklogCached'
    BY <1>a, <1>b, <1>c, <1>r, <2>e, <1>d, <2>1 DEF BacklogCached, Below
  <2>p10. BacklogQuiet'
    BY <1>a, <1>b, <1>c, <1>r, <2>e, <1>d, <2>1 DEF BacklogQuiet, Pending
  <2>p11. QuietHolds'
    BY <1>a, <1>b, <1>c, <1>r, <2>e, <1>d, <2>1 DEF QuietHolds, Holds, Reading
  <2>p12. QuietSyncMatches'
    BY <1>a, <1>b, <1>c, <1>r, <2>e, <1>d, <2>1 DEF QuietSyncMatches, Headers
  <2> QED
    BY <2>p1, <2>p2, <2>p3, <2>p4, <2>p5, <2>p6, <2>p7, <2>p8, <2>p9, <2>p10, <2>p11,
       <2>p12 DEF IInv
<1>2. ASSUME sync[s].pc = "flags", sync' = [sync EXCEPT ![s] = [sync[s] EXCEPT !.pc = "list",
          !.flags = NoFlags]]
      PROVE  IInv'
  <2>e. /\ sync' \in [Syncers -> SyncStates] /\ \A t \in Syncers : t # s => sync'[t] = sync[t]
        /\ sync'[s].pc = "list" /\ sync'[s].flags = NoFlags /\ sync'[s].before = sync[s].before
        /\ sync'[s].found = sync[s].found /\ sync'[s].next = sync[s].next
        /\ sync'[s].batch = sync[s].batch
    <3>1. [sync[s] EXCEPT !.pc = "list", !.flags = NoFlags] \in SyncStates
      <4>1. sync[s] \in SyncStates
        BY <1>a DEF TypeOK, Syncers
      <4> QED
        BY <1>a, <4>1, <1>h DEF TypeOK, SyncStates
    <3> QED
      BY <1>a, <1>2, <1>h, NoSyncFacts, <3>1 DEF TypeOK, SyncStates, NoSync
  <2>1. sync[s].pc = "flags"
    BY <1>2
  <2>p1. TypeOK'
    BY <1>a, <1>b, <1>c, <2>e, <2>1 DEF TypeOK
  <2>p2. MailNumbered'
    BY <1>a, <1>b, <1>c, <1>r, <2>e, <1>h, <2>1 DEF MailNumbered, Agree
  <2>p3. Positions'
    BY <1>a, <1>b, <1>c, <1>r, <2>e, <1>h, <2>1 DEF Positions, Reading
  <2>p4. BatchNumbered'
    BY <1>a, <1>b, <1>c, <1>r, <2>e, <1>h, <2>1 DEF BatchNumbered, Current, Agree, Reading
  <2>p5. RowsNumbered'
    BY <1>a, <1>b, <1>c, <1>r, <2>e, <1>h, <2>1 DEF RowsNumbered, Cached, Current, Agree, Reading
  <2>p6. Once'
    BY <1>a, <1>b, <1>c, <1>r, <2>e, <1>h, <2>1 DEF Once, Pending
  <2>p7. RuledOnce'
    BY <1>a, <1>b, <1>c, <1>r, <2>e, <1>h, <2>1 DEF RuledOnce, ToRule, Syncers
  <2>p8. BacklogLow'
    BY <1>a, <1>b, <1>c, <1>r, <2>e, <1>h, <2>1 DEF BacklogLow, Low, Below, Current, Reading
  <2>p9. BacklogCached'
    BY <1>a, <1>b, <1>c, <1>r, <2>e, <1>h, <2>1 DEF BacklogCached, Below
  <2>p10. BacklogQuiet'
    BY <1>a, <1>b, <1>c, <1>r, <2>e, <1>h, <2>1 DEF BacklogQuiet, Pending
  <2>p11. QuietHolds'
    BY <1>a, <1>b, <1>c, <1>r, <2>e, <1>h, <2>1 DEF QuietHolds, Holds, Reading
  <2>p12. QuietSyncMatches'
    BY <1>a, <1>b, <1>c, <1>r, <2>e, <1>h, <2>1 DEF QuietSyncMatches, Headers
  <2> QED
    BY <2>p1, <2>p2, <2>p3, <2>p4, <2>p5, <2>p6, <2>p7, <2>p8, <2>p9, <2>p10, <2>p11,
       <2>p12 DEF IInv
<1>3. ASSUME sync[s].pc = "flags", sync' = [sync EXCEPT ![s] = [sync[s] EXCEPT !.pc = "apply",
          !.flags = NoFlags, !.listed = NoList]]
      PROVE  IInv'
  <2>e. /\ sync' \in [Syncers -> SyncStates] /\ \A t \in Syncers : t # s => sync'[t] = sync[t]
        /\ sync'[s].pc = "apply" /\ sync'[s].flags = NoFlags /\ sync'[s].listed = NoList
        /\ sync'[s].before = sync[s].before /\ sync'[s].found = sync[s].found
        /\ sync'[s].next = sync[s].next /\ sync'[s].batch = sync[s].batch
    <3>1. [sync[s] EXCEPT !.pc = "apply", !.flags = NoFlags, !.listed = NoList] \in SyncStates
      <4>1. sync[s] \in SyncStates
        BY <1>a DEF TypeOK, Syncers
      <4> QED
        BY <1>a, <4>1, <1>h DEF TypeOK, SyncStates
    <3> QED
      BY <1>a, <1>3, <1>h, NoSyncFacts, <3>1 DEF TypeOK, SyncStates, NoSync
  <2>1. sync[s].pc = "flags"
    BY <1>3
  <2>p1. TypeOK'
    BY <1>a, <1>b, <1>c, <2>e, <2>1 DEF TypeOK
  <2>p2. MailNumbered'
    BY <1>a, <1>b, <1>c, <1>r, <2>e, <1>h, <2>1 DEF MailNumbered, Agree
  <2>p3. Positions'
    BY <1>a, <1>b, <1>c, <1>r, <2>e, <1>h, <2>1 DEF Positions, Reading
  <2>p4. BatchNumbered'
    BY <1>a, <1>b, <1>c, <1>r, <2>e, <1>h, <2>1 DEF BatchNumbered, Current, Agree, Reading
  <2>p5. RowsNumbered'
    BY <1>a, <1>b, <1>c, <1>r, <2>e, <1>h, <2>1 DEF RowsNumbered, Cached, Current, Agree, Reading
  <2>p6. Once'
    BY <1>a, <1>b, <1>c, <1>r, <2>e, <1>h, <2>1 DEF Once, Pending
  <2>p7. RuledOnce'
    BY <1>a, <1>b, <1>c, <1>r, <2>e, <1>h, <2>1 DEF RuledOnce, ToRule, Syncers
  <2>p8. BacklogLow'
    BY <1>a, <1>b, <1>c, <1>r, <2>e, <1>h, <2>1 DEF BacklogLow, Low, Below, Current, Reading
  <2>p9. BacklogCached'
    BY <1>a, <1>b, <1>c, <1>r, <2>e, <1>h, <2>1 DEF BacklogCached, Below
  <2>p10. BacklogQuiet'
    BY <1>a, <1>b, <1>c, <1>r, <2>e, <1>h, <2>1 DEF BacklogQuiet, Pending
  <2>p11. QuietHolds'
    BY <1>a, <1>b, <1>c, <1>r, <2>e, <1>h, <2>1 DEF QuietHolds, Holds, Reading
  <2>p12. QuietSyncMatches'
    BY <1>a, <1>b, <1>c, <1>r, <2>e, <1>h, <2>1 DEF QuietSyncMatches, Headers
  <2> QED
    BY <2>p1, <2>p2, <2>p3, <2>p4, <2>p5, <2>p6, <2>p7, <2>p8, <2>p9, <2>p10, <2>p11,
       <2>p12 DEF IInv
<1> QED
  BY <1>1, <1>2, <1>3 DEF Flags

\* The uids are listed; best effort (list_all_uids).
LEMMA ListIInv ==
  ASSUME IInv, NEW s \in Syncers, List(s)
  PROVE  IInv'
<1>a. /\ TypeOK /\ MailNumbered /\ Positions /\ BatchNumbered /\ RowsNumbered /\ Once /\ RuledOnce
      /\ BacklogLow /\ BacklogCached /\ BacklogQuiet /\ QuietHolds /\ QuietSyncMatches
  BY DEF IInv
<1>b. UNCHANGED <<mail, uidNext, validity, modseq, delivered, rows, state, observed, claimed, op,
                ruled, told, quiet, outdated, syncs>>
  BY DEF List, server, store, bounds
<1>c. events' \in Nat
  BY <1>a DEF TypeOK, List, Event
<1>r. Readable' = Readable /\ quiet \subseteq Syncers /\ validity \in Nat \ {0}
  BY <1>a, <1>b DEF TypeOK, Readable, Newest, Poisoned
<1>d. ListUids(s) \in [ok : BOOLEAN, uids : SUBSET Uids] /\ ListUids(s).uids = DOMAIN mail
  BY <1>a DEF TypeOK, ListUids
<1>h. NoList \in [ok : BOOLEAN, uids : SUBSET Uids] /\ ~NoList.ok
  BY DEF NoList
<1>1. ASSUME sync[s].pc = "list", sync' = [sync EXCEPT ![s] = [sync[s] EXCEPT !.pc = "apply",
          !.listed = ListUids(s)]]
      PROVE  IInv'
  <2>e. /\ sync' \in [Syncers -> SyncStates] /\ \A t \in Syncers : t # s => sync'[t] = sync[t]
        /\ sync'[s].pc = "apply" /\ sync'[s].listed = ListUids(s)
        /\ sync'[s].before = sync[s].before /\ sync'[s].found = sync[s].found
        /\ sync'[s].next = sync[s].next /\ sync'[s].batch = sync[s].batch
        /\ sync'[s].flags = sync[s].flags
    <3>1. [sync[s] EXCEPT !.pc = "apply", !.listed = ListUids(s)] \in SyncStates
      <4>1. sync[s] \in SyncStates
        BY <1>a DEF TypeOK, Syncers
      <4> QED
        BY <1>a, <4>1, <1>d DEF TypeOK, SyncStates
    <3> QED
      BY <1>a, <1>1, <1>d, NoSyncFacts, <3>1 DEF TypeOK, SyncStates, NoSync
  <2>1. sync[s].pc = "list"
    BY <1>1
  <2>p1. TypeOK'
    BY <1>a, <1>b, <1>c, <2>e, <2>1 DEF TypeOK
  <2>p2. MailNumbered'
    BY <1>a, <1>b, <1>c, <1>r, <2>e, <1>d, <2>1 DEF MailNumbered, Agree
  <2>p3. Positions'
    BY <1>a, <1>b, <1>c, <1>r, <2>e, <1>d, <2>1 DEF Positions, Reading
  <2>p4. BatchNumbered'
    BY <1>a, <1>b, <1>c, <1>r, <2>e, <1>d, <2>1 DEF BatchNumbered, Current, Agree, Reading
  <2>p5. RowsNumbered'
    BY <1>a, <1>b, <1>c, <1>r, <2>e, <1>d, <2>1 DEF RowsNumbered, Cached, Current, Agree, Reading
  <2>p6. Once'
    BY <1>a, <1>b, <1>c, <1>r, <2>e, <1>d, <2>1 DEF Once, Pending
  <2>p7. RuledOnce'
    BY <1>a, <1>b, <1>c, <1>r, <2>e, <1>d, <2>1 DEF RuledOnce, ToRule, Syncers
  <2>p8. BacklogLow'
    BY <1>a, <1>b, <1>c, <1>r, <2>e, <1>d, <2>1 DEF BacklogLow, Low, Below, Current, Reading
  <2>p9. BacklogCached'
    BY <1>a, <1>b, <1>c, <1>r, <2>e, <1>d, <2>1 DEF BacklogCached, Below
  <2>p10. BacklogQuiet'
    BY <1>a, <1>b, <1>c, <1>r, <2>e, <1>d, <2>1 DEF BacklogQuiet, Pending
  <2>p11. QuietHolds'
    BY <1>a, <1>b, <1>c, <1>r, <2>e, <1>d, <2>1 DEF QuietHolds, Holds, Reading
  <2>p12. QuietSyncMatches'
    BY <1>a, <1>b, <1>c, <1>r, <2>e, <1>d, <2>1 DEF QuietSyncMatches, Headers
  <2> QED
    BY <2>p1, <2>p2, <2>p3, <2>p4, <2>p5, <2>p6, <2>p7, <2>p8, <2>p9, <2>p10, <2>p11,
       <2>p12 DEF IInv
<1>2. ASSUME sync[s].pc = "list", sync' = [sync EXCEPT ![s] = [sync[s] EXCEPT !.pc = "apply",
          !.listed = NoList]]
      PROVE  IInv'
  <2>e. /\ sync' \in [Syncers -> SyncStates] /\ \A t \in Syncers : t # s => sync'[t] = sync[t]
        /\ sync'[s].pc = "apply" /\ sync'[s].listed = NoList /\ sync'[s].before = sync[s].before
        /\ sync'[s].found = sync[s].found /\ sync'[s].next = sync[s].next
        /\ sync'[s].batch = sync[s].batch /\ sync'[s].flags = sync[s].flags
    <3>1. [sync[s] EXCEPT !.pc = "apply", !.listed = NoList] \in SyncStates
      <4>1. sync[s] \in SyncStates
        BY <1>a DEF TypeOK, Syncers
      <4> QED
        BY <1>a, <4>1, <1>h DEF TypeOK, SyncStates
    <3> QED
      BY <1>a, <1>2, <1>h, NoSyncFacts, <3>1 DEF TypeOK, SyncStates, NoSync
  <2>1. sync[s].pc = "list"
    BY <1>2
  <2>p1. TypeOK'
    BY <1>a, <1>b, <1>c, <2>e, <2>1 DEF TypeOK
  <2>p2. MailNumbered'
    BY <1>a, <1>b, <1>c, <1>r, <2>e, <1>h, <2>1 DEF MailNumbered, Agree
  <2>p3. Positions'
    BY <1>a, <1>b, <1>c, <1>r, <2>e, <1>h, <2>1 DEF Positions, Reading
  <2>p4. BatchNumbered'
    BY <1>a, <1>b, <1>c, <1>r, <2>e, <1>h, <2>1 DEF BatchNumbered, Current, Agree, Reading
  <2>p5. RowsNumbered'
    BY <1>a, <1>b, <1>c, <1>r, <2>e, <1>h, <2>1 DEF RowsNumbered, Cached, Current, Agree, Reading
  <2>p6. Once'
    BY <1>a, <1>b, <1>c, <1>r, <2>e, <1>h, <2>1 DEF Once, Pending
  <2>p7. RuledOnce'
    BY <1>a, <1>b, <1>c, <1>r, <2>e, <1>h, <2>1 DEF RuledOnce, ToRule, Syncers
  <2>p8. BacklogLow'
    BY <1>a, <1>b, <1>c, <1>r, <2>e, <1>h, <2>1 DEF BacklogLow, Low, Below, Current, Reading
  <2>p9. BacklogCached'
    BY <1>a, <1>b, <1>c, <1>r, <2>e, <1>h, <2>1 DEF BacklogCached, Below
  <2>p10. BacklogQuiet'
    BY <1>a, <1>b, <1>c, <1>r, <2>e, <1>h, <2>1 DEF BacklogQuiet, Pending
  <2>p11. QuietHolds'
    BY <1>a, <1>b, <1>c, <1>r, <2>e, <1>h, <2>1 DEF QuietHolds, Holds, Reading
  <2>p12. QuietSyncMatches'
    BY <1>a, <1>b, <1>c, <1>r, <2>e, <1>h, <2>1 DEF QuietSyncMatches, Headers
  <2> QED
    BY <2>p1, <2>p2, <2>p3, <2>p4, <2>p5, <2>p6, <2>p7, <2>p8, <2>p9, <2>p10, <2>p11,
       <2>p12 DEF IInv
<1> QED
  BY <1>1, <1>2 DEF List

\* On a dead connection what was being read is read again (with_read_session).
LEMMA ReadAgainIInv ==
  ASSUME IInv, NEW s \in Syncers, ReadAgain(s)
  PROVE  IInv'
<1>a. /\ TypeOK /\ MailNumbered /\ Positions /\ BatchNumbered /\ RowsNumbered /\ Once /\ RuledOnce
      /\ BacklogLow /\ BacklogCached /\ BacklogQuiet /\ QuietHolds /\ QuietSyncMatches
  BY DEF IInv
<1>b. UNCHANGED <<mail, uidNext, validity, modseq, delivered, rows, state, observed, claimed, op,
                ruled, told, quiet, outdated, syncs>>
  BY DEF ReadAgain, server, store, bounds
<1>c. events' \in Nat
  BY <1>a DEF TypeOK, ReadAgain, Event
<1>r. Readable' = Readable /\ quiet \subseteq Syncers /\ validity \in Nat \ {0}
  BY <1>a, <1>b DEF TypeOK, Readable, Newest, Poisoned
<1>1. ASSUME sync[s].pc \in {"flags", "list"},
             sync' = [sync EXCEPT ![s] = [sync[s] EXCEPT !.pc = "flags"]]
      PROVE  IInv'
  <2>e. /\ sync' \in [Syncers -> SyncStates] /\ \A t \in Syncers : t # s => sync'[t] = sync[t]
        /\ sync'[s].pc = "flags" /\ sync'[s].before = sync[s].before
        /\ sync'[s].found = sync[s].found /\ sync'[s].next = sync[s].next
        /\ sync'[s].batch = sync[s].batch
    <3>1. [sync[s] EXCEPT !.pc = "flags"] \in SyncStates
      <4>1. sync[s] \in SyncStates
        BY <1>a DEF TypeOK, Syncers
      <4> QED
        BY <1>a, <4>1 DEF TypeOK, SyncStates
    <3> QED
      BY <1>a, <1>1, NoSyncFacts, <3>1 DEF TypeOK, SyncStates, NoSync
  <2>1. sync[s].pc \in {"flags", "list"}
    BY <1>1
  <2>p1. TypeOK'
    BY <1>a, <1>b, <1>c, <2>e, <2>1 DEF TypeOK
  <2>p2. MailNumbered'
    BY <1>a, <1>b, <1>c, <1>r, <2>e, <2>1 DEF MailNumbered, Agree
  <2>p3. Positions'
    BY <1>a, <1>b, <1>c, <1>r, <2>e, <2>1 DEF Positions, Reading
  <2>p4. BatchNumbered'
    BY <1>a, <1>b, <1>c, <1>r, <2>e, <2>1 DEF BatchNumbered, Current, Agree, Reading
  <2>p5. RowsNumbered'
    BY <1>a, <1>b, <1>c, <1>r, <2>e, <2>1 DEF RowsNumbered, Cached, Current, Agree, Reading
  <2>p6. Once'
    BY <1>a, <1>b, <1>c, <1>r, <2>e, <2>1 DEF Once, Pending
  <2>p7. RuledOnce'
    BY <1>a, <1>b, <1>c, <1>r, <2>e, <2>1 DEF RuledOnce, ToRule, Syncers
  <2>p8. BacklogLow'
    BY <1>a, <1>b, <1>c, <1>r, <2>e, <2>1 DEF BacklogLow, Low, Below, Current, Reading
  <2>p9. BacklogCached'
    BY <1>a, <1>b, <1>c, <1>r, <2>e, <2>1 DEF BacklogCached, Below
  <2>p10. BacklogQuiet'
    BY <1>a, <1>b, <1>c, <1>r, <2>e, <2>1 DEF BacklogQuiet, Pending
  <2>p11. QuietHolds'
    BY <1>a, <1>b, <1>c, <1>r, <2>e, <2>1 DEF QuietHolds, Holds, Reading
  <2>p12. QuietSyncMatches'
    BY <1>a, <1>b, <1>c, <1>r, <2>e, <2>1 DEF QuietSyncMatches, Headers
  <2> QED
    BY <2>p1, <2>p2, <2>p3, <2>p4, <2>p5, <2>p6, <2>p7, <2>p8, <2>p9, <2>p10, <2>p11,
       <2>p12 DEF IInv
<1>2. ASSUME sync[s].pc \in {"flags", "list"},
             sync' = [sync EXCEPT ![s] = [NoSync EXCEPT !.pc = "fetch", !.before = sync[s].before,
                              !.validity = sync[s].validity, !.modseq = sync[s].modseq]]
      PROVE  IInv'
  <2>e. /\ sync' \in [Syncers -> SyncStates] /\ \A t \in Syncers : t # s => sync'[t] = sync[t]
        /\ sync'[s].pc = "fetch" /\ sync'[s].before = sync[s].before /\ sync'[s].found = 0
        /\ sync'[s].next = 0
    <3>1. [NoSync EXCEPT !.pc = "fetch", !.before = sync[s].before,
                              !.validity = sync[s].validity,
                                        !.modseq = sync[s].modseq] \in SyncStates
      BY <1>a, NoSyncFacts DEF TypeOK, SyncStates
    <3> QED
      BY <1>a, <1>2, NoSyncFacts, <3>1 DEF TypeOK, SyncStates, NoSync
  <2>1. sync[s].pc \in {"flags", "list"}
    BY <1>2
  <2>p1. TypeOK'
    BY <1>a, <1>b, <1>c, <2>e, <2>1 DEF TypeOK
  <2>p2. MailNumbered'
    BY <1>a, <1>b, <1>c, <1>r, <2>e, <2>1 DEF MailNumbered, Agree
  <2>p3. Positions'
    BY <1>a, <1>b, <1>c, <1>r, <2>e, <2>1 DEF Positions, Reading
  <2>p4. BatchNumbered'
    BY <1>a, <1>b, <1>c, <1>r, <2>e, <2>1 DEF BatchNumbered, Current, Agree, Reading
  <2>p5. RowsNumbered'
    BY <1>a, <1>b, <1>c, <1>r, <2>e, <2>1 DEF RowsNumbered, Cached, Current, Agree, Reading
  <2>p6. Once'
    BY <1>a, <1>b, <1>c, <1>r, <2>e, <2>1 DEF Once, Pending
  <2>p7. RuledOnce'
    BY <1>a, <1>b, <1>c, <1>r, <2>e, <2>1 DEF RuledOnce, ToRule, Syncers
  <2>p8. BacklogLow'
    BY <1>a, <1>b, <1>c, <1>r, <2>e, <2>1 DEF BacklogLow, Low, Below, Current, Reading
  <2>p9. BacklogCached'
    BY <1>a, <1>b, <1>c, <1>r, <2>e, <2>1 DEF BacklogCached, Below
  <2>p10. BacklogQuiet'
    BY <1>a, <1>b, <1>c, <1>r, <2>e, <2>1 DEF BacklogQuiet, Pending
  <2>p11. QuietHolds'
    BY <1>a, <1>b, <1>c, <1>r, <2>e, <2>1 DEF QuietHolds, Holds, Reading
  <2>p12. QuietSyncMatches'
    BY <1>a, <1>b, <1>c, <1>r, <2>e, <2>1 DEF QuietSyncMatches, Headers
  <2> QED
    BY <2>p1, <2>p2, <2>p3, <2>p4, <2>p5, <2>p6, <2>p7, <2>p8, <2>p9, <2>p10, <2>p11,
       <2>p12 DEF IInv
<1> QED
  BY <1>1, <1>2 DEF ReadAgain

\* A sync fails, and is tried again or given up (retry_background_sync_after).
LEMMA SyncFailsIInv ==
  ASSUME IInv, NEW s \in Syncers, SyncFails(s)
  PROVE  IInv'
<1>a. /\ TypeOK /\ MailNumbered /\ Positions /\ BatchNumbered /\ RowsNumbered /\ Once /\ RuledOnce
      /\ BacklogLow /\ BacklogCached /\ BacklogQuiet /\ QuietHolds /\ QuietSyncMatches
  BY DEF IInv
<1>b. UNCHANGED <<mail, uidNext, validity, modseq, delivered, rows, state, observed, op, ruled,
                told, outdated, syncs>>
  BY DEF SyncFails, server, store, bounds
<1>c. events' \in Nat /\ claimed' \in Syncers \cup {"nobody"} /\ quiet' \subseteq quiet
          /\ s \notin quiet'
  BY <1>a DEF TypeOK, SyncFails, Event, Unclaimed
<1>r. Readable' = Readable /\ quiet \subseteq Syncers /\ validity \in Nat \ {0}
  BY <1>a, <1>b DEF TypeOK, Readable, Newest, Poisoned
<1>1. ASSUME sync[s].pc \in {"fetch", "recent", "isolate", "flags", "list"},
             sync' = [sync EXCEPT ![s] = [NoSync EXCEPT !.pc = "prior", !.before = sync[s].before]]
      PROVE  IInv'
  <2>e. /\ sync' \in [Syncers -> SyncStates] /\ \A t \in Syncers : t # s => sync'[t] = sync[t]
        /\ sync'[s].pc = "prior" /\ sync'[s].before = sync[s].before /\ sync'[s].found = 0
        /\ sync'[s].next = 0
    <3>1. [NoSync EXCEPT !.pc = "prior", !.before = sync[s].before] \in SyncStates
      BY <1>a, NoSyncFacts DEF TypeOK, SyncStates
    <3> QED
      BY <1>a, <1>1, NoSyncFacts, <3>1 DEF TypeOK, SyncStates, NoSync
  <2>p1. TypeOK'
    BY <1>a, <1>b, <1>c, <2>e DEF TypeOK
  <2>p2. MailNumbered'
    BY <1>a, <1>b, <1>c, <1>r, <2>e DEF MailNumbered, Agree
  <2>p3. Positions'
    BY <1>a, <1>b, <1>c, <1>r, <2>e DEF Positions, Reading
  <2>p4. BatchNumbered'
    BY <1>a, <1>b, <1>c, <1>r, <2>e DEF BatchNumbered, Current, Agree, Reading
  <2>p5. RowsNumbered'
    BY <1>a, <1>b, <1>c, <1>r, <2>e DEF RowsNumbered, Cached, Current, Agree, Reading
  <2>p6. Once'
    BY <1>a, <1>b, <1>c, <1>r, <2>e DEF Once, Pending
  <2>p7. RuledOnce'
    BY <1>a, <1>b, <1>c, <1>r, <2>e DEF RuledOnce, ToRule, Syncers
  <2>p8. BacklogLow'
    BY <1>a, <1>b, <1>c, <1>r, <2>e DEF BacklogLow, Low, Below, Current, Reading
  <2>p9. BacklogCached'
    BY <1>a, <1>b, <1>c, <1>r, <2>e DEF BacklogCached, Below
  <2>p10. BacklogQuiet'
    BY <1>a, <1>b, <1>c, <1>r, <2>e DEF BacklogQuiet, Pending
  <2>p11. QuietHolds'
    BY <1>a, <1>b, <1>c, <1>r, <2>e DEF QuietHolds, Holds, Reading
  <2>p12. QuietSyncMatches'
    BY <1>a, <1>b, <1>c, <1>r, <2>e DEF QuietSyncMatches, Headers
  <2> QED
    BY <2>p1, <2>p2, <2>p3, <2>p4, <2>p5, <2>p6, <2>p7, <2>p8, <2>p9, <2>p10, <2>p11,
       <2>p12 DEF IInv
<1>2. ASSUME sync[s].pc \in {"fetch", "recent", "isolate", "flags", "list"},
             sync' = [sync EXCEPT ![s] = NoSync]
      PROVE  IInv'
  <2>e. /\ sync' \in [Syncers -> SyncStates] /\ \A t \in Syncers : t # s => sync'[t] = sync[t]
        /\ sync'[s].pc = "idle" /\ sync'[s].before = 0 /\ sync'[s].found = 0 /\ sync'[s].next = 0
    <3>1. NoSync \in SyncStates
      BY <1>a, NoSyncFacts DEF TypeOK, SyncStates
    <3> QED
      BY <1>a, <1>2, NoSyncFacts, <3>1 DEF TypeOK, SyncStates, NoSync
  <2>p1. TypeOK'
    BY <1>a, <1>b, <1>c, <2>e DEF TypeOK
  <2>p2. MailNumbered'
    BY <1>a, <1>b, <1>c, <1>r, <2>e DEF MailNumbered, Agree
  <2>p3. Positions'
    BY <1>a, <1>b, <1>c, <1>r, <2>e DEF Positions, Reading
  <2>p4. BatchNumbered'
    BY <1>a, <1>b, <1>c, <1>r, <2>e DEF BatchNumbered, Current, Agree, Reading
  <2>p5. RowsNumbered'
    BY <1>a, <1>b, <1>c, <1>r, <2>e DEF RowsNumbered, Cached, Current, Agree, Reading
  <2>p6. Once'
    BY <1>a, <1>b, <1>c, <1>r, <2>e DEF Once, Pending
  <2>p7. RuledOnce'
    BY <1>a, <1>b, <1>c, <1>r, <2>e DEF RuledOnce, ToRule, Syncers
  <2>p8. BacklogLow'
    BY <1>a, <1>b, <1>c, <1>r, <2>e DEF BacklogLow, Low, Below, Current, Reading
  <2>p9. BacklogCached'
    BY <1>a, <1>b, <1>c, <1>r, <2>e DEF BacklogCached, Below
  <2>p10. BacklogQuiet'
    BY <1>a, <1>b, <1>c, <1>r, <2>e DEF BacklogQuiet, Pending
  <2>p11. QuietHolds'
    BY <1>a, <1>b, <1>c, <1>r, <2>e DEF QuietHolds, Holds, Reading
  <2>p12. QuietSyncMatches'
    BY <1>a, <1>b, <1>c, <1>r, <2>e DEF QuietSyncMatches, Headers
  <2> QED
    BY <2>p1, <2>p2, <2>p3, <2>p4, <2>p5, <2>p6, <2>p7, <2>p8, <2>p9, <2>p10, <2>p11,
       <2>p12 DEF IInv
<1> QED
  BY <1>1, <1>2 DEF SyncFails

\* What Apply makes of the rows: the batch over what is kept, pruned to the list, with the
\* changed flags.
LEMMA UpdatedFacts ==
  ASSUME TypeOK, NEW s \in Syncers
  PROVE  LET batch == sync[s].batch
             changes == sync[s].flags.changes
             new == Updated(s)
         IN  /\ new \in Headed /\ DOMAIN Kept(s) \subseteq DOMAIN rows
             /\ DOMAIN new \subseteq DOMAIN batch \cup DOMAIN Kept(s)
             /\ Believed(s) => DOMAIN new \subseteq sync[s].listed.uids
             /\ \A u \in DOMAIN batch : (Believed(s) => u \in sync[s].listed.uids) => u \in DOMAIN new
             /\ \A u \in DOMAIN new :
                  /\ new[u].msg = IF u \in DOMAIN batch THEN batch[u].msg ELSE rows[u].msg
                  /\ new[u].seen = IF u \in DOMAIN changes THEN changes[u]
                                   ELSE IF u \in DOMAIN batch THEN batch[u].seen ELSE rows[u].seen
<1> DEFINE batch == sync[s].batch
           changes == sync[s].flags.changes
           all == Over(batch, Kept(s))
           left == IF Believed(s) THEN Only(all, sync[s].listed.uids) ELSE all
<1>1. /\ batch \in Headed /\ changes \in Changes /\ rows \in Headed
  BY DEF TypeOK, SyncStates
<1>2. /\ DOMAIN Kept(s) \subseteq DOMAIN rows /\ \A u \in DOMAIN Kept(s) : Kept(s)[u] = rows[u]
  BY NothingFacts DEF Kept
<1>3. \A u \in DOMAIN changes : changes[u] \in BOOLEAN
  BY <1>1 DEF Changes
<1>4. /\ DOMAIN batch \subseteq Uids /\ \A u \in DOMAIN batch : batch[u] \in Header
      /\ DOMAIN rows \subseteq Uids /\ \A u \in DOMAIN rows : rows[u] \in Header
  BY <1>1 DEF Headed
<1> HIDE DEF batch, changes
<1>5. /\ DOMAIN all = DOMAIN batch \cup DOMAIN Kept(s)
      /\ \A u \in DOMAIN all : all[u] = IF u \in DOMAIN batch THEN batch[u] ELSE rows[u]
  BY <1>2 DEF Over
<1>6. \A u \in DOMAIN all : all[u] \in Header /\ u \in Uids
  BY <1>2, <1>4, <1>5
<1> HIDE DEF all
<1>7. /\ DOMAIN left \subseteq DOMAIN all /\ \A u \in DOMAIN left : left[u] = all[u]
      /\ Believed(s) => DOMAIN left \subseteq sync[s].listed.uids
      /\ \A u \in DOMAIN all : (Believed(s) => u \in sync[s].listed.uids) => u \in DOMAIN left
  BY DEF Only
<1> HIDE DEF left
<1>8. Updated(s) = [u \in DOMAIN left |->
                     IF u \in DOMAIN changes THEN [left[u] EXCEPT !.seen = changes[u]] ELSE left[u]]
  BY DEF Updated, left, all, batch, changes
<1>9. Updated(s) \in [DOMAIN left -> Header]
  BY <1>3, <1>6, <1>7, <1>8 DEF Header
<1>10. Updated(s) \in Headed /\ DOMAIN Updated(s) = DOMAIN left
  <2>1. DOMAIN left \in SUBSET Uids
    BY <1>6, <1>7
  <2> QED
    BY <1>9, <2>1 DEF Headed
<1>11. \A u \in DOMAIN left :
         /\ Updated(s)[u].msg = all[u].msg
         /\ Updated(s)[u].seen = IF u \in DOMAIN changes THEN changes[u] ELSE all[u].seen
  BY <1>6, <1>7, <1>8 DEF Header
<1> QED
  BY <1>2, <1>5, <1>7, <1>10, <1>11 DEF batch, changes

\* The rows and the position are written (sync_messages).
LEMMA ApplyIInv ==
  ASSUME IInv, NEW s \in Syncers, Apply(s)
  PROVE  IInv'
<1>a. /\ TypeOK /\ MailNumbered /\ Positions /\ BatchNumbered /\ RowsNumbered /\ Once /\ RuledOnce
      /\ BacklogLow /\ BacklogCached /\ BacklogQuiet /\ QuietHolds /\ QuietSyncMatches
  BY DEF IInv
<1>b. UNCHANGED <<mail, uidNext, validity, modseq, delivered, observed, op, ruled, told, syncs,
                events>>
  BY DEF Apply, server, bounds
<1>r. Readable' = Readable /\ quiet \subseteq Syncers /\ validity \in Nat \ {0}
  BY <1>a, <1>b DEF TypeOK, Readable, Newest, Poisoned
<1>c. /\ sync[s].pc = "apply" /\ claimed' \in Syncers \cup {"nobody"}
      /\ quiet' \subseteq quiet /\ quiet' \subseteq {s} /\ outdated' \in BOOLEAN
      /\ state' \in [validity : Nat, uidNext : Nat, modseq : Nat]
      /\ state'.validity = sync[s].found /\ state'.uidNext = sync[s].next
  <2>1. sync[s] \in SyncStates /\ sync[s].pc = "apply"
    BY <1>a DEF TypeOK, Apply
  <2>2. sync[s].found \in Nat /\ sync[s].next \in Nat /\ sync[s].flags.high \in Nat
            /\ state.modseq \in Nat
    BY <1>a, <2>1 DEF SyncStates, TypeOK
  <2>3. /\ state' \in [validity : Nat, uidNext : Nat, modseq : Nat]
        /\ state'.validity = sync[s].found /\ state'.uidNext = sync[s].next
    BY <2>2 DEF Apply
  <2>4. claimed' \in Syncers \cup {"nobody"} /\ quiet' \subseteq quiet /\ quiet' \subseteq {s}
    BY <1>a DEF TypeOK, Apply, Unclaimed
  <2>5. outdated' \in BOOLEAN
    BY DEF Apply
  <2> QED
    BY <2>1, <2>3, <2>4, <2>5
<1>d. /\ rows' \in Headed
      /\ \A u \in DOMAIN rows' : /\ u \in DOMAIN sync[s].batch \/ u \in DOMAIN Kept(s)
                                 /\ rows'[u].msg = IF u \in DOMAIN sync[s].batch THEN sync[s].batch[u].msg
                                                   ELSE rows[u].msg
      /\ DOMAIN Kept(s) \subseteq DOMAIN rows
  <2>1. rows' = Updated(s)
    BY DEF Apply
  <2> QED
    BY <1>a, <2>1, UpdatedFacts
<1>f. ~outdated' => /\ ~outdated /\ sync[s].found = validity /\ Current(s)
                    /\ DOMAIN Kept(s) = {} \/ Cached
  BY <1>c DEF Apply, Current, Cached, Reading
<1>g. PICK pc \in {"companions", "after"} : sync' = [sync EXCEPT ![s] = [NoSync EXCEPT !.pc = pc,
          !.before = sync[s].before, !.batch = sync[s].batch,
                              !.whole = sync[s].flags.ok /\ sync[s].listed.ok]]
  BY DEF Apply
<1>e. /\ sync' \in [Syncers -> SyncStates] /\ \A t \in Syncers : t # s => sync'[t] = sync[t]
      /\ sync'[s].pc = pc /\ sync'[s].before = sync[s].before /\ sync'[s].found = 0
      /\ sync'[s].next = 0 /\ sync'[s].batch = sync[s].batch
      /\ sync'[s].whole = (sync[s].flags.ok /\ sync[s].listed.ok)
  <2>1. [NoSync EXCEPT !.pc = pc, !.before = sync[s].before, !.batch = sync[s].batch,
                              !.whole = sync[s].flags.ok /\ sync[s].listed.ok] \in SyncStates
    BY <1>a, NoSyncFacts, <1>g, <1>a DEF TypeOK, SyncStates
  <2> QED
    BY <1>a, <1>g, <1>a, NoSyncFacts, <2>1 DEF TypeOK, SyncStates, NoSync
<1>h. sync'[s].pc \in {"companions", "after"}
  BY <1>e
<1>q. QuietSyncMatches'
  <2> SUFFICES ASSUME s \in quiet, sync[s].flags.ok, sync[s].listed.ok
               PROVE  /\ DOMAIN rows' \subseteq DOMAIN mail
                      /\ \A u \in Readable : u \in DOMAIN rows' /\ rows'[u] = Headers({u})[u]
    BY <1>b, <1>c, <1>e, <1>r DEF QuietSyncMatches, Headers
  <2>1. Holds(s)
    BY <1>a DEF QuietHolds
  <2>2. /\ DOMAIN sync[s].batch = Readable /\ sync[s].listed.uids = DOMAIN mail
        /\ \A u \in Readable : sync[s].batch[u].msg = mail[u].msg
                  /\ sync[s].batch[u].seen = mail[u].seen
        /\ \A u \in DOMAIN sync[s].flags.changes :
             u \in DOMAIN mail /\ sync[s].flags.changes[u] = mail[u].seen
    BY <2>1, <1>c DEF Holds, Reading
  <2>3. Readable \subseteq DOMAIN mail
    BY DEF Readable, Newest
  <2>4. rows' = Updated(s)
    BY DEF Apply
  <2>5. /\ DOMAIN rows' \subseteq DOMAIN sync[s].batch \cup DOMAIN Kept(s)
        /\ Believed(s) => DOMAIN rows' \subseteq sync[s].listed.uids
        /\ \A u \in DOMAIN sync[s].batch : (Believed(s) => u \in sync[s].listed.uids) => u \in DOMAIN rows'
        /\ \A u \in DOMAIN rows' :
             /\ rows'[u].msg = IF u \in DOMAIN sync[s].batch THEN sync[s].batch[u].msg ELSE rows[u].msg
             /\ rows'[u].seen = IF u \in DOMAIN sync[s].flags.changes THEN sync[s].flags.changes[u]
                                ELSE IF u \in DOMAIN sync[s].batch THEN sync[s].batch[u].seen ELSE rows[u].seen
    BY <1>a, <2>4, UpdatedFacts
  <2>6. DOMAIN rows' \subseteq DOMAIN mail
    <3>1. CASE Believed(s)
      BY <3>1, <2>2, <2>5
    <3>2. CASE ~Believed(s)
      <4>1. (sync[s].validity # 0
                /\ sync[s].validity # sync[s].found) \/ (sync[s].listed.uids = {}
                /\ DOMAIN sync[s].batch # {})
        BY <3>2 DEF Believed, SameValidity
      <4>2. ~(sync[s].listed.uids = {} /\ DOMAIN sync[s].batch # {})
        BY <2>2, <2>3
      <4>3. Kept(s) = Nothing
        BY <4>1, <4>2 DEF Kept
      <4> QED
        BY <4>3, <2>2, <2>3, <2>5, NothingFacts
    <3> QED
      BY <3>1, <3>2
  <2>7. ASSUME NEW u \in Readable
        PROVE  u \in DOMAIN rows' /\ rows'[u] = Headers({u})[u]
    <3>1. u \in DOMAIN rows' /\ rows'[u].msg = mail[u].msg /\ rows'[u].seen = mail[u].seen
      BY <2>2, <2>3, <2>5
    <3>2. rows'[u] \in Header
      BY <1>d, <3>1 DEF Headed
    <3>3. rows'[u] = [msg |-> rows'[u].msg, seen |-> rows'[u].seen]
      BY <3>2 DEF Header
    <3> QED
      BY <3>1, <3>3 DEF Headers
  <2> QED
    BY <2>6, <2>7
<1>p1. TypeOK'
  BY <1>a, <1>b, <1>c, <1>d, <1>e DEF TypeOK
<1>p2. MailNumbered'
  BY <1>a, <1>b, <1>c, <1>d, <1>e, <1>f, <1>h, <1>r DEF MailNumbered, Agree
<1>p3. Positions'
  BY <1>a, <1>b, <1>c, <1>d, <1>e, <1>f, <1>h, <1>r DEF Positions, Reading
<1>p4. BatchNumbered'
  BY <1>a, <1>b, <1>c, <1>d, <1>e, <1>f, <1>h, <1>r DEF BatchNumbered, Current, Agree, Reading
<1>p5. RowsNumbered'
  BY <1>a, <1>b, <1>c, <1>d, <1>e, <1>f, <1>h, <1>r DEF RowsNumbered, Cached, Current, Agree,
     Reading, BatchNumbered
<1>p6. Once'
  BY <1>a, <1>b, <1>c, <1>d, <1>e, <1>f, <1>h, <1>r DEF Once, Pending
<1>p7. RuledOnce'
  BY <1>a, <1>b, <1>c, <1>d, <1>e, <1>f, <1>h, <1>r DEF RuledOnce, ToRule, Syncers
<1>p8. BacklogLow'
  BY <1>a, <1>b, <1>c, <1>d, <1>e, <1>f, <1>h, <1>r DEF BacklogLow, Low, Below, Current, Reading
<1>p9. BacklogCached'
  BY <1>a, <1>b, <1>c, <1>d, <1>e, <1>f, <1>h, <1>r DEF BacklogCached, Below, BacklogLow, Low
<1>p10. BacklogQuiet'
  BY <1>a, <1>b, <1>c, <1>d, <1>e, <1>f, <1>h, <1>r DEF BacklogQuiet, Pending
<1>p11. QuietHolds'
  BY <1>a, <1>b, <1>c, <1>d, <1>e, <1>f, <1>h, <1>r DEF QuietHolds, Holds, Reading
<1>p12. QuietSyncMatches'
  BY <1>q
<1> QED
  BY <1>p1, <1>p2, <1>p3, <1>p4, <1>p5, <1>p6, <1>p7, <1>p8, <1>p9, <1>p10, <1>p11, <1>p12 DEF IInv

-----------------------------------------------------------------------------
(* Arrivals.                                                               *)

\* The sync of the Sent folder records what is cached (sync_companion_folders).
LEMMA CompanionsIInv == IInv /\ Companions => IInv'
<1> SUFFICES ASSUME IInv, Companions PROVE IInv'
  OBVIOUS
<1>a. /\ TypeOK /\ MailNumbered /\ Positions /\ BatchNumbered /\ RowsNumbered /\ Once /\ RuledOnce
      /\ BacklogLow /\ BacklogCached /\ BacklogQuiet /\ QuietHolds /\ QuietSyncMatches
  BY DEF IInv
<1>s. PICK s \in Syncers : s = "refresh"
  BY DEF Syncers
<1>b. UNCHANGED <<mail, uidNext, validity, modseq, delivered, rows, state, claimed, op, ruled,
                told, quiet, outdated, syncs, events>>
  BY DEF Companions, server, bounds
<1>c. observed' \subseteq Msgs /\ observed \subseteq observed' /\ sync[s].pc = "companions"
  BY <1>a, <1>s, HeadedFacts DEF TypeOK, Companions, Backfilled
<1>d. sync' = [sync EXCEPT ![s] = [sync[s] EXCEPT !.pc = "after"]]
  BY <1>s DEF Companions
<1>e. /\ sync' \in [Syncers -> SyncStates] /\ \A t \in Syncers : t # s => sync'[t] = sync[t]
      /\ sync'[s].pc = "after" /\ sync'[s].whole = sync[s].whole
      /\ sync'[s].before = sync[s].before /\ sync'[s].found = sync[s].found
      /\ sync'[s].next = sync[s].next /\ sync'[s].batch = sync[s].batch
  <2>1. [sync[s] EXCEPT !.pc = "after"] \in SyncStates
    <3>1. sync[s] \in SyncStates
      BY <1>a DEF TypeOK, Syncers
    <3> QED
      BY <1>a, <3>1, <1>s DEF TypeOK, SyncStates
  <2> QED
    BY <1>a, <1>s, <1>d, NoSyncFacts, <2>1 DEF TypeOK, SyncStates, NoSync
<1>r. Readable' = Readable /\ quiet \subseteq Syncers /\ validity \in Nat \ {0}
  BY <1>a, <1>b DEF TypeOK, Readable, Newest, Poisoned
<1>p1. TypeOK'
  BY <1>a, <1>b, <1>c, <1>e DEF TypeOK
<1>p2. MailNumbered'
  BY <1>a, <1>b, <1>c, <1>e, <1>r, <1>s DEF MailNumbered, Agree
<1>p3. Positions'
  BY <1>a, <1>b, <1>c, <1>e, <1>r, <1>s DEF Positions, Reading
<1>p4. BatchNumbered'
  BY <1>a, <1>b, <1>c, <1>e, <1>r, <1>s DEF BatchNumbered, Current, Agree, Reading
<1>p5. RowsNumbered'
  BY <1>a, <1>b, <1>c, <1>e, <1>r, <1>s DEF RowsNumbered, Cached, Current, Agree, Reading
<1>p6. Once'
  BY <1>a, <1>b, <1>c, <1>e, <1>r, <1>s DEF Once, Pending
<1>p7. RuledOnce'
  BY <1>a, <1>b, <1>c, <1>e, <1>r, <1>s DEF RuledOnce, ToRule, Syncers
<1>p8. BacklogLow'
  BY <1>a, <1>b, <1>c, <1>e, <1>r, <1>s DEF BacklogLow, Low, Below, Current, Reading
<1>p9. BacklogCached'
  BY <1>a, <1>b, <1>c, <1>e, <1>r, <1>s DEF BacklogCached, Below
<1>p10. BacklogQuiet'
  BY <1>a, <1>b, <1>c, <1>e, <1>r, <1>s DEF BacklogQuiet, Pending
<1>p11. QuietHolds'
  BY <1>a, <1>b, <1>c, <1>e, <1>r, <1>s DEF QuietHolds, Holds, Reading
<1>p12. QuietSyncMatches'
  BY <1>a, <1>b, <1>c, <1>e, <1>r, <1>s DEF QuietSyncMatches, Headers
<1> QED
  BY <1>p1, <1>p2, <1>p3, <1>p4, <1>p5, <1>p6, <1>p7, <1>p8, <1>p9, <1>p10, <1>p11, <1>p12 DEF IInv

\* The cached UIDNEXT is read again.
LEMMA AfterIInv ==
  ASSUME IInv, NEW s \in Syncers, After(s)
  PROVE  IInv'
<1>a. /\ TypeOK /\ MailNumbered /\ Positions /\ BatchNumbered /\ RowsNumbered /\ Once /\ RuledOnce
      /\ BacklogLow /\ BacklogCached /\ BacklogQuiet /\ QuietHolds /\ QuietSyncMatches
  BY DEF IInv
<1>b. UNCHANGED <<mail, uidNext, validity, modseq, delivered, rows, state, observed, claimed, op,
                ruled, told, quiet, outdated, syncs, events>>
  BY DEF After, server, store, bounds
<1>r. Readable' = Readable /\ quiet \subseteq Syncers /\ validity \in Nat \ {0}
  BY <1>a, <1>b DEF TypeOK, Readable, Newest, Poisoned
<1>1. ASSUME sync[s].pc = "after", sync' = [sync EXCEPT ![s] = [sync[s] EXCEPT !.pc = "arrivals",
          !.after = state.uidNext]]
      PROVE  IInv'
  <2>e. /\ sync' \in [Syncers -> SyncStates] /\ \A t \in Syncers : t # s => sync'[t] = sync[t]
        /\ sync'[s].pc = "arrivals" /\ sync'[s].before = sync[s].before
        /\ sync'[s].found = sync[s].found /\ sync'[s].next = sync[s].next
        /\ sync'[s].batch = sync[s].batch
    <3>1. [sync[s] EXCEPT !.pc = "arrivals", !.after = state.uidNext] \in SyncStates
      <4>1. sync[s] \in SyncStates
        BY <1>a DEF TypeOK, Syncers
      <4> QED
        BY <1>a, <4>1 DEF TypeOK, SyncStates
    <3> QED
      BY <1>a, <1>1, NoSyncFacts, <3>1 DEF TypeOK, SyncStates, NoSync
  <2>1. sync[s].pc = "after"
    BY <1>1
  <2>p1. TypeOK'
    BY <1>a, <1>b, <2>e, <2>1 DEF TypeOK
  <2>p2. MailNumbered'
    BY <1>a, <1>b, <1>r, <2>e, <2>1 DEF MailNumbered, Agree
  <2>p3. Positions'
    BY <1>a, <1>b, <1>r, <2>e, <2>1 DEF Positions, Reading
  <2>p4. BatchNumbered'
    BY <1>a, <1>b, <1>r, <2>e, <2>1 DEF BatchNumbered, Current, Agree, Reading
  <2>p5. RowsNumbered'
    BY <1>a, <1>b, <1>r, <2>e, <2>1 DEF RowsNumbered, Cached, Current, Agree, Reading
  <2>p6. Once'
    BY <1>a, <1>b, <1>r, <2>e, <2>1 DEF Once, Pending
  <2>p7. RuledOnce'
    BY <1>a, <1>b, <1>r, <2>e, <2>1 DEF RuledOnce, ToRule, Syncers
  <2>p8. BacklogLow'
    BY <1>a, <1>b, <1>r, <2>e, <2>1 DEF BacklogLow, Low, Below, Current, Reading
  <2>p9. BacklogCached'
    BY <1>a, <1>b, <1>r, <2>e, <2>1 DEF BacklogCached, Below
  <2>p10. BacklogQuiet'
    BY <1>a, <1>b, <1>r, <2>e, <2>1 DEF BacklogQuiet, Pending
  <2>p11. QuietHolds'
    BY <1>a, <1>b, <1>r, <2>e, <2>1 DEF QuietHolds, Holds, Reading
  <2>p12. QuietSyncMatches'
    BY <1>a, <1>b, <1>r, <2>e, <2>1 DEF QuietSyncMatches, Headers
  <2> QED
    BY <2>p1, <2>p2, <2>p3, <2>p4, <2>p5, <2>p6, <2>p7, <2>p8, <2>p9, <2>p10, <2>p11,
       <2>p12 DEF IInv
<1> QED
  BY <1>1 DEF After

\* Arrivals are cached, above the position the sync started from, and not recorded before.
LEMMA NewUnreadFacts ==
  ASSUME TypeOK, NEW s \in Syncers
  PROVE  /\ NewUnread(s) \in News
         /\ Batch(s) \subseteq Msgs
         /\ \A u \in DOMAIN NewUnread(s) :
              /\ u \in DOMAIN rows /\ NewUnread(s)[u] = rows[u].msg
              /\ Advanced(s) /\ sync[s].before <= u
              /\ NewUnread(s)[u] \in Batch(s) /\ NewUnread(s)[u] \notin observed
<1>1. rows \in Headed /\ sync[s].batch \in Headed
  BY DEF TypeOK, SyncStates
<1> DEFINE U == {v \in DOMAIN rows :
                   /\ Advanced(s) /\ sync[s].before <= v /\ v < sync[s].after
                   /\ ~rows[v].seen /\ rows[v].msg \in NewlyObserved(s)}
<1>2. /\ NewUnread(s) = [u \in U |-> rows[u].msg] /\ U \subseteq DOMAIN rows
  BY DEF NewUnread
<1>3. /\ U \in SUBSET Uids /\ NewUnread(s) \in [U -> Msgs]
  BY <1>1, <1>2, HeadedFacts
<1>4. NewUnread(s) \in News
  BY <1>3 DEF News
<1>5. Batch(s) \subseteq Msgs
  BY <1>1, HeadedFacts DEF Batch
<1> QED
  BY <1>2, <1>4, <1>5 DEF NewlyObserved

\* New unread mail is found, and recorded (new_unread_inbox_messages).
LEMMA ArrivalsIInv ==
  ASSUME IInv, NEW s \in Syncers, Arrivals(s)
  PROVE  IInv'
<1>a. /\ TypeOK /\ MailNumbered /\ Positions /\ BatchNumbered /\ RowsNumbered /\ Once /\ RuledOnce
      /\ BacklogLow /\ BacklogCached /\ BacklogQuiet /\ QuietHolds /\ QuietSyncMatches
  BY DEF IInv
<1>b. UNCHANGED <<mail, uidNext, validity, modseq, delivered, rows, state, claimed, op, ruled,
                told, quiet, outdated, syncs, events>>
  BY DEF Arrivals, server, store, bounds
<1>c. observed' \subseteq Msgs /\ observed \subseteq observed'
      /\ \A u \in DOMAIN NewUnread(s) : NewUnread(s)[u] \in observed'
  BY <1>a, NewUnreadFacts DEF TypeOK, Arrivals
<1>r. Readable' = Readable /\ quiet \subseteq Syncers /\ validity \in Nat \ {0}
  BY <1>a, <1>b DEF TypeOK, Readable, Newest, Poisoned
<1>d. /\ NewUnread(s) \in News
      /\ \A u \in DOMAIN NewUnread(s) :
           /\ u \in DOMAIN rows /\ NewUnread(s)[u] = rows[u].msg
           /\ sync[s].before # 0 /\ sync[s].before <= u /\ NewUnread(s)[u] \notin observed
  BY <1>a, NewUnreadFacts DEF Advanced
<1>h. /\ Backlog \in Nat /\ Msgs \subseteq Nat /\ Uids \subseteq Nat
  BY MailSyncBounds DEF Msgs, Uids
<1>i. /\ DOMAIN NewUnread(s) \subseteq Uids
          /\ \A u \in DOMAIN NewUnread(s) : NewUnread(s)[u] \in Msgs
      /\ told \in [Msgs -> Nat] /\ ruled \in [Msgs -> Nat]
  BY <1>a, <1>d, NewsFacts DEF TypeOK
<1>j. sync[s].before \in Nat /\ sync[s].pc = "arrivals"
  BY <1>a DEF TypeOK, SyncStates, Arrivals
<1>k. \A u \in DOMAIN NewUnread(s) : told[NewUnread(s)[u]] = 0 /\ ruled[NewUnread(s)[u]] = 0
  BY <1>a, <1>d, <1>i DEF Once
<1>l. ASSUME ~outdated, NEW u \in DOMAIN NewUnread(s) PROVE NewUnread(s)[u] > Backlog
  <2>1. ~Below(u, sync[s].before)
    <3>1. u \in Nat /\ sync[s].before \in Nat /\ sync[s].before # 0 /\ sync[s].before <= u
      BY <1>d, <1>h, <1>i, <1>j
    <3>2. ~(u < sync[s].before)
      BY <3>1
    <3> QED
      BY <3>1, <3>2 DEF Below
  <2>2. ~(rows[u].msg <= Backlog)
    BY <1>a, <1>d, <1>j, <1>l, <2>1 DEF BacklogCached
  <2> QED
    BY <2>2, <1>d, <1>h, <1>i
<1>m. ~outdated => \A u, v \in DOMAIN NewUnread(s) : NewUnread(s)[u] = NewUnread(s)[v] => u = v
  BY <1>a, <1>d DEF RowsNumbered, Agree
<1>1. ASSUME sync[s].pc = "arrivals", s = "watch", DOMAIN NewUnread(s) # {},
             sync' = [sync EXCEPT ![s] = [NoSync EXCEPT !.pc = "rules", !.new = NewUnread(s),
                       !.left = DOMAIN NewUnread(s)]]
      PROVE  IInv'
  <2>e. /\ sync' \in [Syncers -> SyncStates] /\ \A t \in Syncers : t # s => sync'[t] = sync[t]
        /\ sync'[s].pc = "rules" /\ sync'[s].before = 0 /\ sync'[s].found = 0 /\ sync'[s].next = 0
        /\ sync'[s].new = NewUnread(s) /\ sync'[s].left = DOMAIN NewUnread(s)
    <3>1. [NoSync EXCEPT !.pc = "rules", !.new = NewUnread(s),
              !.left = DOMAIN NewUnread(s)] \in SyncStates
      BY <1>a, NoSyncFacts, <1>d, <1>i DEF TypeOK, SyncStates
    <3> QED
      BY <1>a, <1>1, <1>d, <1>i, NoSyncFacts, <3>1 DEF TypeOK, SyncStates, NoSync
  <2>1. sync[s].pc = "arrivals"
    BY <1>1
  <2>2. s = "watch" /\ DOMAIN NewUnread(s) # {}
    BY <1>1
  <2>p1. TypeOK'
    BY <1>a, <1>b, <1>c, <2>e, <2>1, <2>2 DEF TypeOK
  <2>p2. MailNumbered'
    BY <1>a, <1>b, <1>c, <1>r, <2>e, <1>d, <1>i, <1>k, <1>l, <1>m, <2>1, <2>2 DEF MailNumbered,
       Agree
  <2>p3. Positions'
    BY <1>a, <1>b, <1>c, <1>r, <2>e, <1>d, <1>i, <1>k, <1>l, <1>m, <2>1, <2>2 DEF Positions, Reading
  <2>p4. BatchNumbered'
    BY <1>a, <1>b, <1>c, <1>r, <2>e, <1>d, <1>i, <1>k, <1>l, <1>m, <2>1, <2>2 DEF BatchNumbered,
       Current, Agree, Reading
  <2>p5. RowsNumbered'
    BY <1>a, <1>b, <1>c, <1>r, <2>e, <1>d, <1>i, <1>k, <1>l, <1>m, <2>1, <2>2 DEF RowsNumbered,
       Cached, Current, Agree, Reading
  <2>p6. Once'
    BY <1>a, <1>b, <1>c, <1>r, <2>e, <1>d, <1>i, <1>k, <1>l, <1>m, <2>1, <2>2 DEF Once, Pending
  <2>p7. RuledOnce'
    BY <1>a, <1>b, <1>c, <1>r, <2>e, <1>d, <1>i, <1>k, <1>l, <1>m, <2>1, <2>2 DEF RuledOnce,
       ToRule, Syncers
  <2>p8. BacklogLow'
    BY <1>a, <1>b, <1>c, <1>r, <2>e, <1>d, <1>i, <1>k, <1>l, <1>m, <2>1, <2>2 DEF BacklogLow, Low,
       Below, Current, Reading
  <2>p9. BacklogCached'
    BY <1>a, <1>b, <1>c, <1>r, <2>e, <1>d, <1>i, <1>k, <1>l, <1>m, <2>1, <2>2 DEF BacklogCached,
       Below
  <2>p10. BacklogQuiet'
    BY <1>a, <1>b, <1>c, <1>r, <2>e, <1>d, <1>i, <1>k, <1>l, <1>m, <2>1, <2>2 DEF BacklogQuiet,
       Pending
  <2>p11. QuietHolds'
    BY <1>a, <1>b, <1>c, <1>r, <2>e, <1>d, <1>i, <1>k, <1>l, <1>m, <2>1, <2>2 DEF QuietHolds,
       Holds, Reading
  <2>p12. QuietSyncMatches'
    BY <1>a, <1>b, <1>c, <1>r, <2>e, <1>d, <1>i, <1>k, <1>l, <1>m, <2>1, <2>2 DEF QuietSyncMatches,
       Headers
  <2> QED
    BY <2>p1, <2>p2, <2>p3, <2>p4, <2>p5, <2>p6, <2>p7, <2>p8, <2>p9, <2>p10, <2>p11,
       <2>p12 DEF IInv
<1>2. ASSUME sync[s].pc = "arrivals", sync' = [sync EXCEPT ![s] = [NoSync EXCEPT !.pc = "tell",
          !.new = NewUnread(s), !.left = DOMAIN NewUnread(s)]]
      PROVE  IInv'
  <2>e. /\ sync' \in [Syncers -> SyncStates] /\ \A t \in Syncers : t # s => sync'[t] = sync[t]
        /\ sync'[s].pc = "tell" /\ sync'[s].before = 0 /\ sync'[s].found = 0 /\ sync'[s].next = 0
        /\ sync'[s].new = NewUnread(s) /\ sync'[s].left = DOMAIN NewUnread(s)
    <3>1. [NoSync EXCEPT !.pc = "tell", !.new = NewUnread(s),
              !.left = DOMAIN NewUnread(s)] \in SyncStates
      BY <1>a, NoSyncFacts, <1>d, <1>i DEF TypeOK, SyncStates
    <3> QED
      BY <1>a, <1>2, <1>d, <1>i, NoSyncFacts, <3>1 DEF TypeOK, SyncStates, NoSync
  <2>1. sync[s].pc = "arrivals"
    BY <1>2
  <2>p1. TypeOK'
    BY <1>a, <1>b, <1>c, <2>e, <2>1 DEF TypeOK
  <2>p2. MailNumbered'
    BY <1>a, <1>b, <1>c, <1>r, <2>e, <1>d, <1>i, <1>k, <1>l, <1>m, <2>1 DEF MailNumbered, Agree
  <2>p3. Positions'
    BY <1>a, <1>b, <1>c, <1>r, <2>e, <1>d, <1>i, <1>k, <1>l, <1>m, <2>1 DEF Positions, Reading
  <2>p4. BatchNumbered'
    BY <1>a, <1>b, <1>c, <1>r, <2>e, <1>d, <1>i, <1>k, <1>l, <1>m, <2>1 DEF BatchNumbered, Current,
       Agree, Reading
  <2>p5. RowsNumbered'
    BY <1>a, <1>b, <1>c, <1>r, <2>e, <1>d, <1>i, <1>k, <1>l, <1>m, <2>1 DEF RowsNumbered, Cached,
       Current, Agree, Reading
  <2>p6. Once'
    BY <1>a, <1>b, <1>c, <1>r, <2>e, <1>d, <1>i, <1>k, <1>l, <1>m, <2>1 DEF Once, Pending
  <2>p7. RuledOnce'
    BY <1>a, <1>b, <1>c, <1>r, <2>e, <1>d, <1>i, <1>k, <1>l, <1>m, <2>1 DEF RuledOnce, ToRule,
       Syncers
  <2>p8. BacklogLow'
    BY <1>a, <1>b, <1>c, <1>r, <2>e, <1>d, <1>i, <1>k, <1>l, <1>m, <2>1 DEF BacklogLow, Low, Below,
       Current, Reading
  <2>p9. BacklogCached'
    BY <1>a, <1>b, <1>c, <1>r, <2>e, <1>d, <1>i, <1>k, <1>l, <1>m, <2>1 DEF BacklogCached, Below
  <2>p10. BacklogQuiet'
    BY <1>a, <1>b, <1>c, <1>r, <2>e, <1>d, <1>i, <1>k, <1>l, <1>m, <2>1 DEF BacklogQuiet, Pending
  <2>p11. QuietHolds'
    BY <1>a, <1>b, <1>c, <1>r, <2>e, <1>d, <1>i, <1>k, <1>l, <1>m, <2>1 DEF QuietHolds, Holds,
       Reading
  <2>p12. QuietSyncMatches'
    BY <1>a, <1>b, <1>c, <1>r, <2>e, <1>d, <1>i, <1>k, <1>l, <1>m, <2>1 DEF QuietSyncMatches,
       Headers
  <2> QED
    BY <2>p1, <2>p2, <2>p3, <2>p4, <2>p5, <2>p6, <2>p7, <2>p8, <2>p9, <2>p10, <2>p11,
       <2>p12 DEF IInv
<1> QED
  BY <1>1, <1>2 DEF Arrivals

\* Some messages of the mailbox, as they are up to their flags.
Trimmed == /\ mail' \in [DOMAIN mail' -> [msg : Msgs, seen : BOOLEAN, mod : Nat]]
           /\ DOMAIN mail' \subseteq DOMAIN mail /\ modseq' \in Nat
           /\ \A u \in DOMAIN mail' : mail'[u].msg = mail[u].msg

\* That is what a change of flags leaves.
LEMMA FlaggedTrims ==
  ASSUME TypeOK, NEW U, NEW seen \in BOOLEAN, Flagged(U, seen)
  PROVE  Trimmed
<1> DEFINE M == [msg : Msgs, seen : BOOLEAN, mod : Nat]
<1>1. mail \in [DOMAIN mail -> M] /\ modseq \in Nat /\ modseq + 1 \in Nat
  BY DEF TypeOK
<1>2. ASSUME NEW u \in DOMAIN mail
      PROVE  LET r == IF u \in U THEN [mail[u] EXCEPT !.seen = seen,
                !.mod = modseq + 1] ELSE mail[u]
             IN  r \in M /\ r.msg = mail[u].msg
  BY <1>1
<1>3. /\ DOMAIN mail' = DOMAIN mail /\ modseq' = modseq + 1
      /\ mail' = [u \in DOMAIN mail |->
                   IF u \in U THEN [mail[u] EXCEPT !.seen = seen, !.mod = modseq + 1] ELSE mail[u]]
  BY DEF Flagged
<1> HIDE DEF M
<1>4. mail' \in [DOMAIN mail' -> M] /\ \A u \in DOMAIN mail : mail'[u].msg = mail[u].msg
  BY <1>2, <1>3
<1> QED
  BY <1>1, <1>3, <1>4 DEF Trimmed, M

\* A removal.
LEMMA OnlyTrims ==
  ASSUME TypeOK, NEW U, mail' = Only(mail, U), modseq' = modseq
  PROVE  Trimmed
BY DEF TypeOK, Only, Trimmed

\* A command of any kind.
LEMMA OnServerTrims ==
  ASSUME TypeOK, NEW kind, NEW U, OnServer(kind, U)
  PROVE  Trimmed
<1>1. CASE UNCHANGED <<mail, modseq>>
  BY <1>1 DEF TypeOK, Trimmed
<1>2. CASE mail' = Only(mail, DOMAIN mail \ U) /\ UNCHANGED modseq
  BY <1>2, OnlyTrims
<1>3. CASE Flagged(U, kind # "unread")
  BY <1>3, FlaggedTrims
<1> QED
  BY <1>1, <1>2, <1>3 DEF OnServer

\* The same of the rows.
LEMMA InStoreTrims ==
  ASSUME TypeOK, NEW kind, NEW U, InStore(kind, U)
  PROVE  /\ rows' \in Headed /\ DOMAIN rows' \subseteq DOMAIN rows
         /\ \A u \in DOMAIN rows' : rows'[u].msg = rows[u].msg
<1>1. rows \in [DOMAIN rows -> Header] /\ DOMAIN rows \in SUBSET Uids
  BY DEF TypeOK, Headed
<1>2. /\ rows' \in [DOMAIN rows' -> Header] /\ DOMAIN rows' \subseteq DOMAIN rows
      /\ \A u \in DOMAIN rows' : rows'[u].msg = rows[u].msg
  <2>1. CASE kind = "move"
    BY <1>1, <2>1 DEF InStore, Only
  <2>2. CASE kind = "all"
    BY <1>1, <2>2 DEF InStore, Header
  <2>3. CASE kind \notin {"move", "all"}
    BY <1>1, <2>3 DEF InStore, Header
  <2> QED
    BY <2>1, <2>2, <2>3
<1>3. DOMAIN rows' \in SUBSET Uids
  BY <1>1, <1>2
<1> QED
  BY <1>2, <1>3 DEF Headed

\* The watch goes on to the next arrival, or announces them.
LEMMA DealtFacts ==
  ASSUME TypeOK, NEW u, NEW done \in BOOLEAN, Dealt(u, done), u \in sync["watch"].left
  PROVE  /\ sync' \in [Syncers -> SyncStates]
            /\ \A t \in Syncers : t # "watch" => sync'[t] = sync[t]
         /\ sync'["watch"].pc = IF sync["watch"].left = {u} THEN "tell" ELSE "rules"
         /\ sync'["watch"].before = 0 /\ sync'["watch"].found = 0 /\ sync'["watch"].next = 0
         /\ sync'["watch"].new = sync["watch"].new /\ sync'["watch"].left = sync["watch"].left \ {u}
<1> DEFINE w == sync["watch"]
           n == [NoSync EXCEPT !.pc = IF w.left = {u} THEN "tell" ELSE "rules", !.new = w.new,
                               !.left = w.left \ {u},
                               !.handled = IF done THEN w.handled \cup {u} ELSE w.handled]
<1>1. w \in SyncStates /\ "watch" \in Syncers
  BY DEF TypeOK, Syncers
<1>2. n \in SyncStates
  <2>1. n.pc \in {"tell",
            "rules"} /\ n.handled \in SUBSET Uids /\ n.left \in SUBSET Uids /\ n.new \in News
    BY <1>1, NoSyncFacts DEF SyncStates, NoSync
  <2>2. n = [NoSync EXCEPT !.pc = n.pc, !.new = n.new, !.left = n.left, !.handled = n.handled]
    BY DEF NoSync
  <2> HIDE DEF n
  <2> QED
    BY <2>1, <2>2, NoSyncFacts DEF SyncStates
<1>3. sync' = [sync EXCEPT !["watch"] = n]
  BY DEF Dealt
<1> QED
  BY <1>1, <1>2, <1>3 DEF TypeOK, NoSync

\* A set of naturals has a least element.
LEMMA LeastExists ==
  ASSUME NEW S \in SUBSET Nat, S # {}
  PROVE  \E x \in S : \A y \in S : x <= y
<1>1. PICK x \in S : \A y \in S : <<y, x>> \notin OpToRel(<, Nat)
  BY NatLessThanWellFounded, WFMin, Zenon
<1>2. \A y \in S : ~(y < x)
  BY <1>1, Zenon DEF OpToRel
<1>3. \A y \in S : x <= y
  BY <1>2
<1> QED
  BY <1>3

\* The newest of the arrivals is one of them.
LEMMA NewestIsOne ==
  ASSUME NEW S \in SUBSET Uids, S # {}
  PROVE  (CHOOSE v \in S : \A x \in S : v >= x) \in S
<1>1. Uids \subseteq Nat /\ Gone + MaxMsgs \in Nat
  BY MailSyncBounds DEF Uids
<1> DEFINE B == {b \in Nat : \A x \in S : x <= b}
<1>2. B \subseteq Nat /\ Gone + MaxMsgs \in B
  BY <1>1 DEF Uids
<1>3. PICK b \in B : \A c \in B : b <= c
  BY <1>2, LeastExists
<1>4. b \in S
  <2> SUFFICES ASSUME b \notin S PROVE FALSE
    OBVIOUS
  <2>1. \A x \in S : x \in Nat /\ x < b
    BY <1>1, <1>3
  <2>2. PICK x \in S : TRUE
    OBVIOUS
  <2>3. b - 1 \in Nat /\ \A y \in S : y <= b - 1
    BY <1>3, <2>1, <2>2
  <2>4. b - 1 \in B
    BY <2>3
  <2> QED
    BY <1>3, <2>4
<1>5. \A x \in S : b >= x
  BY <1>1, <1>3
<1> QED
  BY <1>4, <1>5

\* An arrival goes through the rules (apply_rules_to_arrivals).
LEMMA RuleIInv == IInv /\ Rule => IInv'
<1> SUFFICES ASSUME IInv, Rule PROVE IInv'
  OBVIOUS
<1>a. /\ TypeOK /\ MailNumbered /\ Positions /\ BatchNumbered /\ RowsNumbered /\ Once /\ RuledOnce
      /\ BacklogLow /\ BacklogCached /\ BacklogQuiet /\ QuietHolds /\ QuietSyncMatches
  BY DEF IInv
<1>b. UNCHANGED <<uidNext, validity, delivered, rows, state, observed, claimed, op, told,
                outdated, syncs>>
  BY DEF Rule, store
<1>s. PICK s \in Syncers : s = "watch"
  BY DEF Syncers
<1>c. /\ sync[s].pc = "rules" /\ sync[s].left \in SUBSET Uids /\ sync[s].left # {}
      /\ sync[s].new \in News /\ sync[s].left \subseteq DOMAIN sync[s].new
  BY <1>a, <1>s DEF TypeOK, SyncStates, Rule, RuledOnce
<1> DEFINE u == CHOOSE v \in sync["watch"].left : \A x \in sync["watch"].left : v >= x
<1>d. u \in sync[s].left
  BY <1>c, <1>s, NewestIsOne
<1>f. ruled' = [ruled EXCEPT ![sync[s].new[u]] = @ + 1]
  BY <1>s DEF Rule
<1>g. Trimmed /\ events' \in Nat /\ (quiet' = {} \/ (quiet' = quiet /\ mail' = mail))
  <2>1. CASE UNCHANGED <<mail, modseq, quiet, events>>
    BY <1>a, <2>1 DEF TypeOK, Trimmed
  <2>2. ASSUME NEW kind, OnServer(kind, {u}), quiet' = {}, UNCHANGED events \/ Event
        PROVE  Trimmed /\ events' \in Nat
    BY <1>a, <2>2, OnServerTrims DEF TypeOK, Event
  <2> QED
    BY <2>1, <2>2 DEF Rule, u
<1>h. \/ \E done \in BOOLEAN : Dealt(u, done)
      \/ \E kind \in {"move", "read"} :
           sync' = [sync EXCEPT ![s] = [sync[s] EXCEPT !.pc = "file", !.kind = kind, !.at = u]]
  BY <1>s DEF Rule
<1> HIDE DEF u
<1> DEFINE Moved ==
        /\ sync' \in [Syncers -> SyncStates] /\ \A t \in Syncers : t # s => sync'[t] = sync[t]
        /\ sync'[s].new = sync[s].new
        /\ \/ /\ sync'[s].pc = IF sync[s].left = {u} THEN "tell" ELSE "rules"
              /\ sync'[s].before = 0 /\ sync'[s].found = 0 /\ sync'[s].next = 0
              /\ sync'[s].left = sync[s].left \ {u}
           \/ /\ sync'[s].pc = "file" /\ sync'[s].left = sync[s].left /\ sync'[s].at = u
              /\ sync'[s].before = sync[s].before /\ sync'[s].found = sync[s].found
              /\ sync'[s].next = sync[s].next
<1>i. Moved
  <2>1. CASE \E done \in BOOLEAN : Dealt(u, done)
    BY <1>a, <1>d, <1>s, <2>1, DealtFacts
  <2>2. ASSUME NEW kind \in {"move", "read"},
               sync' = [sync EXCEPT ![s] = [sync[s] EXCEPT !.pc = "file", !.kind = kind, !.at = u]]
        PROVE  Moved
    <3>1. sync[s] \in SyncStates /\ u \in Uids
      BY <1>a, <1>c, <1>d DEF TypeOK
    <3>2. [sync[s] EXCEPT !.pc = "file", !.kind = kind, !.at = u] \in SyncStates
      BY <3>1 DEF SyncStates
    <3> QED
      BY <1>a, <2>2, <3>1, <3>2 DEF TypeOK, SyncStates
  <2> QED
    BY <1>h, <2>1, <2>2 DEF u
<1>j. sync'[s].pc \in Pending /\ sync[s].pc \in Pending
          /\ sync'[s].pc \notin Reading \cup {"isolate", "prior"}
  BY <1>c, <1>i DEF Pending, Reading
<1>k. /\ sync[s].new[u] \in Msgs /\ sync[s].new[u] \in observed /\ ruled \in [Msgs -> Nat]
      /\ ~outdated => ruled[sync[s].new[u]] = 0 /\ sync[s].new[u] > Backlog
  <2>1. u \in DOMAIN sync[s].new
    BY <1>c, <1>d
  <2> QED
    BY <1>a, <1>c, <1>d, <1>j, <1>s, <2>1, NewsFacts DEF TypeOK, Once, RuledOnce, ToRule,
       BacklogQuiet
<1>l. /\ ruled' \in [Msgs -> Nat] /\ \A m \in Msgs : m # sync[s].new[u] => ruled'[m] = ruled[m]
      /\ ruled'[sync[s].new[u]] = ruled[sync[s].new[u]] + 1
  BY <1>f, <1>k
<1>r. /\ quiet' = {} \/ (quiet' = quiet /\ mail' = mail /\ Readable' = Readable)
      /\ quiet \subseteq Syncers /\ validity \in Nat \ {0}
  BY <1>a, <1>g DEF TypeOK, Readable, Newest, Poisoned
<1>m. RuledOnce'
  <2>1. /\ sync'["watch"].pc \in {"rules",
            "file"} => sync'["watch"].left \subseteq DOMAIN sync'["watch"].new
        /\ sync'["watch"].pc = "rules" => sync'["watch"].left # {}
        /\ sync'["watch"].pc = "file" => sync'["watch"].at \in sync'["watch"].left
        /\ sync'["refresh"].pc \notin {"rules", "file"}
    BY <1>a, <1>c, <1>d, <1>i, <1>s DEF RuledOnce, Syncers
  <2>2. ASSUME ~outdated
        PROVE  /\ \A m \in Msgs : ruled[m] <= 1 /\ ruled[m] \in Nat
               /\ \A v \in sync[s].left : ruled[sync[s].new[v]] = 0 /\ sync[s].new[v] \in Msgs
               /\ \A v, x \in DOMAIN sync[s].new : sync[s].new[v] = sync[s].new[x] => v = x
    BY <1>a, <1>c, <1>s, <2>2, NewsFacts DEF RuledOnce, ToRule, TypeOK
  <2>3. ToRule' \subseteq sync[s].left \ {u} \/ sync'["watch"].pc = "tell"
    BY <1>i, <1>s DEF ToRule
  <2>4. ASSUME ~outdated
        PROVE  /\ \A m \in Msgs : ruled'[m] <= 1
               /\ \A v \in sync[s].left \ {u} : ruled'[sync[s].new[v]] = 0
    <3>1. \A v \in sync[s].left \ {u} : sync[s].new[v] # sync[s].new[u]
      BY <1>c, <1>d, <2>2, <2>4
    <3> QED
      BY <1>k, <1>l, <2>2, <2>4, <3>1
  <2> QED
    BY <1>b, <1>i, <1>s, <2>1, <2>2, <2>3, <2>4 DEF RuledOnce
<1>n. sync'[s].found <= validity
  BY <1>a, <1>i, <1>r DEF Positions
<1>o. ASSUME NEW t \in quiet' PROVE Holds(t)'
  <2>1. t \in quiet /\ t \in Syncers /\ mail' = mail /\ Readable' = Readable
    BY <1>o, <1>r
  <2>2. CASE t = s
    BY <1>j, <2>2 DEF Holds, Reading
  <2>3. CASE t # s
    <3>1. Holds(t) /\ sync'[t] = sync[t]
      BY <1>a, <1>i, <2>1, <2>3 DEF QuietHolds
    <3> QED
      BY <2>1, <3>1 DEF Holds, Newest
  <2> QED
    BY <2>2, <2>3
<1>p1. TypeOK'
  BY <1>a, <1>b, <1>g, <1>i, <1>l, <1>r DEF TypeOK, Trimmed
<1>p2. MailNumbered'
  BY <1>a, <1>b, <1>c, <1>g, <1>i, <1>j, <1>r, <1>s DEF MailNumbered, Agree, Trimmed
<1>p3. Positions'
  BY <1>a, <1>b, <1>i, <1>j, <1>n DEF Positions
<1>p4. BatchNumbered'
  BY <1>a, <1>b, <1>c, <1>g, <1>i, <1>j, <1>r, <1>s DEF BatchNumbered, Current, Agree, Reading,
     Trimmed
<1>p5. RowsNumbered'
  BY <1>a, <1>b, <1>c, <1>g, <1>i, <1>j, <1>r, <1>s DEF RowsNumbered, Cached, Current, Agree,
     Reading, Trimmed
<1>p6. Once'
  BY <1>a, <1>b, <1>c, <1>g, <1>i, <1>j, <1>r, <1>s, <1>k, <1>l DEF Once
<1>p7. RuledOnce'
  BY <1>m
<1>p8. BacklogLow'
  BY <1>a, <1>b, <1>c, <1>g, <1>i, <1>j, <1>r, <1>s DEF BacklogLow, Low, Below, Current, Reading,
     Trimmed
<1>p9. BacklogCached'
  BY <1>a, <1>b, <1>c, <1>g, <1>i, <1>j, <1>r, <1>s DEF BacklogCached, Below
<1>p10. BacklogQuiet'
  BY <1>a, <1>b, <1>c, <1>g, <1>i, <1>j, <1>r, <1>s, <1>k, <1>l, MailSyncBounds DEF BacklogQuiet,
     Msgs
<1>p11. QuietHolds'
  BY <1>o DEF QuietHolds
<1>p12. QuietSyncMatches'
  BY <1>a, <1>b, <1>c, <1>g, <1>i, <1>j, <1>r, <1>s DEF QuietSyncMatches, Headers
<1> QED
  BY <1>p1, <1>p2, <1>p3, <1>p4, <1>p5, <1>p6, <1>p7, <1>p8, <1>p9, <1>p10, <1>p11, <1>p12 DEF IInv

\* What the rule did to the arrival is done to its row.
LEMMA RuleFilesIInv == IInv /\ RuleFiles => IInv'
<1> SUFFICES ASSUME IInv, RuleFiles PROVE IInv'
  OBVIOUS
<1>a. /\ TypeOK /\ MailNumbered /\ Positions /\ BatchNumbered /\ RowsNumbered /\ Once /\ RuledOnce
      /\ BacklogLow /\ BacklogCached /\ BacklogQuiet /\ QuietHolds /\ QuietSyncMatches
  BY DEF IInv
<1>b. UNCHANGED <<mail, uidNext, validity, modseq, delivered, state, observed, claimed, op,
                ruled, told, outdated, syncs, events>>
  BY DEF RuleFiles, server, bounds
<1>s. PICK s \in Syncers : s = "watch"
  BY DEF Syncers
<1>c. /\ sync[s].pc = "file" /\ sync[s].at \in sync[s].left
          /\ sync[s].left \subseteq DOMAIN sync[s].new
      /\ quiet' = {}
  BY <1>a, <1>s DEF RuledOnce, RuleFiles
<1>d. /\ rows' \in Headed /\ DOMAIN rows' \subseteq DOMAIN rows
      /\ \A u \in DOMAIN rows' : rows'[u].msg = rows[u].msg
  BY <1>a, InStoreTrims DEF RuleFiles
<1>e. /\ sync' \in [Syncers -> SyncStates] /\ \A t \in Syncers : t # s => sync'[t] = sync[t]
      /\ sync'[s].pc = IF sync[s].left = {sync[s].at} THEN "tell" ELSE "rules"
      /\ sync'[s].before = 0 /\ sync'[s].found = 0 /\ sync'[s].next = 0
      /\ sync'[s].new = sync[s].new /\ sync'[s].left = sync[s].left \ {sync[s].at}
  BY <1>a, <1>c, <1>s, DealtFacts DEF RuleFiles
<1>f. /\ sync'[s].pc \in Pending /\ sync[s].pc \in Pending
      /\ sync'[s].pc \notin Reading \cup {"isolate", "prior"} /\ validity \in Nat
  BY <1>a, <1>c, <1>e DEF Pending, Reading, TypeOK
<1>n. sync'[s].found <= validity
  BY <1>e, <1>f
<1>p1. TypeOK'
  BY <1>a, <1>b, <1>c, <1>d, <1>e DEF TypeOK
<1>p2. MailNumbered'
  BY <1>a, <1>b, <1>c, <1>d, <1>e, <1>f, <1>s DEF MailNumbered, Agree
<1>p3. Positions'
  BY <1>a, <1>b, <1>d, <1>e, <1>f, <1>n DEF Positions
<1>p4. BatchNumbered'
  BY <1>a, <1>b, <1>c, <1>d, <1>e, <1>f, <1>s DEF BatchNumbered, Current, Agree, Reading
<1>p5. RowsNumbered'
  BY <1>a, <1>b, <1>c, <1>d, <1>e, <1>f, <1>s DEF RowsNumbered, Cached, Current, Agree, Reading
<1>p6. Once'
  BY <1>a, <1>b, <1>c, <1>d, <1>e, <1>f, <1>s DEF Once, Pending
<1>p7. RuledOnce'
  BY <1>a, <1>b, <1>c, <1>d, <1>e, <1>f, <1>s DEF RuledOnce, ToRule, Syncers
<1>p8. BacklogLow'
  BY <1>a, <1>b, <1>c, <1>d, <1>e, <1>f, <1>s DEF BacklogLow, Low, Below, Current, Reading
<1>p9. BacklogCached'
  BY <1>a, <1>b, <1>c, <1>d, <1>e, <1>f, <1>s DEF BacklogCached, Below
<1>p10. BacklogQuiet'
  BY <1>a, <1>b, <1>c, <1>d, <1>e, <1>f, <1>s DEF BacklogQuiet, Pending
<1>p11. QuietHolds'
  BY <1>a, <1>b, <1>c, <1>d, <1>e, <1>f, <1>s DEF QuietHolds, Holds, Reading
<1>p12. QuietSyncMatches'
  BY <1>a, <1>b, <1>c, <1>d, <1>e, <1>f, <1>s DEF QuietSyncMatches, Headers
<1> QED
  BY <1>p1, <1>p2, <1>p3, <1>p4, <1>p5, <1>p6, <1>p7, <1>p8, <1>p9, <1>p10, <1>p11, <1>p12 DEF IInv

\* Arrivals are announced (mail.newMessages).
LEMMA TellIInv ==
  ASSUME IInv, NEW s \in Syncers, Tell(s)
  PROVE  IInv'
<1>a. /\ TypeOK /\ MailNumbered /\ Positions /\ BatchNumbered /\ RowsNumbered /\ Once /\ RuledOnce
      /\ BacklogLow /\ BacklogCached /\ BacklogQuiet /\ QuietHolds /\ QuietSyncMatches
  BY DEF IInv
<1>b. UNCHANGED <<mail, uidNext, validity, modseq, delivered, rows, state, observed, op, ruled,
                quiet, outdated, syncs, events>>
  BY DEF Tell, server, store, bounds
<1>c. sync[s].pc = "tell" /\ claimed' \in Syncers \cup {"nobody"}
  BY <1>a DEF TypeOK, Tell, Unclaimed
<1>d. sync' = [sync EXCEPT ![s] = NoSync]
  BY DEF Tell
<1>e. /\ sync' \in [Syncers -> SyncStates] /\ \A t \in Syncers : t # s => sync'[t] = sync[t]
      /\ sync'[s].pc = "idle" /\ sync'[s].before = 0 /\ sync'[s].found = 0 /\ sync'[s].next = 0
  <2>1. NoSync \in SyncStates
    BY <1>a, NoSyncFacts DEF TypeOK, SyncStates
  <2> QED
    BY <1>a, <1>d, NoSyncFacts, <2>1 DEF TypeOK, SyncStates, NoSync
<1>r. Readable' = Readable /\ quiet \subseteq Syncers /\ validity \in Nat \ {0}
  BY <1>a, <1>b DEF TypeOK, Readable, Newest, Poisoned
<1>f. /\ told' \in [Msgs -> Nat] /\ \A m \in Msgs : told'[m] # told[m] =>
                                     /\ told'[m] = told[m] + 1
                                     /\ \E u \in DOMAIN sync[s].new : m = sync[s].new[u]
  BY <1>a DEF TypeOK, Tell
<1>g. /\ told \in [Msgs -> Nat] /\ sync[s].new \in News
      /\ \A u \in DOMAIN sync[s].new : sync[s].new[u] \in Msgs
  BY <1>a, NewsFacts DEF TypeOK, SyncStates
<1>h. \A u \in DOMAIN sync[s].new :
        /\ sync[s].new[u] \in observed /\ told[sync[s].new[u]] = 0
        /\ \A t \in Syncers \ {s} : sync[t].pc \in Pending =>
             \A v \in DOMAIN sync[t].new : sync[t].new[v] # sync[s].new[u]
                       /\ sync[t].new[v] \in Msgs
  <2>1. \A t \in Syncers : sync[t].new \in News
    BY <1>a DEF TypeOK, SyncStates
  <2> QED
    BY <1>a, <1>c, <2>1, NewsFacts DEF Once, Pending
<1>i. Once'
  <2>1. \A m \in Msgs : told'[m] <= 1 /\ (told'[m] > 0 \/ ruled[m] > 0 => m \in observed)
    BY <1>a, <1>f, <1>g, <1>h DEF Once
  <2>2. ASSUME NEW t \in Syncers, sync'[t].pc \in Pending, NEW u \in DOMAIN sync'[t].new
        PROVE  /\ sync'[t].new[u] \in observed /\ told'[sync'[t].new[u]] = 0
               /\ \A x \in Syncers \ {t} : sync'[x].pc \in Pending =>
                    \A v \in DOMAIN sync'[x].new : sync'[x].new[v] # sync'[t].new[u]
    <3>1. t # s /\ sync'[t] = sync[t]
      BY <1>e, <2>2 DEF Pending
    <3>2. sync[t].new[u] \in observed /\ told[sync[t].new[u]] = 0
      BY <1>a, <2>2, <3>1 DEF Once
    <3>3. sync[t].new[u] \in Msgs
      BY <1>a, <3>2 DEF TypeOK
    <3>4. \A v \in DOMAIN sync[s].new : sync[s].new[v] # sync[t].new[u]
      BY <1>h, <2>2, <3>1
    <3>5. told'[sync[t].new[u]] = told[sync[t].new[u]]
      BY <1>f, <3>3, <3>4
    <3>6. \A x \in Syncers \ {t} : sync'[x].pc \in Pending =>
            \A v \in DOMAIN sync'[x].new : sync'[x].new[v] # sync'[t].new[u]
      BY <1>a, <1>e, <2>2, <3>1 DEF Once, Pending
    <3> QED
      BY <3>1, <3>2, <3>5, <3>6
  <2> QED
    BY <1>b, <2>1, <2>2 DEF Once
<1>j. BacklogQuiet'
  <2>1. Backlog \in Nat /\ \A m \in 1 .. Backlog : m \in Msgs
    BY MailSyncBounds DEF Msgs
  <2>2. ~outdated => \A u \in DOMAIN sync[s].new : sync[s].new[u] > Backlog
    BY <1>a, <1>c DEF BacklogQuiet, Pending
  <2>3. ~outdated => \A m \in 1 .. Backlog : told'[m] = 0 /\ ruled[m] = 0
    BY <1>a, <1>f, <1>g, <2>1, <2>2 DEF BacklogQuiet
  <2> QED
    BY <1>a, <1>b, <1>e, <2>3 DEF BacklogQuiet, Pending
<1>p1. TypeOK'
  BY <1>a, <1>b, <1>c, <1>e, <1>f DEF TypeOK
<1>p2. MailNumbered'
  BY <1>a, <1>b, <1>c, <1>e, <1>r DEF MailNumbered, Agree
<1>p3. Positions'
  BY <1>a, <1>b, <1>c, <1>e, <1>r DEF Positions, Reading
<1>p4. BatchNumbered'
  BY <1>a, <1>b, <1>c, <1>e, <1>r DEF BatchNumbered, Current, Agree, Reading
<1>p5. RowsNumbered'
  BY <1>a, <1>b, <1>c, <1>e, <1>r DEF RowsNumbered, Cached, Current, Agree, Reading
<1>p6. Once'
  BY <1>i
<1>p7. RuledOnce'
  BY <1>a, <1>b, <1>c, <1>e, <1>r DEF RuledOnce, ToRule, Syncers
<1>p8. BacklogLow'
  BY <1>a, <1>b, <1>c, <1>e, <1>r DEF BacklogLow, Low, Below, Current, Reading
<1>p9. BacklogCached'
  BY <1>a, <1>b, <1>c, <1>e, <1>r DEF BacklogCached, Below
<1>p10. BacklogQuiet'
  BY <1>j
<1>p11. QuietHolds'
  BY <1>a, <1>b, <1>c, <1>e, <1>r DEF QuietHolds, Holds, Reading
<1>p12. QuietSyncMatches'
  BY <1>a, <1>b, <1>c, <1>e, <1>r DEF QuietSyncMatches, Headers
<1> QED
  BY <1>p1, <1>p2, <1>p3, <1>p4, <1>p5, <1>p6, <1>p7, <1>p8, <1>p9, <1>p10, <1>p11, <1>p12 DEF IInv

-----------------------------------------------------------------------------
(* The person's requests, the end of the process and the server.           *)

\* The person asks for something.
LEMMA OpBeginIInv == IInv /\ OpBegin => IInv'
<1> SUFFICES ASSUME IInv, OpBegin PROVE IInv'
  OBVIOUS
<1>a. /\ TypeOK /\ MailNumbered /\ Positions /\ BatchNumbered /\ RowsNumbered /\ Once /\ RuledOnce
      /\ BacklogLow /\ BacklogCached /\ BacklogQuiet /\ QuietHolds /\ QuietSyncMatches
  BY DEF IInv
<1>b. UNCHANGED <<mail, uidNext, validity, modseq, delivered, rows, state, observed, claimed,
                sync, ruled, told, quiet, outdated, syncs>>
  BY DEF OpBegin, server, store
<1>c. events' \in Nat
  BY <1>a DEF TypeOK, OpBegin, Event
<1>d. op' \in [pc : {"idle", "server", "store"}, kind : {"none", "read", "unread", "all", "move"},
               uids : SUBSET Uids]
  <2>1. DOMAIN rows \subseteq Uids
    BY <1>a, HeadedFacts DEF TypeOK
  <2> QED
    BY <2>1 DEF OpBegin
<1>r. Readable' = Readable /\ quiet \subseteq Syncers /\ validity \in Nat \ {0}
  BY <1>a, <1>b DEF TypeOK, Readable, Newest, Poisoned
<1>p1. TypeOK'
  BY <1>a, <1>b, <1>c, <1>d DEF TypeOK
<1>p2. MailNumbered'
  BY <1>a, <1>b, <1>r DEF MailNumbered, Agree
<1>p3. Positions'
  BY <1>a, <1>b, <1>r DEF Positions, Reading
<1>p4. BatchNumbered'
  BY <1>a, <1>b, <1>r DEF BatchNumbered, Current, Agree, Reading
<1>p5. RowsNumbered'
  BY <1>a, <1>b, <1>r DEF RowsNumbered, Cached, Current, Agree, Reading
<1>p6. Once'
  BY <1>a, <1>b, <1>r DEF Once, Pending
<1>p7. RuledOnce'
  BY <1>a, <1>b, <1>r DEF RuledOnce, ToRule, Syncers
<1>p8. BacklogLow'
  BY <1>a, <1>b, <1>r DEF BacklogLow, Low, Below, Current, Reading
<1>p9. BacklogCached'
  BY <1>a, <1>b, <1>r DEF BacklogCached, Below
<1>p10. BacklogQuiet'
  BY <1>a, <1>b, <1>r DEF BacklogQuiet, Pending
<1>p11. QuietHolds'
  BY <1>a, <1>b, <1>r DEF QuietHolds, Holds, Reading
<1>p12. QuietSyncMatches'
  BY <1>a, <1>b, <1>r DEF QuietSyncMatches, Headers
<1> QED
  BY <1>p1, <1>p2, <1>p3, <1>p4, <1>p5, <1>p6, <1>p7, <1>p8, <1>p9, <1>p10, <1>p11, <1>p12 DEF IInv

\* The request reaches the server; its answer may be lost.
LEMMA OpServerIInv == IInv /\ OpServer => IInv'
<1> SUFFICES ASSUME IInv, OpServer PROVE IInv'
  OBVIOUS
<1>a. /\ TypeOK /\ MailNumbered /\ Positions /\ BatchNumbered /\ RowsNumbered /\ Once /\ RuledOnce
      /\ BacklogLow /\ BacklogCached /\ BacklogQuiet /\ QuietHolds /\ QuietSyncMatches
  BY DEF IInv
<1>b. UNCHANGED <<uidNext, validity, delivered, rows, state, observed, claimed, ruled, told,
                outdated, syncs, sync>>
  BY DEF OpServer, store
<1>c. events' \in Nat /\ quiet' = {}
  BY <1>a DEF TypeOK, OpServer, Event
<1>d. op' \in [pc : {"idle", "server", "store"}, kind : {"none", "read", "unread", "all", "move"},
               uids : SUBSET Uids]
  <2>1. op' = [op EXCEPT !.pc = "store"] \/ op' = NoOp
    BY DEF OpServer
  <2> QED
    BY <1>a, <2>1 DEF TypeOK, NoOp
<1>e. Trimmed
  BY <1>a, OnServerTrims DEF OpServer
<1>p1. TypeOK'
  BY <1>a, <1>b, <1>c, <1>d, <1>e DEF TypeOK, Trimmed
<1>p2. MailNumbered'
  BY <1>a, <1>b, <1>c, <1>e DEF MailNumbered, Agree, Trimmed
<1>p3. Positions'
  BY <1>a, <1>b, <1>c, <1>e DEF Positions, Reading
<1>p4. BatchNumbered'
  BY <1>a, <1>b, <1>c, <1>e DEF BatchNumbered, Current, Agree, Reading, Trimmed
<1>p5. RowsNumbered'
  BY <1>a, <1>b, <1>c, <1>e DEF RowsNumbered, Cached, Current, Agree, Reading, Trimmed
<1>p6. Once'
  BY <1>a, <1>b, <1>c, <1>e DEF Once, Pending
<1>p7. RuledOnce'
  BY <1>a, <1>b, <1>c, <1>e DEF RuledOnce, ToRule, Syncers
<1>p8. BacklogLow'
  BY <1>a, <1>b, <1>c, <1>e DEF BacklogLow, Low, Below, Current, Reading, Trimmed
<1>p9. BacklogCached'
  BY <1>a, <1>b, <1>c, <1>e DEF BacklogCached, Below
<1>p10. BacklogQuiet'
  BY <1>a, <1>b, <1>c, <1>e DEF BacklogQuiet, Pending
<1>p11. QuietHolds'
  BY <1>a, <1>b, <1>c, <1>e DEF QuietHolds, Holds, Reading
<1>p12. QuietSyncMatches'
  BY <1>a, <1>b, <1>c, <1>e DEF QuietSyncMatches, Headers
<1> QED
  BY <1>p1, <1>p2, <1>p3, <1>p4, <1>p5, <1>p6, <1>p7, <1>p8, <1>p9, <1>p10, <1>p11, <1>p12 DEF IInv

\* The request is done here.
LEMMA OpStoreIInv == IInv /\ OpStore => IInv'
<1> SUFFICES ASSUME IInv, OpStore PROVE IInv'
  OBVIOUS
<1>a. /\ TypeOK /\ MailNumbered /\ Positions /\ BatchNumbered /\ RowsNumbered /\ Once /\ RuledOnce
      /\ BacklogLow /\ BacklogCached /\ BacklogQuiet /\ QuietHolds /\ QuietSyncMatches
  BY DEF IInv
<1>b. UNCHANGED <<mail, uidNext, validity, modseq, delivered, state, observed, claimed, ruled,
                told, outdated, syncs, events, sync>>
  BY DEF OpStore, server, bounds
<1>c. quiet' = {} /\ op' = NoOp
  BY DEF OpStore
<1>d. /\ rows' \in Headed /\ DOMAIN rows' \subseteq DOMAIN rows
      /\ \A u \in DOMAIN rows' : rows'[u].msg = rows[u].msg
  BY <1>a, InStoreTrims DEF OpStore
<1>p1. TypeOK'
  BY <1>a, <1>b, <1>c, <1>d DEF TypeOK, NoOp
<1>p2. MailNumbered'
  BY <1>a, <1>b, <1>c, <1>d DEF MailNumbered, Agree
<1>p3. Positions'
  BY <1>a, <1>b, <1>c, <1>d DEF Positions, Reading
<1>p4. BatchNumbered'
  BY <1>a, <1>b, <1>c, <1>d DEF BatchNumbered, Current, Agree, Reading
<1>p5. RowsNumbered'
  BY <1>a, <1>b, <1>c, <1>d DEF RowsNumbered, Cached, Current, Agree, Reading
<1>p6. Once'
  BY <1>a, <1>b, <1>c, <1>d DEF Once, Pending
<1>p7. RuledOnce'
  BY <1>a, <1>b, <1>c, <1>d DEF RuledOnce, ToRule, Syncers
<1>p8. BacklogLow'
  BY <1>a, <1>b, <1>c, <1>d DEF BacklogLow, Low, Below, Current, Reading
<1>p9. BacklogCached'
  BY <1>a, <1>b, <1>c, <1>d DEF BacklogCached, Below
<1>p10. BacklogQuiet'
  BY <1>a, <1>b, <1>c, <1>d DEF BacklogQuiet, Pending
<1>p11. QuietHolds'
  BY <1>a, <1>b, <1>c, <1>d DEF QuietHolds, Holds, Reading
<1>p12. QuietSyncMatches'
  BY <1>a, <1>b, <1>c, <1>d DEF QuietSyncMatches, Headers
<1> QED
  BY <1>p1, <1>p2, <1>p3, <1>p4, <1>p5, <1>p6, <1>p7, <1>p8, <1>p9, <1>p10, <1>p11, <1>p12 DEF IInv

\* The process ends and starts again.
LEMMA CrashIInv == IInv /\ Crash => IInv'
<1> SUFFICES ASSUME IInv, Crash PROVE IInv'
  OBVIOUS
<1>a. /\ TypeOK /\ MailNumbered /\ Positions /\ BatchNumbered /\ RowsNumbered /\ Once /\ RuledOnce
      /\ BacklogLow /\ BacklogCached /\ BacklogQuiet /\ QuietHolds /\ QuietSyncMatches
  BY DEF IInv
<1>b. UNCHANGED <<mail, uidNext, validity, modseq, delivered, rows, state, observed, ruled, told,
                outdated, syncs>>
  BY DEF Crash, server, store
<1>c. events' \in Nat /\ quiet' = {} /\ op' = NoOp /\ claimed' = "nobody"
  BY <1>a DEF TypeOK, Crash, Event
<1>e. /\ sync' \in [Syncers -> SyncStates] /\ "watch" \in Syncers /\ "refresh" \in Syncers
          /\ validity \in Nat
      /\ \A s \in Syncers : /\ sync'[s].pc = "idle" /\ sync'[s].before = 0
                            /\ sync'[s].found = 0 /\ sync'[s].next = 0
  BY <1>a, NoSyncFacts DEF TypeOK, Crash, NoSync, Syncers
<1>p1. TypeOK'
  BY <1>a, <1>b, <1>c, <1>e DEF TypeOK, NoOp
<1>p2. MailNumbered'
  BY <1>a, <1>b, <1>c, <1>e DEF MailNumbered, Agree
<1>p3. Positions'
  BY <1>a, <1>b, <1>c, <1>e DEF Positions, Reading
<1>p4. BatchNumbered'
  BY <1>a, <1>b, <1>c, <1>e DEF BatchNumbered, Current, Agree, Reading
<1>p5. RowsNumbered'
  BY <1>a, <1>b, <1>c, <1>e DEF RowsNumbered, Cached, Current, Agree, Reading
<1>p6. Once'
  BY <1>a, <1>b, <1>c, <1>e DEF Once, Pending
<1>p7. RuledOnce'
  BY <1>a, <1>b, <1>c, <1>e DEF RuledOnce, ToRule, Syncers
<1>p8. BacklogLow'
  BY <1>a, <1>b, <1>c, <1>e DEF BacklogLow, Low, Below, Current, Reading
<1>p9. BacklogCached'
  BY <1>a, <1>b, <1>c, <1>e DEF BacklogCached, Below
<1>p10. BacklogQuiet'
  BY <1>a, <1>b, <1>c, <1>e DEF BacklogQuiet, Pending
<1>p11. QuietHolds'
  BY <1>a, <1>b, <1>c, <1>e DEF QuietHolds, Holds, Reading
<1>p12. QuietSyncMatches'
  BY <1>a, <1>b, <1>c, <1>e DEF QuietSyncMatches, Headers
<1> QED
  BY <1>p1, <1>p2, <1>p3, <1>p4, <1>p5, <1>p6, <1>p7, <1>p8, <1>p9, <1>p10, <1>p11, <1>p12 DEF IInv

\* Another client changes the flags.
LEMMA OtherFlagsIInv ==
  ASSUME IInv, NEW u \in Uids, OtherFlags(u)
  PROVE  IInv'
<1>a. /\ TypeOK /\ MailNumbered /\ Positions /\ BatchNumbered /\ RowsNumbered /\ Once /\ RuledOnce
      /\ BacklogLow /\ BacklogCached /\ BacklogQuiet /\ QuietHolds /\ QuietSyncMatches
  BY DEF IInv
<1>b. UNCHANGED <<uidNext, validity, delivered, rows, state, observed, claimed, op, ruled, told,
                outdated, syncs, sync>>
  BY DEF OtherFlags, store
<1>c. events' \in Nat /\ quiet' = {}
  BY <1>a DEF TypeOK, OtherFlags, Event
<1>d. (~mail[u].seen) \in BOOLEAN
  OBVIOUS
<1>e. Trimmed
  BY <1>a, <1>d, FlaggedTrims DEF OtherFlags
<1>p1. TypeOK'
  BY <1>a, <1>b, <1>c, <1>e DEF TypeOK, Trimmed
<1>p2. MailNumbered'
  BY <1>a, <1>b, <1>c, <1>e DEF MailNumbered, Agree, Trimmed
<1>p3. Positions'
  BY <1>a, <1>b, <1>c, <1>e DEF Positions, Reading
<1>p4. BatchNumbered'
  BY <1>a, <1>b, <1>c, <1>e DEF BatchNumbered, Current, Agree, Reading, Trimmed
<1>p5. RowsNumbered'
  BY <1>a, <1>b, <1>c, <1>e DEF RowsNumbered, Cached, Current, Agree, Reading, Trimmed
<1>p6. Once'
  BY <1>a, <1>b, <1>c, <1>e DEF Once, Pending
<1>p7. RuledOnce'
  BY <1>a, <1>b, <1>c, <1>e DEF RuledOnce, ToRule, Syncers
<1>p8. BacklogLow'
  BY <1>a, <1>b, <1>c, <1>e DEF BacklogLow, Low, Below, Current, Reading, Trimmed
<1>p9. BacklogCached'
  BY <1>a, <1>b, <1>c, <1>e DEF BacklogCached, Below
<1>p10. BacklogQuiet'
  BY <1>a, <1>b, <1>c, <1>e DEF BacklogQuiet, Pending
<1>p11. QuietHolds'
  BY <1>a, <1>b, <1>c, <1>e DEF QuietHolds, Holds, Reading
<1>p12. QuietSyncMatches'
  BY <1>a, <1>b, <1>c, <1>e DEF QuietSyncMatches, Headers
<1> QED
  BY <1>p1, <1>p2, <1>p3, <1>p4, <1>p5, <1>p6, <1>p7, <1>p8, <1>p9, <1>p10, <1>p11, <1>p12 DEF IInv

\* Another client removes a message.
LEMMA OtherRemovesIInv ==
  ASSUME IInv, NEW u \in Uids, OtherRemoves(u)
  PROVE  IInv'
<1>a. /\ TypeOK /\ MailNumbered /\ Positions /\ BatchNumbered /\ RowsNumbered /\ Once /\ RuledOnce
      /\ BacklogLow /\ BacklogCached /\ BacklogQuiet /\ QuietHolds /\ QuietSyncMatches
  BY DEF IInv
<1>b. UNCHANGED <<uidNext, validity, delivered, rows, state, observed, claimed, op, ruled, told,
                outdated, syncs, sync>>
  BY DEF OtherRemoves, store
<1>c. events' \in Nat /\ quiet' = {}
  BY <1>a DEF TypeOK, OtherRemoves, Event
<1>e. Trimmed
  BY <1>a, OnlyTrims DEF OtherRemoves
<1>p1. TypeOK'
  BY <1>a, <1>b, <1>c, <1>e DEF TypeOK, Trimmed
<1>p2. MailNumbered'
  BY <1>a, <1>b, <1>c, <1>e DEF MailNumbered, Agree, Trimmed
<1>p3. Positions'
  BY <1>a, <1>b, <1>c, <1>e DEF Positions, Reading
<1>p4. BatchNumbered'
  BY <1>a, <1>b, <1>c, <1>e DEF BatchNumbered, Current, Agree, Reading, Trimmed
<1>p5. RowsNumbered'
  BY <1>a, <1>b, <1>c, <1>e DEF RowsNumbered, Cached, Current, Agree, Reading, Trimmed
<1>p6. Once'
  BY <1>a, <1>b, <1>c, <1>e DEF Once, Pending
<1>p7. RuledOnce'
  BY <1>a, <1>b, <1>c, <1>e DEF RuledOnce, ToRule, Syncers
<1>p8. BacklogLow'
  BY <1>a, <1>b, <1>c, <1>e DEF BacklogLow, Low, Below, Current, Reading, Trimmed
<1>p9. BacklogCached'
  BY <1>a, <1>b, <1>c, <1>e DEF BacklogCached, Below
<1>p10. BacklogQuiet'
  BY <1>a, <1>b, <1>c, <1>e DEF BacklogQuiet, Pending
<1>p11. QuietHolds'
  BY <1>a, <1>b, <1>c, <1>e DEF QuietHolds, Holds, Reading
<1>p12. QuietSyncMatches'
  BY <1>a, <1>b, <1>c, <1>e DEF QuietSyncMatches, Headers
<1> QED
  BY <1>p1, <1>p2, <1>p3, <1>p4, <1>p5, <1>p6, <1>p7, <1>p8, <1>p9, <1>p10, <1>p11, <1>p12 DEF IInv

\* A message is delivered, under the next uid.
LEMMA DeliverIInv == IInv /\ Deliver => IInv'
<1> SUFFICES ASSUME IInv, Deliver PROVE IInv'
  OBVIOUS
<1>a. /\ TypeOK /\ MailNumbered /\ Positions /\ BatchNumbered /\ RowsNumbered /\ Once /\ RuledOnce
      /\ BacklogLow /\ BacklogCached /\ BacklogQuiet /\ QuietHolds /\ QuietSyncMatches
  BY DEF IInv
<1>b. UNCHANGED <<validity, rows, state, observed, claimed, op, ruled, told, outdated, syncs,
                events, sync>>
  BY DEF Deliver, store, bounds
<1>c. /\ quiet' = {} /\ delivered' = delivered + 1 /\ uidNext' = uidNext + 1 /\ modseq' = modseq + 1
      /\ delivered < MaxMsgs
  BY DEF Deliver
<1>d. /\ uidNext \in Nat \ {0} /\ modseq \in Nat /\ delivered \in Nat /\ Backlog <= delivered
      /\ uidNext <= Gone + delivered + 1 /\ MaxMsgs \in Nat /\ Gone \in Nat /\ Backlog \in Nat
      /\ Uids \subseteq Nat /\ Msgs \subseteq Nat
  BY <1>a, MailSyncBounds DEF TypeOK, Uids, Msgs
<1>e. uidNext \in Uids /\ delivered + 1 \in Msgs /\ uidNext' <= Gone + delivered' + 1
  BY <1>c, <1>d DEF Uids, Msgs
<1>f. /\ DOMAIN mail' = DOMAIN mail \cup {uidNext} /\ uidNext \notin DOMAIN mail
      /\ \A u \in DOMAIN mail : mail'[u] = mail[u] /\ u \in Nat /\ mail[u].msg \in Nat
      /\ mail'[uidNext].msg = delivered + 1
      /\ mail' \in [DOMAIN mail' -> [msg : Msgs, seen : BOOLEAN, mod : Nat]]
  <2>1. /\ \A u \in DOMAIN mail : mail[u] \in [msg : Msgs, seen : BOOLEAN,
            mod : Nat] /\ u \in Nat /\ u < uidNext
    BY <1>a, <1>d DEF TypeOK, MailNumbered
  <2>2. [msg |-> delivered + 1, seen |-> FALSE, mod |-> modseq + 1] \in [msg : Msgs,
            seen : BOOLEAN, mod : Nat]
    BY <1>d, <1>e
  <2>3. uidNext \notin DOMAIN mail
    BY <1>d, <2>1
  <2>4. mail' = [u \in DOMAIN mail \cup {uidNext} |->
               IF u = uidNext THEN [msg |-> delivered + 1, seen |-> FALSE,
                         mod |-> modseq + 1] ELSE mail[u]]
    BY DEF Deliver
  <2>5. \A u \in DOMAIN mail : mail[u].msg \in Nat
    BY <1>d, <2>1
  <2> QED
    BY <2>1, <2>2, <2>3, <2>4, <2>5
<1>g. /\ \A s \in Syncers : \A u \in DOMAIN sync[s].batch : u \in Nat
          /\ sync[s].batch[u].msg \in Nat
      /\ \A u \in DOMAIN rows : rows[u].msg \in Nat
  <2>1. \A s \in Syncers : sync[s].batch \in Headed
    BY <1>a DEF TypeOK, SyncStates
  <2>2. rows \in Headed
    BY <1>a DEF TypeOK
  <2> QED
    BY <1>d, <2>1, <2>2, HeadedFacts
<1>p1. TypeOK'
  BY <1>a, <1>b, <1>c, <1>d, <1>e, <1>f DEF TypeOK
<1>p2. MailNumbered'
  BY <1>a, <1>b, <1>c, <1>d, <1>f, <1>g DEF MailNumbered, Agree
<1>p3. Positions'
  BY <1>a, <1>b, <1>c, <1>d, <1>f, <1>g DEF Positions, Reading
<1>p4. BatchNumbered'
  BY <1>a, <1>b, <1>c, <1>d, <1>f, <1>g DEF BatchNumbered, Current, Agree, Reading
<1>p5. RowsNumbered'
  BY <1>a, <1>b, <1>c, <1>d, <1>f, <1>g DEF RowsNumbered, Cached, Current, Agree, Reading
<1>p6. Once'
  BY <1>a, <1>b, <1>c, <1>d, <1>f, <1>g DEF Once, Pending
<1>p7. RuledOnce'
  BY <1>a, <1>b, <1>c, <1>d, <1>f, <1>g DEF RuledOnce, ToRule, Syncers
<1>p8. BacklogLow'
  BY <1>a, <1>b, <1>c, <1>d, <1>f, <1>g DEF BacklogLow, Low, Below, Current, Reading
<1>p9. BacklogCached'
  BY <1>a, <1>b, <1>c, <1>d, <1>f, <1>g DEF BacklogCached, Below
<1>p10. BacklogQuiet'
  BY <1>a, <1>b, <1>c, <1>d, <1>f, <1>g DEF BacklogQuiet, Pending
<1>p11. QuietHolds'
  BY <1>a, <1>b, <1>c, <1>d, <1>f, <1>g DEF QuietHolds, Holds, Reading
<1>p12. QuietSyncMatches'
  BY <1>a, <1>b, <1>c, <1>d, <1>f, <1>g DEF QuietSyncMatches, Headers
<1> QED
  BY <1>p1, <1>p2, <1>p3, <1>p4, <1>p5, <1>p6, <1>p7, <1>p8, <1>p9, <1>p10, <1>p11, <1>p12 DEF IInv

\* Where the messages of a rebuilt mailbox are taken from: each from another uid, no lower
\* than the one it is given.
LEMMA Renumbering ==
  ASSUME NEW D \in SUBSET Uids, NEW n \in 1 .. Cardinality(D)
  PROVE  LET nth == CHOOSE u \in D : Cardinality({v \in D : v < u}) = n - 1
         IN  nth \in D /\ Cardinality({v \in D : v < nth}) = n - 1 /\ n <= nth
<1> DEFINE Before(u) == {v \in D : v < u}
<1> DEFINE top == Gone + MaxMsgs
<1>t. top \in Nat /\ Uids = 1 .. top
  BY MailSyncBounds DEF Uids
<1> HIDE DEF top
<1>1. D \subseteq Nat /\ IsFiniteSet(D) /\ \A u \in D : u >= 1 /\ u <= top
  <2>1. IsFiniteSet(1 .. top)
    BY <1>t, FS_Interval
  <2>2. IsFiniteSet(D)
    BY <1>t, <2>1, FS_Subset
  <2> QED
    BY <1>t, <2>2
<1>2. /\ n \in Nat /\ 1 <= n /\ n <= Cardinality(D) /\ Cardinality(D) \in Nat
  BY <1>1, FS_CardinalityType
<1>3. \A b \in Nat : IsFiniteSet(Before(b)) /\ Cardinality(Before(b)) \in Nat
  BY <1>1, FS_Subset, FS_CardinalityType
\* The least bound with n of them below it.
<1> DEFINE B == {b \in Nat : Cardinality(Before(b)) >= n}
<1>4. top + 1 \in B
  <2>1. \A u \in D : u < top + 1
    BY <1>1, <1>t
  <2>2. Before(top + 1) = D
    BY <2>1
  <2>3. Cardinality(Before(top + 1)) = Cardinality(D)
    BY <2>2
  <2>4. top + 1 \in Nat /\ Cardinality(D) >= n
    BY <1>2, <1>t
  <2> QED
    BY <2>3, <2>4
<1>5. PICK b \in B : \A c \in B : b <= c
  BY <1>4, LeastExists
<1>6. Before(0) = {}
  <2>1. \A u \in D : ~(u < 0)
    BY <1>1
  <2> QED
    BY <2>1
<1>7. b # 0
  <2>1. Cardinality({}) = 0
    BY FS_EmptySet
  <2> QED
    BY <1>2, <1>5, <1>6, <2>1
<1>8. b - 1 \in Nat /\ Cardinality(Before(b - 1)) < n
  <2>1. b - 1 \in Nat /\ b - 1 \notin B
    BY <1>5, <1>7
  <2> QED
    BY <1>2, <1>3, <2>1
<1>9. b - 1 \in D /\ Before(b) = Before(b - 1) \cup {b - 1} /\ b - 1 \notin Before(b - 1)
  <2>1. Before(b) \subseteq Before(b - 1) \cup {b - 1} /\ Before(b - 1) \subseteq Before(b)
    <3>1. \A u \in D : u < b <=> (u < b - 1 \/ u = b - 1)
      BY <1>1, <1>5, <1>8
    <3> QED
      BY <3>1
  <2>2. Before(b) # Before(b - 1)
    BY <1>2, <1>3, <1>5, <1>8
  <2> QED
    BY <1>5, <1>8, <2>1, <2>2
<1>10. Cardinality(Before(b)) = Cardinality(Before(b - 1)) + 1
  BY <1>3, <1>8, <1>9, FS_AddElement
<1>11. Cardinality(Before(b - 1)) = n - 1
  BY <1>2, <1>3, <1>5, <1>8, <1>10
<1> DEFINE nth == CHOOSE u \in D : Cardinality(Before(u)) = n - 1
<1>12. nth \in D /\ Cardinality(Before(nth)) = n - 1
  BY <1>9, <1>11
<1> HIDE DEF nth
<1>13. n - 1 <= nth - 1
  <2>1. nth \in Nat /\ nth >= 1 /\ Before(nth) \subseteq 1 .. (nth - 1)
    <3>1. nth \in Nat /\ nth >= 1
      BY <1>1, <1>12
    <3>2. \A u \in D : u < nth => u \in 1 .. (nth - 1)
      BY <1>1, <3>1
    <3> QED
      BY <3>1, <3>2
  <2>2. IsFiniteSet(1 .. (nth - 1)) /\ Cardinality(1 .. (nth - 1)) = nth - 1
    BY <2>1, FS_Interval
  <2>3. Cardinality(Before(nth)) <= Cardinality(1 .. (nth - 1))
    BY <2>1, <2>2, FS_Subset
  <2> QED
    BY <1>12, <2>2, <2>3
<1>14. n <= nth
  BY <1>1, <1>2, <1>12, <1>13
<1> QED
  BY <1>12, <1>14 DEF nth

\* The mailbox is rebuilt: what was read of it is of an earlier one from now on.
LEMMA ResetIInv == IInv /\ Reset => IInv'
<1> SUFFICES ASSUME IInv, Reset PROVE IInv'
  OBVIOUS
<1>a. /\ TypeOK /\ MailNumbered /\ Positions /\ BatchNumbered /\ RowsNumbered /\ Once /\ RuledOnce
      /\ BacklogLow /\ BacklogCached /\ BacklogQuiet /\ QuietHolds /\ QuietSyncMatches
  BY DEF IInv
<1>b. UNCHANGED <<modseq, delivered, rows, state, observed, claimed, op, ruled, told, outdated,
                syncs, sync>>
  BY DEF Reset, store
<1> DEFINE D == DOMAIN mail
           nth(n) == CHOOSE u \in D : Cardinality({v \in D : v < u}) = n - 1
<1>c. /\ quiet' = {} /\ validity' = validity + 1 /\ events' \in Nat /\ uidNext' = Cardinality(D) + 1
      /\ mail' = [n \in 1 .. Cardinality(D) |-> mail[nth(n)]]
  BY <1>a DEF Reset, Event, TypeOK
<1>d. /\ D \subseteq Uids /\ D \subseteq 1 .. (uidNext - 1) /\ uidNext \in Nat \ {0}
          /\ validity \in Nat \ {0}
  BY <1>a DEF TypeOK, MailNumbered, Uids
<1>e. \A n \in 1 .. Cardinality(D) : nth(n) \in D /\ Cardinality({v \in D : v < nth(n)}) = n - 1
          /\ n <= nth(n)
  BY <1>d, Renumbering
<1> HIDE DEF nth
<1>f. Cardinality(D) \in Nat /\ Cardinality(D) <= uidNext - 1
  <2>1. IsFiniteSet(1 .. (uidNext - 1)) /\ Cardinality(1 .. (uidNext - 1)) = uidNext - 1
    BY <1>d, FS_Interval
  <2> QED
    BY <1>d, <2>1, FS_Subset, FS_CardinalityType
<1>g. /\ DOMAIN mail' = 1 .. Cardinality(D) /\ DOMAIN mail' \subseteq Uids
      /\ \A n \in DOMAIN mail' : nth(n) \in D /\ n <= nth(n) /\ mail'[n] = mail[nth(n)]
                /\ n < uidNext' /\ n \in Nat
      /\ \A n, m \in DOMAIN mail' : nth(n) = nth(m) => n = m
  <2>1. \A n \in 1 .. Cardinality(D) : n \in Uids
    <3> TAKE n \in 1 .. Cardinality(D)
    <3>1. nth(n) \in Uids /\ n <= nth(n)
      BY <1>d, <1>e
    <3>2. n \in Nat /\ n >= 1
      BY <1>f
    <3> QED
      BY <3>1, <3>2, MailSyncBounds DEF Uids
  <2>2. DOMAIN mail' = 1 .. Cardinality(D) /\ \A n \in DOMAIN mail' : mail'[n] = mail[nth(n)]
    BY <1>c
  <2>3. \A n \in DOMAIN mail' : n < uidNext' /\ n \in Nat
    BY <1>c, <1>f, <2>2
  <2>4. \A n, m \in DOMAIN mail' : nth(n) = nth(m) => n = m
    <3> TAKE n, m \in DOMAIN mail'
    <3> HAVE nth(n) = nth(m)
    <3>1. n - 1 = m - 1
      BY <1>e, <2>2
    <3> QED
      BY <2>3, <3>1
  <2> QED
    BY <1>e, <2>1, <2>2, <2>3, <2>4
<1>h. /\ mail' \in [DOMAIN mail' -> [msg : Msgs, seen : BOOLEAN, mod : Nat]]
      /\ uidNext' \in Nat \ {0} /\ uidNext' <= Gone + delivered + 1
  <2>1. mail' \in [DOMAIN mail' -> [msg : Msgs, seen : BOOLEAN, mod : Nat]]
    BY <1>a, <1>c, <1>g DEF TypeOK
  <2>2. uidNext' \in Nat \ {0} /\ uidNext' <= uidNext
    BY <1>c, <1>d, <1>f
  <2>3. uidNext <= Gone + delivered + 1 /\ Gone + delivered + 1 \in Nat
    BY <1>a, MailSyncBounds DEF TypeOK
  <2> QED
    BY <1>d, <2>1, <2>2, <2>3
<1>i. ~Cached' /\ \A s \in Syncers : ~Current(s)'
  <2>1. state.validity \in Nat /\ \A s \in Syncers : sync[s].found \in Nat
    BY <1>a DEF TypeOK, SyncStates
  <2> QED
    BY <1>a, <1>b, <1>c, <1>d, <2>1 DEF Cached, Current, Positions
<1>j. BacklogLow'
  <2>1. ASSUME NEW n \in DOMAIN mail', mail'[n].msg <= Backlog PROVE Low(n)
    <3>1. Low(nth(n)) /\ n <= nth(n) /\ n \in Nat /\ nth(n) \in Nat
      BY <1>a, <1>d, <1>g, <2>1 DEF BacklogLow
    <3>2. /\ state.uidNext \in Nat /\ \A s \in Syncers : sync[s].before \in Nat
              /\ sync[s].next \in Nat
      BY <1>a DEF TypeOK, SyncStates
    <3> QED
      BY <3>1, <3>2 DEF Low, Below
  <2> QED
    BY <1>b, <1>i, <2>1 DEF BacklogLow, Low
<1>k. state.validity \in Nat /\ \A s \in Syncers : sync[s].found \in Nat
  BY <1>a DEF TypeOK, SyncStates
<1>p1. TypeOK'
  BY <1>a, <1>b, <1>c, <1>d, <1>g, <1>h DEF TypeOK
<1>p2. MailNumbered'
  BY <1>a, <1>b, <1>c, <1>g, <1>i DEF MailNumbered, Agree
<1>p3. Positions'
  BY <1>a, <1>b, <1>c, <1>d, <1>k DEF Positions
<1>p4. BatchNumbered'
  BY <1>i DEF BatchNumbered
<1>p5. RowsNumbered'
  BY <1>a, <1>b, <1>i DEF RowsNumbered
<1>p6. Once'
  BY <1>a, <1>b, <1>c, <1>g, <1>i DEF Once, Pending
<1>p7. RuledOnce'
  BY <1>a, <1>b, <1>c, <1>g, <1>i DEF RuledOnce, ToRule, Syncers
<1>p8. BacklogLow'
  BY <1>j
<1>p9. BacklogCached'
  BY <1>a, <1>b, <1>c, <1>g, <1>i DEF BacklogCached, Below
<1>p10. BacklogQuiet'
  BY <1>a, <1>b, <1>c, <1>g, <1>i DEF BacklogQuiet, Pending
<1>p11. QuietHolds'
  BY <1>a, <1>b, <1>c, <1>g, <1>i DEF QuietHolds, Holds, Reading
<1>p12. QuietSyncMatches'
  BY <1>a, <1>b, <1>c, <1>g, <1>i DEF QuietSyncMatches, Headers
<1> QED
  BY <1>p1, <1>p2, <1>p3, <1>p4, <1>p5, <1>p6, <1>p7, <1>p8, <1>p9, <1>p10, <1>p11, <1>p12 DEF IInv
-----------------------------------------------------------------------------
(* The theorems.                                                           *)

\* The account was just added, or a first sync has run.
LEMMA InitIInv == Init => IInv
<1> SUFFICES ASSUME Init PROVE IInv
  OBVIOUS
<1>1. /\ Gone \in Nat /\ Backlog \in Nat /\ MaxMsgs \in Nat /\ Backlog <= MaxMsgs
  BY MailSyncBounds
<1> DEFINE U == (Gone + 1) .. (Gone + Backlog)
<1>2. /\ mail = [u \in U |-> [msg |-> u - Gone, seen |-> FALSE, mod |-> 1]] /\ DOMAIN mail = U
      /\ delivered = Backlog /\ uidNext = Gone + Backlog + 1 /\ validity = 1 /\ modseq = 1
      /\ observed = {} /\ claimed = "nobody" /\ op = NoOp
      /\ ruled = [m \in Msgs |-> 0] /\ told = [m \in Msgs |-> 0]
      /\ quiet = {} /\ outdated = FALSE /\ syncs = 0 /\ events = 0
  BY DEF Init
<1>3. \A u \in U : u \in Uids /\ u - Gone \in Msgs /\ u - Gone \in 1 .. Backlog /\ u \in Nat
  BY <1>1 DEF Uids, Msgs
<1>4. /\ mail \in [DOMAIN mail -> [msg : Msgs, seen : BOOLEAN, mod : Nat]] /\ DOMAIN mail \subseteq Uids
      /\ \A u \in DOMAIN mail : mail[u].msg = u - Gone /\ u < uidNext /\ mail[u].msg <= delivered
                                /\ u \in Nat
  BY <1>1, <1>2, <1>3
<1>5. \A u, v \in DOMAIN mail : mail[u].msg = mail[v].msg => u = v
  BY <1>1, <1>4
<1> HIDE DEF U
<1>6. /\ sync = [s \in Syncers |-> NoSync] /\ sync \in [Syncers -> SyncStates]
      /\ "watch" \in Syncers /\ "refresh" \in Syncers
      /\ \A s \in Syncers : /\ sync[s].pc = "idle" /\ sync[s].before = 0
                            /\ sync[s].found = 0 /\ sync[s].next = 0
  BY NoSyncFacts DEF Init, NoSync, Syncers
<1>7. /\ rows \in Headed /\ state \in [validity : Nat, uidNext : Nat, modseq : Nat]
      /\ state.validity = 0 \/ state.validity = 1
      /\ state.uidNext = 0 \/ state.uidNext = uidNext
      /\ state.validity = 0 => DOMAIN rows = {}
      /\ \A u \in DOMAIN rows : u \in DOMAIN mail /\ rows[u].msg = mail[u].msg
  <2>1. CASE rows = Nothing /\ state = [validity |-> 0, uidNext |-> 0, modseq |-> 0]
    BY <2>1, NothingFacts
  <2>2. CASE rows = Headers(Readable) /\ state = [validity |-> 1, uidNext |-> uidNext, modseq |-> 1]
    <3>1. /\ Readable \in SUBSET DOMAIN mail /\ Readable \in SUBSET Uids
      BY <1>4 DEF Readable, Newest
    <3>2. rows \in [Readable -> Header] /\ \A u \in Readable : rows[u].msg = mail[u].msg
      BY <1>4, <2>2, <3>1 DEF Headers, Header
    <3>3. rows \in Headed
      BY <3>1, <3>2 DEF Headed
    <3>4. uidNext \in Nat
      BY <1>1, <1>2
    <3> QED
      BY <2>2, <3>1, <3>2, <3>3, <3>4
  <2> QED
    BY <2>1, <2>2 DEF Init
<1>8. TypeOK
  <2>1. op \in [pc : {"idle", "server", "store"}, kind : {"none", "read", "unread", "all", "move"},
                uids : SUBSET Uids]
    BY <1>2 DEF NoOp
  <2>2. uidNext \in Nat \ {0} /\ delivered \in Backlog .. MaxMsgs /\ uidNext <= Gone + delivered + 1
    BY <1>1, <1>2
  <2>3. ruled \in [Msgs -> Nat] /\ told \in [Msgs -> Nat]
    BY <1>2
  <2>4. /\ validity \in Nat \ {0} /\ modseq \in Nat /\ observed \subseteq Msgs
        /\ claimed \in Syncers \cup {"nobody"} /\ quiet \subseteq Syncers
        /\ syncs \in Nat /\ events \in Nat
    BY <1>2
  <2>5. outdated \in BOOLEAN
    BY <1>2
  <2> QED
    BY <1>4, <1>6, <1>7, <2>1, <2>2, <2>3, <2>4, <2>5 DEF TypeOK
<1>9. MailNumbered /\ Positions /\ BatchNumbered
  BY <1>2, <1>4, <1>5, <1>6, <1>7 DEF MailNumbered, Positions, BatchNumbered, Current, Reading, Agree
<1>10. RowsNumbered
  <2>1. \A s \in Syncers : ~Current(s)
    BY <1>6 DEF Current, Reading
  <2>2. Agree(rows, rows) /\ Agree(mail, rows)
    BY <1>5, <1>7 DEF Agree
  <2>3. \A u \in DOMAIN rows : rows[u].msg <= delivered
    BY <1>4, <1>7
  <2> QED
    BY <2>1, <2>2, <2>3 DEF RowsNumbered
<1>11. Once /\ RuledOnce
  BY <1>2, <1>6 DEF Once, Pending, RuledOnce, ToRule
<1>12. BacklogLow
  BY <1>4, <1>6, <1>7 DEF BacklogLow, Low, Below, Current, Reading
<1>13. BacklogCached /\ BacklogQuiet
  <2>1. \A m \in 1 .. Backlog : m \in Msgs
    BY <1>1 DEF Msgs
  <2> QED
    BY <1>2, <1>6, <2>1 DEF BacklogCached, BacklogQuiet, Below, Pending
<1>14. QuietHolds /\ QuietSyncMatches
  BY <1>2 DEF QuietHolds, QuietSyncMatches
<1> QED
  BY <1>8, <1>9, <1>10, <1>11, <1>12, <1>13, <1>14 DEF IInv

\* Every step keeps the invariant.
LEMMA NextIInv == IInv /\ [Next]_vars => IInv'
<1> SUFFICES ASSUME IInv, [Next]_vars PROVE IInv'
  OBVIOUS
<1>1. CASE Deliver
  BY <1>1, DeliverIInv
<1>2. CASE Reset
  BY <1>2, ResetIInv
<1>3. ASSUME NEW u \in Uids, OtherFlags(u) \/ OtherRemoves(u) PROVE IInv'
  BY <1>3, OtherFlagsIInv, OtherRemovesIInv
<1>4. ASSUME NEW s \in Syncers, SyncStep(s) PROVE IInv'
  BY <1>4, BeginIInv, PriorIInv, FetchIInv, RecentIInv, IsolateIInv, FlagsIInv, ListIInv, ReadAgainIInv,
     SyncFailsIInv, ApplyIInv, AfterIInv, ArrivalsIInv, TellIInv DEF SyncStep
<1>5. CASE Companions \/ Rule \/ RuleFiles
  BY <1>5, CompanionsIInv, RuleIInv, RuleFilesIInv
<1>6. CASE OpBegin \/ OpServer \/ OpStore \/ Crash
  BY <1>6, OpBeginIInv, OpServerIInv, OpStoreIInv, CrashIInv
<1>7. CASE UNCHANGED vars
  <2>1. UNCHANGED <<mail, uidNext, validity, modseq, delivered, rows, state, observed, claimed, sync, op,
                    ruled, told, quiet, outdated, syncs, events>>
    BY <1>7 DEF vars, server, store, bounds
  <2>2. TypeOK' /\ MailNumbered' /\ Positions' /\ BatchNumbered' /\ RowsNumbered'
    BY <2>1 DEF IInv, TypeOK, MailNumbered, Positions, BatchNumbered, RowsNumbered, Current, Cached, Agree
  <2>3. Once' /\ RuledOnce' /\ BacklogLow' /\ BacklogCached' /\ BacklogQuiet'
    BY <2>1 DEF IInv, Once, RuledOnce, ToRule, BacklogLow, Low, Current, BacklogCached, BacklogQuiet
  <2>4. QuietHolds' /\ QuietSyncMatches'
    BY <2>1 DEF IInv, QuietHolds, Holds, QuietSyncMatches, Headers, Readable, Newest, Poisoned
  <2> QED
    BY <2>2, <2>3, <2>4 DEF IInv
<1> QED
  BY <1>1, <1>2, <1>3, <1>4, <1>5, <1>6, <1>7 DEF Next

\* The inductive invariant holds in every reachable state.
THEOREM MailSyncInvariant == Spec => []IInv
BY InitIInv, NextIInv, PTL DEF Spec

\* The mailbox, the store and the tasks keep their types, and a uid is never above what was
\* delivered, however often the mailbox is rebuilt.
THEOREM MailSyncTypeCorrect == Spec => []TypeOK
<1>1. IInv => TypeOK
  BY DEF IInv
<1> QED
  BY <1>1, MailSyncInvariant, PTL

\* A sync that ran to its end with nothing else happening (sync_messages) leaves the window as
\* the server has it and no row for a message that is gone, whatever came before it.
THEOREM MailSyncQuietSyncMatches == Spec => []QuietSyncMatches
<1>1. IInv => QuietSyncMatches
  BY DEF IInv
<1> QED
  BY <1>1, MailSyncInvariant, PTL

\* However the refresh and the watch overlap, a message goes through the rules and is announced
\* (apply_rules_to_arrivals, mail.newMessages) once at most, unless a sync wrote what it had
\* read of an earlier mailbox, or beside it.
THEOREM MailSyncArrivesOnce == Spec => []ArrivesOnce
<1>1. IInv => ArrivesOnce
  BY DEF IInv, ArrivesOnce, Once, RuledOnce
<1> QED
  BY <1>1, MailSyncInvariant, PTL

\* Mail that was there before the account was added is never announced and never goes through
\* the rules (new_unread_inbox_messages), also after a rebuild, under the same condition.
THEOREM MailSyncBacklogIsNoArrival == Spec => []BacklogIsNoArrival
<1>1. IInv => BacklogIsNoArrival
  BY DEF IInv, BacklogIsNoArrival, BacklogQuiet
<1> QED
  BY <1>1, MailSyncInvariant, PTL

=============================================================================
