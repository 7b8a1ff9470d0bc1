------------------------- MODULE AutoArchive_proofs -------------------------
(***************************************************************************)
(* What automatic archiving never does, for every folder, every policy and *)
(* any number of crashes, failing steps and changes by others.             *)
(*                                                                         *)
(* The invariant follows one message through a run.  While nobody gives    *)
(* uids anew under it, a uid the run chose names the message it chose or   *)
(* nothing (IdsStand, InHand); a copy is made only where the Message-ID    *)
(* leads to none (NewToArchive), and is counted on only once it has been   *)
(* compared (Compared, VerifiedAreCopied): until then the message is still *)
(* in the folder, so that the copy may be thrown away again.               *)
(***************************************************************************)
EXTENDS AutoArchive, FiniteSetTheorems, WellFoundedInduction, TLAPS

\* A message is in the run's hands.
Handling == {"look", "store", "note", "check", "discard", "clear", "verify"}
Fetching == {"fetch"} \cup Handling

\* A local copy other than the one the run has just made and not yet compared.
Settled(l) == ~(run.pc \in {"note", "check", "discard"} /\ l = run.at)
Copied(m)  == \E l \in LocalUids : local[l] = m /\ Settled(l)

\* Only what was previewed is confirmed, and carried out.
Confirmed == confirmed \in seen \cup {None}

\* What a run works on is what it chose.
Chosen ==
  /\ run.pc \in Fetching => run.todo \subseteq DOMAIN run.ids
  /\ run.pc \in Handling =>
       run.uid \in Uids /\ run.uid \in DOMAIN run.ids /\ run.raw \in Messages
  /\ run.pc \in {"note", "check", "discard", "verify"} => run.at \in LocalUids
  /\ run.pc \in {"search", "headers"} => run.verified = {}

\* A chosen uid names what it named, or nothing.
IdsStand ==
  ~shifted /\ run.pc \in Fetching =>
    \A u \in DOMAIN run.ids : folder[u] = None \/ Id(folder[u]) = run.ids[u]

\* The bytes in hand are those in the folder, unless somebody removed the message.
InHand ==
  ~shifted /\ run.pc \in Handling =>
    /\ Id(run.raw) = run.ids[run.uid]
    /\ folder[run.uid] = run.raw \/ (folder[run.uid] = None /\ run.raw \in discarded)

\* A message with a Message-ID is copied only where there is no copy of it.
NewToArchive ==
  ~shifted /\ run.pc = "store" /\ run.raw \in HasId => \A l \in LocalUids : local[l] # run.raw

\* The copy that was compared is the message's.
Compared ==
  ~shifted /\ run.pc = "verify" => local[run.at] = run.raw \/ run.raw \in discarded

\* What the run may remove has a copy it will not throw away.
VerifiedAreCopied ==
  ~shifted /\ run.pc \in Fetching \cup {"delete"} =>
    \A u \in run.verified : folder[u] = None \/ folder[u] \in discarded \/ Copied(folder[u])

\* What is about to be removed after a copy is in the Archive folder.
MovedAreArchived ==
  ~shifted /\ run.pc = "remove" =>
    \A u \in run.todo : folder[u] = None \/ folder[u] \in archive

\* NeverLost, without the copy that may still be thrown away.
Safe ==
  ~shifted =>
    \A m \in had :
      m \in archive \/ m \in discarded \/ (\E u \in Uids : folder[u] = m) \/ Copied(m)

\* NoSecondLocalCopy, by pairs.
OneCopy ==
  ~shifted =>
    \A m \in HasId : \A k, l \in LocalUids : local[k] = m /\ local[l] = m => k = l

IInv ==
  /\ TypeOK /\ Confirmed /\ MovesWereSeen /\ Chosen
  /\ IdsStand /\ InHand /\ NewToArchive /\ Compared
  /\ VerifiedAreCopied /\ MovedAreArchived /\ Safe /\ OneCopy

-----------------------------------------------------------------------------
(* Least and greatest.                                                     *)

\* A set of numbers that is not empty has a least member, and Min is it.
LEMMA MinIsIn ==
  ASSUME NEW S \in SUBSET Nat, S # {}
  PROVE  Min(S) \in S /\ \A y \in S : Min(S) <= y
<1>1. PICK x \in S : \A y \in S : <<y, x>> \notin OpToRel(<, Nat)
  BY NatLessThanWellFounded, WFMin, Zenon
<1>2. \A y \in S : ~(y < x)
  BY <1>1, Zenon DEF OpToRel
<1>3. \A y \in S : x <= y
  BY <1>2
<1> QED
  BY <1>3 DEF Min

\* The uid a copy is given is free.
LEMMA NextUidIsFree ==
  ASSUME TypeOK, next_uid \in LocalUids
  PROVE  local[next_uid] = None
<1> DEFINE S == {l \in LocalUids : local[l] # None} \cup {0}
           T == {n \in Nat : MaxLocal - n \in S}
<1>1. MaxLocal \in Nat
  BY ArchiveAssumption
<1>2. S \subseteq 0 .. MaxLocal /\ 0 \in S
  BY <1>1 DEF LocalUids
<1>3. MaxLocal \in T
  BY <1>1, <1>2
<1>4. Min(T) \in T /\ \A y \in T : Min(T) <= y
  BY <1>3, MinIsIn
<1>5. \A y \in S : MaxLocal - Min(T) >= y
  <2> TAKE y \in S
  <2>1. y \in 0 .. MaxLocal
    BY <1>2
  <2>2. MaxLocal - (MaxLocal - y) = y /\ MaxLocal - y \in Nat
    BY <2>1, <1>1
  <2>3. MaxLocal - y \in T
    BY <2>2
  <2> QED
    BY <2>1, <2>3, <1>1, <1>4
<1>6. Max(S) \in S /\ \A y \in S : Max(S) >= y
  BY <1>4, <1>5 DEF Max
<1>7. next_uid = 1 + Max(S)
  BY DEF next_uid
<1>8. next_uid \notin S
  BY <1>1, <1>2, <1>6, <1>7
<1> QED
  BY <1>8

\* What is chosen is a set of uids, each with its message's id.
LEMMA IdMapFacts ==
  ASSUME NEW ids \in IdMaps
  PROVE  DOMAIN ids \subseteq Uids /\ \A u \in DOMAIN ids : ids[u] \in Messages \cup {None}
BY DEF IdMaps

\* What Headers makes of the chosen uids is such a map.
LEMMA IdMapMade ==
  ASSUME TypeOK, NEW S \in SUBSET Uids
  PROVE  [u \in S |-> Id(folder[u])] \in IdMaps
<1>1. [u \in S |-> Id(folder[u])] \in [S -> Messages \cup {None}]
  BY DEF TypeOK, Id
<1> QED
  BY <1>1 DEF IdMaps

\* No run is a run that has just ended.
LEMMA IdleFacts == Idle \in Runs /\ Idle.pc = "idle" /\ Idle.verified = {}
<1>1. [u \in {} |-> None] \in [{} -> Messages \cup {None}]
  OBVIOUS
<1>2. [u \in {} |-> None] \in IdMaps
  BY <1>1 DEF IdMaps
<1> QED
  BY <1>2 DEF Idle, Runs

-----------------------------------------------------------------------------
(* One lemma per action.                                                   *)


\* A run that ends and has changed nothing but the journal keeps the invariant: what it
\* copied and did not compare is now a copy like any other.
LEMMA RunEnds ==
  ASSUME IInv, run' = Idle,
         UNCHANGED <<folder, flagged, archive, local, policy, on, confirmed, seen,
                    had, discarded, shifted>>,
         journal' \in [Uids -> Rows], events' \in Nat, saves' \in Nat, faults' \in Nat
  PROVE  IInv'
<1>a. /\ TypeOK /\ Confirmed /\ Safe /\ OneCopy
  BY DEF IInv
<1>1. run' = Idle /\ run'.pc = "idle" /\ run' \in Runs
  BY IdleFacts
<1>2. TypeOK'
  BY <1>a, <1>1 DEF TypeOK
<1>3. Confirmed' /\ MovesWereSeen'
  BY <1>a, <1>1 DEF Confirmed, MovesWereSeen
<1>4. Chosen' /\ IdsStand' /\ InHand' /\ NewToArchive' /\ Compared'
        /\ VerifiedAreCopied' /\ MovedAreArchived'
  BY <1>1 DEF Chosen, Fetching, Handling, IdsStand, InHand, NewToArchive, Compared,
     VerifiedAreCopied, MovedAreArchived
<1>5. Safe' /\ OneCopy'
  BY <1>a, <1>1 DEF Safe, OneCopy, Copied, Settled
<1> QED
  BY <1>2, <1>3, <1>4, <1>5 DEF IInv

\* The same when the run goes on to the next message.
LEMMA NextMessage ==
  ASSUME IInv, run.pc \in Handling, run' = NextOne(run),
         UNCHANGED <<folder, flagged, archive, local, policy, on, confirmed, seen,
                    had, discarded, shifted>>,
         journal' \in [Uids -> Rows], events' \in Nat, saves' \in Nat, faults' \in Nat
  PROVE  IInv'
<1>a. /\ TypeOK /\ Confirmed /\ MovesWereSeen /\ Chosen /\ IdsStand /\ VerifiedAreCopied
      /\ Safe /\ OneCopy
  BY DEF IInv
<1>1. /\ run'.pc = "fetch" /\ run'.policy = run.policy /\ run'.todo = run.todo /\ run'.ids = run.ids
      /\ run'.verified = run.verified /\ run' \in Runs /\ run # Idle
  <2>1. /\ run'.pc = "fetch" /\ run'.policy = run.policy /\ run'.todo = run.todo /\ run'.ids = run.ids
        /\ run'.verified = run.verified
    BY <1>a DEF TypeOK, Runs, NextOne
  <2>2. run' \in Runs
    BY <1>a DEF TypeOK, Runs, NextOne
  <2> QED
    BY <2>1, <2>2, IdleFacts DEF Handling
<1>2. TypeOK'
  BY <1>a, <1>1 DEF TypeOK
<1>3. Confirmed' /\ MovesWereSeen'
  BY <1>a, <1>1 DEF Confirmed, MovesWereSeen
<1>4. InHand' /\ NewToArchive' /\ Compared' /\ MovedAreArchived'
  BY <1>1 DEF InHand, Handling, NewToArchive, Compared, MovedAreArchived
<1>5. Chosen' /\ IdsStand'
  BY <1>a, <1>1 DEF Chosen, IdsStand, Fetching, Handling
<1>6. VerifiedAreCopied'
  BY <1>a, <1>1 DEF VerifiedAreCopied, Fetching, Handling, Copied, Settled
<1>7. Safe' /\ OneCopy'
  BY <1>a, <1>1 DEF Safe, OneCopy, Copied, Settled
<1> QED
  BY <1>2, <1>3, <1>4, <1>5, <1>6, <1>7 DEF IInv

\* The run asks what is old, or ends (plan).
LEMMA SearchIInv == IInv /\ Search => IInv'
<1> SUFFICES ASSUME IInv, Search PROVE IInv'
  OBVIOUS
<1>a. /\ TypeOK /\ Confirmed /\ MovesWereSeen /\ Chosen
      /\ IdsStand /\ InHand /\ NewToArchive /\ Compared
      /\ VerifiedAreCopied /\ MovedAreArchived /\ Safe /\ OneCopy
  BY DEF IInv
<1>b. UNCHANGED <<folder, flagged, archive, local, journal, policy, on, confirmed,
                seen, had, discarded, shifted>>
  BY DEF Search, server, store, choice, history, bounds, Works, Fault, Event
<1>c. events' \in Nat /\ saves' \in Nat /\ faults' \in Nat
  BY <1>a DEF TypeOK, Search, bounds, Works, Fault, Event
<1>1. ASSUME run.pc = "search", run' = [run EXCEPT !.pc = "headers", !.todo = {u \in Uids : folder[u] # None}]
      PROVE  IInv'
  <2>1. /\ run'.pc = "headers"
        /\ run'.policy = run.policy
        /\ run'.todo = {u \in Uids : folder[u] # None}
        /\ run'.ids = run.ids
        /\ run'.verified = run.verified /\ run'.uid = run.uid /\ run'.raw = run.raw /\ run'.at = run.at
        /\ run' \in Runs /\ run # Idle
    <3>1. /\ run'.pc = "headers"
          /\ run'.policy = run.policy
          /\ run'.todo = {u \in Uids : folder[u] # None}
          /\ run'.ids = run.ids
          /\ run'.verified = run.verified /\ run'.uid = run.uid /\ run'.raw = run.raw /\ run'.at = run.at
      BY <1>a, <1>1 DEF TypeOK, Runs
    <3>2. run' \in Runs
      BY <1>a, <1>1 DEF TypeOK, Runs
    <3> QED
      BY <3>1, <3>2, <1>1, IdleFacts
  <2>2. TypeOK'
    BY <1>a, <1>b, <1>c, <1>1, <2>1 DEF TypeOK
  <2>3. Confirmed' /\ MovesWereSeen'
    BY <1>a, <1>b, <1>1, <2>1 DEF Confirmed, MovesWereSeen
  <2>4. IdsStand' /\ InHand' /\ NewToArchive' /\ Compared'
          /\ VerifiedAreCopied' /\ MovedAreArchived'
    BY <2>1 DEF IdsStand, Fetching, Handling, InHand, NewToArchive, Compared, VerifiedAreCopied,
       MovedAreArchived
  <2>5. Chosen'
    BY <1>a, <1>b, <1>1, <2>1 DEF Chosen, Fetching, Handling, TypeOK, Runs
  <2>6. Safe'
    BY <1>a, <1>b, <1>1, <2>1 DEF Safe, Copied, Settled
  <2>7. OneCopy'
    BY <1>a, <1>b, <1>1, <2>1 DEF OneCopy
  <2> QED
    BY <2>2, <2>3, <2>4, <2>5, <2>6, <2>7 DEF IInv
<1>2. ASSUME run' = Idle
      PROVE  IInv'
  BY <1>a, <1>b, <1>c, <1>2, RunEnds DEF TypeOK, Handling
<1> QED
  BY <1>1, <1>2 DEF Search

\* The headers decide what the run works on (select, plan).
LEMMA HeadersIInv == IInv /\ Headers => IInv'
<1> SUFFICES ASSUME IInv, Headers PROVE IInv'
  OBVIOUS
<1>a. /\ TypeOK /\ Confirmed /\ MovesWereSeen /\ Chosen
      /\ IdsStand /\ InHand /\ NewToArchive /\ Compared
      /\ VerifiedAreCopied /\ MovedAreArchived /\ Safe /\ OneCopy
  BY DEF IInv
<1>b. UNCHANGED <<folder, flagged, archive, local, journal, policy, on, confirmed,
                seen, had, discarded, shifted>>
  BY DEF Headers, server, store, choice, history, bounds, Works, Fault, Event
<1>c. events' \in Nat /\ saves' \in Nat /\ faults' \in Nat
  BY <1>a DEF TypeOK, Headers, bounds, Works, Fault, Event
<1> DEFINE chosen == Selected(run.policy, run.todo)
<1>d. chosen \in SUBSET Uids /\ [u \in chosen |-> Id(folder[u])] \in IdMaps
  <2>1. chosen \in SUBSET Uids
    BY <1>a DEF TypeOK, Runs, Selected
  <2> QED
    BY <1>a, <2>1, IdMapMade
<1> HIDE DEF chosen
<1>1. ASSUME run.pc = "headers", run.policy.dest = "local",
             run' = [run EXCEPT !.pc = "fetch", !.todo = chosen, !.ids = [u \in chosen |-> Id(folder[u])]]
      PROVE  IInv'
  <2>1. /\ run'.pc = "fetch"
        /\ run'.policy = run.policy
        /\ run'.todo = chosen
        /\ run'.ids = [u \in chosen |-> Id(folder[u])]
        /\ run'.verified = run.verified /\ run'.uid = run.uid /\ run'.raw = run.raw /\ run'.at = run.at
        /\ run' \in Runs /\ run # Idle
    <3>1. /\ run'.pc = "fetch"
          /\ run'.policy = run.policy
          /\ run'.todo = chosen
          /\ run'.ids = [u \in chosen |-> Id(folder[u])]
          /\ run'.verified = run.verified /\ run'.uid = run.uid /\ run'.raw = run.raw /\ run'.at = run.at
      BY <1>a, <1>1 DEF TypeOK, Runs
    <3>2. run' \in Runs
      BY <1>a, <1>1, <1>d DEF TypeOK, Runs
    <3> QED
      BY <3>1, <3>2, <1>1, IdleFacts
  <2>2. TypeOK'
    BY <1>a, <1>b, <1>c, <1>1, <2>1 DEF TypeOK
  <2>3. Confirmed' /\ MovesWereSeen'
    BY <1>a, <1>b, <1>1, <2>1 DEF Confirmed, MovesWereSeen
  <2>4. InHand' /\ NewToArchive' /\ Compared' /\ MovedAreArchived'
    BY <2>1 DEF InHand, Handling, NewToArchive, Compared, MovedAreArchived
  <2>5. Chosen'
    BY <1>a, <1>b, <1>1, <2>1 DEF Chosen, Fetching, Handling, TypeOK, Runs
  <2>6. IdsStand'
    BY <1>a, <1>b, <1>1, <2>1 DEF IdsStand, Fetching, Handling, Id, Chosen
  <2>7. VerifiedAreCopied'
    BY <1>a, <1>b, <1>1, <2>1 DEF VerifiedAreCopied, Fetching, Handling, Copied, Settled, Chosen
  <2>8. Safe'
    BY <1>a, <1>b, <1>1, <2>1 DEF Safe, Copied, Settled
  <2>9. OneCopy'
    BY <1>a, <1>b, <1>1, <2>1 DEF OneCopy
  <2> QED
    BY <2>2, <2>3, <2>4, <2>5, <2>6, <2>7, <2>8, <2>9 DEF IInv
<1>2. ASSUME run.pc = "headers", run.policy.dest # "local",
             run' = [run EXCEPT !.pc = "move", !.todo = chosen, !.ids = [u \in chosen |-> Id(folder[u])]]
      PROVE  IInv'
  <2>1. /\ run'.pc = "move"
        /\ run'.policy = run.policy
        /\ run'.todo = chosen
        /\ run'.ids = [u \in chosen |-> Id(folder[u])]
        /\ run'.verified = run.verified /\ run'.uid = run.uid /\ run'.raw = run.raw /\ run'.at = run.at
        /\ run' \in Runs /\ run # Idle
    <3>1. /\ run'.pc = "move"
          /\ run'.policy = run.policy
          /\ run'.todo = chosen
          /\ run'.ids = [u \in chosen |-> Id(folder[u])]
          /\ run'.verified = run.verified /\ run'.uid = run.uid /\ run'.raw = run.raw /\ run'.at = run.at
      BY <1>a, <1>2 DEF TypeOK, Runs
    <3>2. run' \in Runs
      BY <1>a, <1>2, <1>d DEF TypeOK, Runs
    <3> QED
      BY <3>1, <3>2, <1>2, IdleFacts
  <2>2. TypeOK'
    BY <1>a, <1>b, <1>c, <1>2, <2>1 DEF TypeOK
  <2>3. Confirmed' /\ MovesWereSeen'
    BY <1>a, <1>b, <1>2, <2>1 DEF Confirmed, MovesWereSeen
  <2>4. IdsStand' /\ InHand' /\ NewToArchive' /\ Compared'
          /\ VerifiedAreCopied' /\ MovedAreArchived'
    BY <2>1 DEF IdsStand, Fetching, Handling, InHand, NewToArchive, Compared, VerifiedAreCopied,
       MovedAreArchived
  <2>5. Chosen'
    BY <1>a, <1>b, <1>2, <2>1 DEF Chosen, Fetching, Handling, TypeOK, Runs
  <2>6. Safe'
    BY <1>a, <1>b, <1>2, <2>1 DEF Safe, Copied, Settled
  <2>7. OneCopy'
    BY <1>a, <1>b, <1>2, <2>1 DEF OneCopy
  <2> QED
    BY <2>2, <2>3, <2>4, <2>5, <2>6, <2>7 DEF IInv
<1>3. ASSUME run' = Idle
      PROVE  IInv'
  BY <1>a, <1>b, <1>c, <1>3, RunEnds DEF TypeOK, Handling
<1> QED
  BY <1>1, <1>2, <1>3 DEF Headers, chosen

\* A message's bytes are read, or it is gone.
LEMMA FetchIInv == IInv /\ Fetch => IInv'
<1> SUFFICES ASSUME IInv, Fetch PROVE IInv'
  OBVIOUS
<1>a. /\ TypeOK /\ Confirmed /\ MovesWereSeen /\ Chosen
      /\ IdsStand /\ InHand /\ NewToArchive /\ Compared
      /\ VerifiedAreCopied /\ MovedAreArchived /\ Safe /\ OneCopy
  BY DEF IInv
<1>b. UNCHANGED <<folder, flagged, archive, local, policy, on, confirmed, seen, had, discarded, shifted>>
  BY DEF Fetch, server, store, choice, history, bounds, Works, Fault, Event
<1>c. events' \in Nat /\ saves' \in Nat /\ faults' \in Nat
  BY <1>a DEF TypeOK, Fetch, bounds, Works, Fault, Event
<1> DEFINE u == Min(run.todo)
<1>d. u \in run.todo /\ u \in Uids
  <2>1. run.todo \subseteq Uids /\ run.todo \subseteq Nat /\ run.todo # {}
    BY <1>a, ArchiveAssumption DEF TypeOK, Runs, Fetch
  <2> QED
    BY <2>1, MinIsIn
<1> HIDE DEF u
<1>1. ASSUME run.pc = "fetch", folder[u] # None,
             run' = [[run EXCEPT !.todo = @ \ {u}] EXCEPT !.pc = "look", !.uid = u, !.raw = folder[u]],
             journal' = journal
      PROVE  IInv'
  <2>1. /\ run'.pc = "look" /\ run'.policy = run.policy /\ run'.todo = run.todo \ {u} /\ run'.ids = run.ids
        /\ run'.verified = run.verified /\ run'.uid = u /\ run'.raw = folder[u] /\ run'.at = run.at
        /\ run' \in Runs /\ run # Idle
    <3>1. /\ run'.pc = "look" /\ run'.policy = run.policy /\ run'.todo = run.todo \ {u} /\ run'.ids = run.ids
          /\ run'.verified = run.verified /\ run'.uid = u /\ run'.raw = folder[u] /\ run'.at = run.at
      BY <1>a, <1>1 DEF TypeOK, Runs
    <3>2. run' \in Runs
      BY <1>a, <1>1, <1>d DEF TypeOK, Runs
    <3> QED
      BY <3>1, <3>2, <1>1, IdleFacts
  <2>2. u \in Uids /\ u \in DOMAIN run.ids /\ folder[u] \in Messages
    BY <1>a, <1>d, <1>1 DEF Chosen, Fetching, TypeOK
  <2>3. TypeOK'
    BY <1>a, <1>b, <1>c, <1>1, <2>1, <2>2 DEF TypeOK
  <2>4. Confirmed' /\ MovesWereSeen'
    BY <1>a, <1>b, <1>1, <2>1, <2>2 DEF Confirmed, MovesWereSeen
  <2>5. NewToArchive' /\ Compared' /\ MovedAreArchived'
    BY <2>1 DEF NewToArchive, Compared, MovedAreArchived
  <2>6. Chosen'
    BY <1>a, <1>b, <1>1, <2>1, <2>2 DEF Chosen, Fetching, Handling, TypeOK, Runs
  <2>7. IdsStand'
    BY <1>a, <1>b, <1>1, <2>1, <2>2 DEF IdsStand, Fetching, Handling, Id, Chosen
  <2>8. InHand'
    BY <1>a, <1>b, <1>1, <2>1, <2>2 DEF InHand, Handling, Id, Chosen, IdsStand, Fetching
  <2>9. VerifiedAreCopied'
    BY <1>a, <1>b, <1>1, <2>1, <2>2 DEF VerifiedAreCopied, Fetching, Handling, Copied, Settled
  <2>10. Safe'
    BY <1>a, <1>b, <1>1, <2>1, <2>2 DEF Safe, Copied, Settled
  <2>11. OneCopy'
    BY <1>a, <1>b, <1>1, <2>1, <2>2 DEF OneCopy
  <2> QED
    BY <2>3, <2>4, <2>5, <2>6, <2>7, <2>8, <2>9, <2>10, <2>11 DEF IInv
<1>2. ASSUME run.pc = "fetch", run' = [run EXCEPT !.todo = @ \ {u}],
             journal' = Cleared({u}) \/ journal' = journal
      PROVE  IInv'
  <2>1. /\ run'.pc = "fetch" /\ run'.policy = run.policy /\ run'.todo = run.todo \ {u} /\ run'.ids = run.ids
        /\ run'.verified = run.verified /\ run'.uid = run.uid /\ run'.raw = run.raw /\ run'.at = run.at
        /\ run' \in Runs /\ run # Idle
    <3>1. /\ run'.pc = "fetch" /\ run'.policy = run.policy /\ run'.todo = run.todo \ {u} /\ run'.ids = run.ids
          /\ run'.verified = run.verified /\ run'.uid = run.uid /\ run'.raw = run.raw /\ run'.at = run.at
      BY <1>a, <1>2 DEF TypeOK, Runs
    <3>2. run' \in Runs
      BY <1>a, <1>2 DEF TypeOK, Runs
    <3> QED
      BY <3>1, <3>2, <1>2, IdleFacts
  <2>2. journal' \in [Uids -> Rows]
    BY <1>a, <1>b, <1>2 DEF TypeOK, Cleared, Rows
  <2>3. TypeOK'
    BY <1>a, <1>b, <1>c, <1>2, <2>1, <2>2 DEF TypeOK
  <2>4. Confirmed' /\ MovesWereSeen'
    BY <1>a, <1>b, <1>2, <2>1, <2>2 DEF Confirmed, MovesWereSeen
  <2>5. InHand' /\ NewToArchive' /\ Compared' /\ MovedAreArchived'
    BY <2>1 DEF InHand, Handling, NewToArchive, Compared, MovedAreArchived
  <2>6. Chosen'
    BY <1>a, <1>b, <1>2, <2>1, <2>2 DEF Chosen, Fetching, Handling, TypeOK, Runs
  <2>7. IdsStand'
    BY <1>a, <1>b, <1>2, <2>1, <2>2 DEF IdsStand, Fetching, Handling, Id, Chosen
  <2>8. VerifiedAreCopied'
    BY <1>a, <1>b, <1>2, <2>1, <2>2 DEF VerifiedAreCopied, Fetching, Handling, Copied, Settled
  <2>9. Safe'
    BY <1>a, <1>b, <1>2, <2>1, <2>2 DEF Safe, Copied, Settled
  <2>10. OneCopy'
    BY <1>a, <1>b, <1>2, <2>1, <2>2 DEF OneCopy
  <2> QED
    BY <2>3, <2>4, <2>5, <2>6, <2>7, <2>8, <2>9, <2>10 DEF IInv
<1> QED
  BY <1>1, <1>2 DEF Fetch, u

\* A copy of the same bytes is looked for (the journal's, else by Message-ID).
LEMMA LookIInv == IInv /\ Look => IInv'
<1> SUFFICES ASSUME IInv, Look PROVE IInv'
  OBVIOUS
<1>a. /\ TypeOK /\ Confirmed /\ MovesWereSeen /\ Chosen
      /\ IdsStand /\ InHand /\ NewToArchive /\ Compared
      /\ VerifiedAreCopied /\ MovedAreArchived /\ Safe /\ OneCopy
  BY DEF IInv
<1>b. UNCHANGED <<folder, flagged, archive, local, journal, policy, on, confirmed,
                seen, had, discarded, shifted>>
  BY DEF Look, server, store, choice, history, bounds, Works, Fault, Event
<1>c. events' \in Nat /\ saves' \in Nat /\ faults' \in Nat
  BY <1>a DEF TypeOK, Look, bounds, Works, Fault, Event
<1> DEFINE copies == Existing(run.uid, run.ids[run.uid], run.raw)
<1>d. copies \subseteq LocalUids /\ (copies # {} => Min(copies) \in copies)
  <2>1. copies \subseteq LocalUids /\ copies \subseteq Nat
    BY DEF Existing, LocalUids
  <2> QED
    BY <2>1, MinIsIn
<1> HIDE DEF copies
<1>1. ASSUME run.pc = "look", copies = {}, run' = [run EXCEPT !.pc = "store"]
      PROVE  IInv'
  <2>1. /\ run'.pc = "store" /\ run'.policy = run.policy /\ run'.todo = run.todo /\ run'.ids = run.ids
        /\ run'.verified = run.verified /\ run'.uid = run.uid /\ run'.raw = run.raw /\ run'.at = run.at
        /\ run' \in Runs /\ run # Idle
    <3>1. /\ run'.pc = "store" /\ run'.policy = run.policy /\ run'.todo = run.todo /\ run'.ids = run.ids
          /\ run'.verified = run.verified /\ run'.uid = run.uid /\ run'.raw = run.raw /\ run'.at = run.at
      BY <1>a, <1>1 DEF TypeOK, Runs
    <3>2. run' \in Runs
      BY <1>a, <1>1 DEF TypeOK, Runs
    <3> QED
      BY <3>1, <3>2, <1>1, IdleFacts
  <2>2. ~shifted /\ run.raw \in HasId => \A l \in LocalUids : local[l] # run.raw
    BY <1>a, <1>1, ArchiveAssumption DEF copies, Existing, InHand, Handling, Id
  <2>3. TypeOK'
    BY <1>a, <1>b, <1>c, <1>1, <2>1, <2>2 DEF TypeOK
  <2>4. Confirmed' /\ MovesWereSeen'
    BY <1>a, <1>b, <1>1, <2>1, <2>2 DEF Confirmed, MovesWereSeen
  <2>5. Compared' /\ MovedAreArchived'
    BY <2>1 DEF Compared, MovedAreArchived
  <2>6. Chosen'
    BY <1>a, <1>b, <1>1, <2>1, <2>2 DEF Chosen, Fetching, Handling, TypeOK, Runs
  <2>7. IdsStand'
    BY <1>a, <1>b, <1>1, <2>1, <2>2 DEF IdsStand, Fetching, Handling, Id, Chosen
  <2>8. InHand'
    BY <1>a, <1>b, <1>1, <2>1, <2>2 DEF InHand, Handling, Id, Chosen
  <2>9. NewToArchive'
    BY <1>a, <1>b, <1>1, <2>1, <2>2 DEF NewToArchive, Handling
  <2>10. VerifiedAreCopied'
    BY <1>a, <1>b, <1>1, <2>1, <2>2 DEF VerifiedAreCopied, Fetching, Handling, Copied, Settled
  <2>11. Safe'
    BY <1>a, <1>b, <1>1, <2>1, <2>2 DEF Safe, Copied, Settled
  <2>12. OneCopy'
    BY <1>a, <1>b, <1>1, <2>1, <2>2 DEF OneCopy
  <2> QED
    BY <2>3, <2>4, <2>5, <2>6, <2>7, <2>8, <2>9, <2>10, <2>11, <2>12 DEF IInv
<1>2. ASSUME run.pc = "look", NEW c \in copies, run' = [run EXCEPT !.pc = "verify", !.at = c]
      PROVE  IInv'
  <2>1. /\ run'.pc = "verify" /\ run'.policy = run.policy /\ run'.todo = run.todo /\ run'.ids = run.ids
        /\ run'.verified = run.verified /\ run'.uid = run.uid /\ run'.raw = run.raw /\ run'.at = c
        /\ run' \in Runs /\ run # Idle
    <3>1. /\ run'.pc = "verify" /\ run'.policy = run.policy /\ run'.todo = run.todo /\ run'.ids = run.ids
          /\ run'.verified = run.verified /\ run'.uid = run.uid /\ run'.raw = run.raw /\ run'.at = c
      BY <1>a, <1>2 DEF TypeOK, Runs
    <3>2. run' \in Runs
      BY <1>a, <1>2, <1>d DEF TypeOK, Runs
    <3> QED
      BY <3>1, <3>2, <1>2, IdleFacts
  <2>2. c \in LocalUids /\ local[c] = run.raw
    BY <1>d DEF copies, Existing
  <2>3. TypeOK'
    BY <1>a, <1>b, <1>c, <1>2, <2>1, <2>2 DEF TypeOK
  <2>4. Confirmed' /\ MovesWereSeen'
    BY <1>a, <1>b, <1>2, <2>1, <2>2 DEF Confirmed, MovesWereSeen
  <2>5. NewToArchive' /\ MovedAreArchived'
    BY <2>1 DEF NewToArchive, MovedAreArchived
  <2>6. Chosen'
    BY <1>a, <1>b, <1>2, <2>1, <2>2 DEF Chosen, Fetching, Handling, TypeOK, Runs
  <2>7. IdsStand'
    BY <1>a, <1>b, <1>2, <2>1, <2>2 DEF IdsStand, Fetching, Handling, Id, Chosen
  <2>8. InHand'
    BY <1>a, <1>b, <1>2, <2>1, <2>2 DEF InHand, Handling, Id, Chosen
  <2>9. Compared'
    BY <1>a, <1>b, <1>2, <2>1, <2>2 DEF Compared
  <2>10. VerifiedAreCopied'
    BY <1>a, <1>b, <1>2, <2>1, <2>2 DEF VerifiedAreCopied, Fetching, Handling, Copied, Settled
  <2>11. Safe'
    BY <1>a, <1>b, <1>2, <2>1, <2>2 DEF Safe, Copied, Settled
  <2>12. OneCopy'
    BY <1>a, <1>b, <1>2, <2>1, <2>2 DEF OneCopy
  <2> QED
    BY <2>3, <2>4, <2>5, <2>6, <2>7, <2>8, <2>9, <2>10, <2>11, <2>12 DEF IInv
<1>3. ASSUME run.pc = "look", run' = NextOne(run)
      PROVE  IInv'
  BY <1>a, <1>b, <1>c, <1>3, NextMessage DEF TypeOK, Handling
<1>4. CASE copies # {} /\ run' # NextOne(run)
  <2>1. \E c \in copies : run' = [run EXCEPT !.pc = "verify", !.at = c]
    BY <1>4, <1>d DEF Look, copies
  <2> QED
    BY <2>1, <1>2 DEF Look
<1> QED
  BY <1>1, <1>3, <1>4 DEF Look, copies

\* A copy is made, whole or damaged (store_message).
LEMMA StoreIInv == IInv /\ Store => IInv'
<1> SUFFICES ASSUME IInv, Store PROVE IInv'
  OBVIOUS
<1>a. /\ TypeOK /\ Confirmed /\ MovesWereSeen /\ Chosen
      /\ IdsStand /\ InHand /\ NewToArchive /\ Compared
      /\ VerifiedAreCopied /\ MovedAreArchived /\ Safe /\ OneCopy
  BY DEF IInv
<1>b. UNCHANGED <<folder, flagged, archive, journal, policy, on, confirmed, seen, had, discarded, shifted>>
  BY DEF Store, server, store, choice, history, bounds, Works, Fault, Event
<1>c. events' \in Nat /\ saves' \in Nat /\ faults' \in Nat
  BY <1>a DEF TypeOK, Store, bounds, Works, Fault, Event
<1>1. ASSUME run.pc = "store", next_uid \in LocalUids, local' = [local EXCEPT ![next_uid] = run.raw],
             run' = [run EXCEPT !.pc = "note", !.at = next_uid]
      PROVE  IInv'
  <2>1. /\ run'.pc = "note" /\ run'.policy = run.policy /\ run'.todo = run.todo /\ run'.ids = run.ids
        /\ run'.verified = run.verified /\ run'.uid = run.uid /\ run'.raw = run.raw /\ run'.at = next_uid
        /\ run' \in Runs /\ run # Idle
    <3>1. /\ run'.pc = "note" /\ run'.policy = run.policy /\ run'.todo = run.todo /\ run'.ids = run.ids
          /\ run'.verified = run.verified /\ run'.uid = run.uid /\ run'.raw = run.raw /\ run'.at = next_uid
      BY <1>a, <1>1 DEF TypeOK, Runs
    <3>2. run' \in Runs
      BY <1>a, <1>1 DEF TypeOK, Runs
    <3> QED
      BY <3>1, <3>2, <1>1, IdleFacts
  <2>2. local[next_uid] = None
    BY <1>a, <1>1, NextUidIsFree
  <2>3. /\ local' \in [LocalUids -> Messages \cup {None, Damaged}]
        /\ \A l \in LocalUids : local'[l] = IF l = next_uid THEN run.raw ELSE local[l]
    BY <1>a, <1>1 DEF TypeOK, Chosen, Handling
  <2>4. /\ run.raw \in Messages /\ None \notin Messages /\ Damaged \notin Messages
        /\ HasId \subseteq Messages /\ had \subseteq Messages /\ run.verified \subseteq Uids
        /\ folder \in [Uids -> Messages \cup {None}]
    BY <1>a, <1>1, ArchiveAssumption DEF TypeOK, Chosen, Handling, Runs
  <2>5. TypeOK'
    BY <1>a, <1>b, <1>c, <1>1, <2>1, <2>2, <2>3, <2>4 DEF TypeOK
  <2>6. Confirmed' /\ MovesWereSeen'
    BY <1>a, <1>b, <1>1, <2>1, <2>2, <2>3, <2>4 DEF Confirmed, MovesWereSeen
  <2>7. NewToArchive' /\ Compared' /\ MovedAreArchived'
    BY <2>1 DEF NewToArchive, Compared, MovedAreArchived
  <2>8. Chosen'
    BY <1>a, <1>b, <1>1, <2>1, <2>2, <2>3, <2>4 DEF Chosen, Fetching, Handling, TypeOK, Runs
  <2>9. IdsStand'
    BY <1>a, <1>b, <1>1, <2>1, <2>2, <2>3, <2>4 DEF IdsStand, Fetching, Handling, Id, Chosen
  <2>10. InHand'
    BY <1>a, <1>b, <1>1, <2>1, <2>2, <2>3, <2>4 DEF InHand, Handling, Id, Chosen
  <2>11. VerifiedAreCopied'
    BY <1>a, <1>b, <1>1, <2>1, <2>2, <2>3, <2>4 DEF VerifiedAreCopied, Fetching, Handling, Copied,
       Settled
  <2>12. Safe'
    BY <1>a, <1>b, <1>1, <2>1, <2>2, <2>3, <2>4 DEF Safe, Copied, Settled
  <2>13. OneCopy'
    BY <1>a, <1>b, <1>1, <2>1, <2>2, <2>3, <2>4 DEF OneCopy, NewToArchive
  <2> QED
    BY <2>5, <2>6, <2>7, <2>8, <2>9, <2>10, <2>11, <2>12, <2>13 DEF IInv
<1>2. ASSUME run.pc = "store", next_uid \in LocalUids, local' = [local EXCEPT ![next_uid] = Damaged],
             run' = [run EXCEPT !.pc = "note", !.at = next_uid]
      PROVE  IInv'
  <2>1. /\ run'.pc = "note" /\ run'.policy = run.policy /\ run'.todo = run.todo /\ run'.ids = run.ids
        /\ run'.verified = run.verified /\ run'.uid = run.uid /\ run'.raw = run.raw /\ run'.at = next_uid
        /\ run' \in Runs /\ run # Idle
    <3>1. /\ run'.pc = "note" /\ run'.policy = run.policy /\ run'.todo = run.todo /\ run'.ids = run.ids
          /\ run'.verified = run.verified /\ run'.uid = run.uid /\ run'.raw = run.raw /\ run'.at = next_uid
      BY <1>a, <1>2 DEF TypeOK, Runs
    <3>2. run' \in Runs
      BY <1>a, <1>2 DEF TypeOK, Runs
    <3> QED
      BY <3>1, <3>2, <1>2, IdleFacts
  <2>2. local[next_uid] = None
    BY <1>a, <1>2, NextUidIsFree
  <2>3. /\ local' \in [LocalUids -> Messages \cup {None, Damaged}]
        /\ \A l \in LocalUids : local'[l] = IF l = next_uid THEN Damaged ELSE local[l]
    BY <1>a, <1>2 DEF TypeOK, Chosen, Handling
  <2>4. /\ run.raw \in Messages /\ None \notin Messages /\ Damaged \notin Messages
        /\ HasId \subseteq Messages /\ had \subseteq Messages /\ run.verified \subseteq Uids
        /\ folder \in [Uids -> Messages \cup {None}]
    BY <1>a, <1>2, ArchiveAssumption DEF TypeOK, Chosen, Handling, Runs
  <2>5. TypeOK'
    BY <1>a, <1>b, <1>c, <1>2, <2>1, <2>2, <2>3, <2>4 DEF TypeOK
  <2>6. Confirmed' /\ MovesWereSeen'
    BY <1>a, <1>b, <1>2, <2>1, <2>2, <2>3, <2>4 DEF Confirmed, MovesWereSeen
  <2>7. NewToArchive' /\ Compared' /\ MovedAreArchived'
    BY <2>1 DEF NewToArchive, Compared, MovedAreArchived
  <2>8. Chosen'
    BY <1>a, <1>b, <1>2, <2>1, <2>2, <2>3, <2>4 DEF Chosen, Fetching, Handling, TypeOK, Runs
  <2>9. IdsStand'
    BY <1>a, <1>b, <1>2, <2>1, <2>2, <2>3, <2>4 DEF IdsStand, Fetching, Handling, Id, Chosen
  <2>10. InHand'
    BY <1>a, <1>b, <1>2, <2>1, <2>2, <2>3, <2>4 DEF InHand, Handling, Id, Chosen
  <2>11. VerifiedAreCopied'
    BY <1>a, <1>b, <1>2, <2>1, <2>2, <2>3, <2>4 DEF VerifiedAreCopied, Fetching, Handling, Copied,
       Settled
  <2>12. Safe'
    BY <1>a, <1>b, <1>2, <2>1, <2>2, <2>3, <2>4 DEF Safe, Copied, Settled
  <2>13. OneCopy'
    BY <1>a, <1>b, <1>2, <2>1, <2>2, <2>3, <2>4 DEF OneCopy
  <2> QED
    BY <2>5, <2>6, <2>7, <2>8, <2>9, <2>10, <2>11, <2>12, <2>13 DEF IInv
<1>3. ASSUME run.pc = "store", run' = NextOne(run), local' = local
      PROVE  IInv'
  BY <1>a, <1>b, <1>c, <1>3, NextMessage DEF TypeOK, Handling
<1> QED
  BY <1>1, <1>2, <1>3 DEF Store

\* The journal is told of the copy.
LEMMA NoteIInv == IInv /\ Note => IInv'
<1> SUFFICES ASSUME IInv, Note PROVE IInv'
  OBVIOUS
<1>a. /\ TypeOK /\ Confirmed /\ MovesWereSeen /\ Chosen
      /\ IdsStand /\ InHand /\ NewToArchive /\ Compared
      /\ VerifiedAreCopied /\ MovedAreArchived /\ Safe /\ OneCopy
  BY DEF IInv
<1>b. UNCHANGED <<folder, flagged, archive, local, policy, on, confirmed, seen, had, discarded, shifted>>
  BY DEF Note, server, store, choice, history, bounds, Works, Fault, Event
<1>c. events' \in Nat /\ saves' \in Nat /\ faults' \in Nat
  BY <1>a DEF TypeOK, Note, bounds, Works, Fault, Event
<1>d. Row("copied") \in Rows /\ Row("verified") \in Rows
  <2>1. run.ids \in IdMaps /\ run.uid \in DOMAIN run.ids /\ run.at \in LocalUids
    BY <1>a DEF TypeOK, Runs, Chosen, Handling, Note
  <2>2. run.ids[run.uid] \in Messages \cup {None}
    BY <2>1, IdMapFacts
  <2> QED
    BY <2>1, <2>2 DEF Row, Rows
<1>1. ASSUME run.pc = "note", journal' = [journal EXCEPT ![run.uid] = Row("copied")],
             run' = [run EXCEPT !.pc = "check"]
      PROVE  IInv'
  <2>1. /\ run'.pc = "check" /\ run'.policy = run.policy /\ run'.todo = run.todo /\ run'.ids = run.ids
        /\ run'.verified = run.verified /\ run'.uid = run.uid /\ run'.raw = run.raw /\ run'.at = run.at
        /\ run' \in Runs /\ run # Idle
    <3>1. /\ run'.pc = "check" /\ run'.policy = run.policy /\ run'.todo = run.todo /\ run'.ids = run.ids
          /\ run'.verified = run.verified /\ run'.uid = run.uid /\ run'.raw = run.raw /\ run'.at = run.at
      BY <1>a, <1>1 DEF TypeOK, Runs
    <3>2. run' \in Runs
      BY <1>a, <1>1 DEF TypeOK, Runs
    <3> QED
      BY <3>1, <3>2, <1>1, IdleFacts
  <2>2. journal' \in [Uids -> Rows]
    BY <1>a, <1>d, <1>1 DEF TypeOK
  <2>3. TypeOK'
    BY <1>a, <1>b, <1>c, <1>1, <2>1, <2>2 DEF TypeOK
  <2>4. Confirmed' /\ MovesWereSeen'
    BY <1>a, <1>b, <1>1, <2>1, <2>2 DEF Confirmed, MovesWereSeen
  <2>5. NewToArchive' /\ Compared' /\ MovedAreArchived'
    BY <2>1 DEF NewToArchive, Compared, MovedAreArchived
  <2>6. Chosen'
    BY <1>a, <1>b, <1>1, <2>1, <2>2 DEF Chosen, Fetching, Handling, TypeOK, Runs
  <2>7. IdsStand'
    BY <1>a, <1>b, <1>1, <2>1, <2>2 DEF IdsStand, Fetching, Handling, Id, Chosen
  <2>8. InHand'
    BY <1>a, <1>b, <1>1, <2>1, <2>2 DEF InHand, Handling, Id, Chosen
  <2>9. VerifiedAreCopied'
    BY <1>a, <1>b, <1>1, <2>1, <2>2 DEF VerifiedAreCopied, Fetching, Handling, Copied, Settled
  <2>10. Safe'
    BY <1>a, <1>b, <1>1, <2>1, <2>2 DEF Safe, Copied, Settled
  <2>11. OneCopy'
    BY <1>a, <1>b, <1>1, <2>1, <2>2 DEF OneCopy
  <2> QED
    BY <2>3, <2>4, <2>5, <2>6, <2>7, <2>8, <2>9, <2>10, <2>11 DEF IInv
<1>2. ASSUME run.pc = "note", run' = NextOne(run), journal' = journal
      PROVE  IInv'
  BY <1>a, <1>b, <1>c, <1>2, NextMessage DEF TypeOK, Handling
<1> QED
  BY <1>1, <1>2 DEF Note

\* The copy is read back and compared.
LEMMA CheckIInv == IInv /\ Check => IInv'
<1> SUFFICES ASSUME IInv, Check PROVE IInv'
  OBVIOUS
<1>a. /\ TypeOK /\ Confirmed /\ MovesWereSeen /\ Chosen
      /\ IdsStand /\ InHand /\ NewToArchive /\ Compared
      /\ VerifiedAreCopied /\ MovedAreArchived /\ Safe /\ OneCopy
  BY DEF IInv
<1>b. UNCHANGED <<folder, flagged, archive, local, journal, policy, on, confirmed,
                seen, had, discarded, shifted>>
  BY DEF Check, server, store, choice, history, bounds, Works, Fault, Event
<1>c. events' \in Nat /\ saves' \in Nat /\ faults' \in Nat
  BY <1>a DEF TypeOK, Check, bounds, Works, Fault, Event
<1>1. ASSUME run.pc = "check", local[run.at] = run.raw, run' = [run EXCEPT !.pc = "verify"]
      PROVE  IInv'
  <2>1. /\ run'.pc = "verify" /\ run'.policy = run.policy /\ run'.todo = run.todo /\ run'.ids = run.ids
        /\ run'.verified = run.verified /\ run'.uid = run.uid /\ run'.raw = run.raw /\ run'.at = run.at
        /\ run' \in Runs /\ run # Idle
    <3>1. /\ run'.pc = "verify" /\ run'.policy = run.policy /\ run'.todo = run.todo /\ run'.ids = run.ids
          /\ run'.verified = run.verified /\ run'.uid = run.uid /\ run'.raw = run.raw /\ run'.at = run.at
      BY <1>a, <1>1 DEF TypeOK, Runs
    <3>2. run' \in Runs
      BY <1>a, <1>1 DEF TypeOK, Runs
    <3> QED
      BY <3>1, <3>2, <1>1, IdleFacts
  <2>2. TypeOK'
    BY <1>a, <1>b, <1>c, <1>1, <2>1 DEF TypeOK
  <2>3. Confirmed' /\ MovesWereSeen'
    BY <1>a, <1>b, <1>1, <2>1 DEF Confirmed, MovesWereSeen
  <2>4. NewToArchive' /\ MovedAreArchived'
    BY <2>1 DEF NewToArchive, MovedAreArchived
  <2>5. Chosen'
    BY <1>a, <1>b, <1>1, <2>1 DEF Chosen, Fetching, Handling, TypeOK, Runs
  <2>6. IdsStand'
    BY <1>a, <1>b, <1>1, <2>1 DEF IdsStand, Fetching, Handling, Id, Chosen
  <2>7. InHand'
    BY <1>a, <1>b, <1>1, <2>1 DEF InHand, Handling, Id, Chosen
  <2>8. Compared'
    BY <1>a, <1>b, <1>1, <2>1 DEF Compared
  <2>9. VerifiedAreCopied'
    BY <1>a, <1>b, <1>1, <2>1 DEF VerifiedAreCopied, Fetching, Handling, Copied, Settled
  <2>10. Safe'
    BY <1>a, <1>b, <1>1, <2>1 DEF Safe, Copied, Settled
  <2>11. OneCopy'
    BY <1>a, <1>b, <1>1, <2>1 DEF OneCopy
  <2> QED
    BY <2>2, <2>3, <2>4, <2>5, <2>6, <2>7, <2>8, <2>9, <2>10, <2>11 DEF IInv
<1>2. ASSUME run.pc = "check", run' = [run EXCEPT !.pc = "discard"]
      PROVE  IInv'
  <2>1. /\ run'.pc = "discard" /\ run'.policy = run.policy /\ run'.todo = run.todo /\ run'.ids = run.ids
        /\ run'.verified = run.verified /\ run'.uid = run.uid /\ run'.raw = run.raw /\ run'.at = run.at
        /\ run' \in Runs /\ run # Idle
    <3>1. /\ run'.pc = "discard" /\ run'.policy = run.policy /\ run'.todo = run.todo /\ run'.ids = run.ids
          /\ run'.verified = run.verified /\ run'.uid = run.uid /\ run'.raw = run.raw /\ run'.at = run.at
      BY <1>a, <1>2 DEF TypeOK, Runs
    <3>2. run' \in Runs
      BY <1>a, <1>2 DEF TypeOK, Runs
    <3> QED
      BY <3>1, <3>2, <1>2, IdleFacts
  <2>2. TypeOK'
    BY <1>a, <1>b, <1>c, <1>2, <2>1 DEF TypeOK
  <2>3. Confirmed' /\ MovesWereSeen'
    BY <1>a, <1>b, <1>2, <2>1 DEF Confirmed, MovesWereSeen
  <2>4. NewToArchive' /\ Compared' /\ MovedAreArchived'
    BY <2>1 DEF NewToArchive, Compared, MovedAreArchived
  <2>5. Chosen'
    BY <1>a, <1>b, <1>2, <2>1 DEF Chosen, Fetching, Handling, TypeOK, Runs
  <2>6. IdsStand'
    BY <1>a, <1>b, <1>2, <2>1 DEF IdsStand, Fetching, Handling, Id, Chosen
  <2>7. InHand'
    BY <1>a, <1>b, <1>2, <2>1 DEF InHand, Handling, Id, Chosen
  <2>8. VerifiedAreCopied'
    BY <1>a, <1>b, <1>2, <2>1 DEF VerifiedAreCopied, Fetching, Handling, Copied, Settled
  <2>9. Safe'
    BY <1>a, <1>b, <1>2, <2>1 DEF Safe, Copied, Settled
  <2>10. OneCopy'
    BY <1>a, <1>b, <1>2, <2>1 DEF OneCopy
  <2> QED
    BY <2>2, <2>3, <2>4, <2>5, <2>6, <2>7, <2>8, <2>9, <2>10 DEF IInv
<1> QED
  BY <1>1, <1>2 DEF Check

\* A copy that does not match goes.
LEMMA DiscardIInv == IInv /\ Discard => IInv'
<1> SUFFICES ASSUME IInv, Discard PROVE IInv'
  OBVIOUS
<1>a. /\ TypeOK /\ Confirmed /\ MovesWereSeen /\ Chosen
      /\ IdsStand /\ InHand /\ NewToArchive /\ Compared
      /\ VerifiedAreCopied /\ MovedAreArchived /\ Safe /\ OneCopy
  BY DEF IInv
<1>b. UNCHANGED <<folder, flagged, archive, journal, policy, on, confirmed, seen, had, discarded, shifted>>
  BY DEF Discard, server, store, choice, history, bounds, Works, Fault, Event
<1>c. events' \in Nat /\ saves' \in Nat /\ faults' \in Nat
  BY <1>a DEF TypeOK, Discard, bounds, Works, Fault, Event
<1>1. ASSUME run.pc = "discard", local' = [local EXCEPT ![run.at] = None] \/ local' = local,
             run' = [run EXCEPT !.pc = "clear"]
      PROVE  IInv'
  <2>1. /\ run'.pc = "clear" /\ run'.policy = run.policy /\ run'.todo = run.todo /\ run'.ids = run.ids
        /\ run'.verified = run.verified /\ run'.uid = run.uid /\ run'.raw = run.raw /\ run'.at = run.at
        /\ run' \in Runs /\ run # Idle
    <3>1. /\ run'.pc = "clear" /\ run'.policy = run.policy /\ run'.todo = run.todo /\ run'.ids = run.ids
          /\ run'.verified = run.verified /\ run'.uid = run.uid /\ run'.raw = run.raw /\ run'.at = run.at
      BY <1>a, <1>1 DEF TypeOK, Runs
    <3>2. run' \in Runs
      BY <1>a, <1>1 DEF TypeOK, Runs
    <3> QED
      BY <3>1, <3>2, <1>1, IdleFacts
  <2>2. /\ local' \in [LocalUids -> Messages \cup {None, Damaged}]
        /\ \A l \in LocalUids : local'[l] = local[l] \/ (l = run.at /\ local'[l] = None)
    BY <1>a, <1>1 DEF TypeOK
  <2>3. None \notin Messages /\ HasId \subseteq Messages
    BY ArchiveAssumption
  <2>4. TypeOK'
    BY <1>a, <1>b, <1>c, <1>1, <2>1, <2>2, <2>3 DEF TypeOK
  <2>5. Confirmed' /\ MovesWereSeen'
    BY <1>a, <1>b, <1>1, <2>1, <2>2, <2>3 DEF Confirmed, MovesWereSeen
  <2>6. NewToArchive' /\ Compared' /\ MovedAreArchived'
    BY <2>1 DEF NewToArchive, Compared, MovedAreArchived
  <2>7. Chosen'
    BY <1>a, <1>b, <1>1, <2>1, <2>2, <2>3 DEF Chosen, Fetching, Handling, TypeOK, Runs
  <2>8. IdsStand'
    BY <1>a, <1>b, <1>1, <2>1, <2>2, <2>3 DEF IdsStand, Fetching, Handling, Id, Chosen
  <2>9. InHand'
    BY <1>a, <1>b, <1>1, <2>1, <2>2, <2>3 DEF InHand, Handling, Id, Chosen
  <2>10. VerifiedAreCopied'
    BY <1>a, <1>b, <1>1, <2>1, <2>2, <2>3 DEF VerifiedAreCopied, Fetching, Handling, Copied, Settled
  <2>11. Safe'
    BY <1>a, <1>b, <1>1, <2>1, <2>2, <2>3 DEF Safe, Copied, Settled
  <2>12. OneCopy'
    BY <1>a, <1>b, <1>1, <2>1, <2>2, <2>3 DEF OneCopy
  <2> QED
    BY <2>4, <2>5, <2>6, <2>7, <2>8, <2>9, <2>10, <2>11, <2>12 DEF IInv
<1> QED
  BY <1>1 DEF Discard

\* Its row goes too.
LEMMA ClearRowIInv == IInv /\ ClearRow => IInv'
<1> SUFFICES ASSUME IInv, ClearRow PROVE IInv'
  OBVIOUS
<1>a. /\ TypeOK /\ Confirmed /\ MovesWereSeen /\ Chosen
      /\ IdsStand /\ InHand /\ NewToArchive /\ Compared
      /\ VerifiedAreCopied /\ MovedAreArchived /\ Safe /\ OneCopy
  BY DEF IInv
<1>b. UNCHANGED <<folder, flagged, archive, local, policy, on, confirmed, seen, had, discarded, shifted>>
  BY DEF ClearRow, server, store, choice, history, bounds, Works, Fault, Event
<1>c. events' \in Nat /\ saves' \in Nat /\ faults' \in Nat
  BY <1>a DEF TypeOK, ClearRow, bounds, Works, Fault, Event
<1>1. ASSUME run.pc = "clear", journal' = Cleared({run.uid}) \/ journal' = journal,
             run' = NextOne(run)
      PROVE  IInv'
  <2>1. journal' \in [Uids -> Rows]
    BY <1>a, <1>b, <1>1 DEF TypeOK, Cleared, Rows
  <2> QED
    BY <1>b, <1>c, <1>1, <2>1, NextMessage DEF Handling
<1> QED
  BY <1>1 DEF ClearRow

\* What was compared may be removed.
LEMMA VerifyIInv == IInv /\ Verify => IInv'
<1> SUFFICES ASSUME IInv, Verify PROVE IInv'
  OBVIOUS
<1>a. /\ TypeOK /\ Confirmed /\ MovesWereSeen /\ Chosen
      /\ IdsStand /\ InHand /\ NewToArchive /\ Compared
      /\ VerifiedAreCopied /\ MovedAreArchived /\ Safe /\ OneCopy
  BY DEF IInv
<1>b. UNCHANGED <<folder, flagged, archive, local, policy, on, confirmed, seen, had, discarded, shifted>>
  BY DEF Verify, server, store, choice, history, bounds, Works, Fault, Event
<1>c. events' \in Nat /\ saves' \in Nat /\ faults' \in Nat
  BY <1>a DEF TypeOK, Verify, bounds, Works, Fault, Event
<1>d. Row("copied") \in Rows /\ Row("verified") \in Rows
  <2>1. run.ids \in IdMaps /\ run.uid \in DOMAIN run.ids /\ run.at \in LocalUids
    BY <1>a DEF TypeOK, Runs, Chosen, Handling, Verify
  <2>2. run.ids[run.uid] \in Messages \cup {None}
    BY <2>1, IdMapFacts
  <2> QED
    BY <2>1, <2>2 DEF Row, Rows
<1>1. ASSUME run.pc = "verify", journal' = [journal EXCEPT ![run.uid] = Row("verified")],
             run' = NextOne([run EXCEPT !.verified = @ \cup {run.uid}])
      PROVE  IInv'
  <2>1. /\ run'.pc = "fetch"
        /\ run'.policy = run.policy
        /\ run'.todo = run.todo
        /\ run'.ids = run.ids
        /\ run'.verified = run.verified \cup {run.uid} /\ run'.uid = 0 /\ run'.raw = None /\ run'.at = 0
        /\ run' \in Runs /\ run # Idle
    <3>1. /\ run'.pc = "fetch"
          /\ run'.policy = run.policy
          /\ run'.todo = run.todo
          /\ run'.ids = run.ids
          /\ run'.verified = run.verified \cup {run.uid} /\ run'.uid = 0 /\ run'.raw = None /\ run'.at = 0
      BY <1>a, <1>1 DEF TypeOK, Runs, NextOne, Chosen, Handling
    <3>2. run' \in Runs
      BY <1>a, <1>1 DEF TypeOK, Runs, NextOne, Chosen, Handling
    <3> QED
      BY <3>1, <3>2, <1>1, IdleFacts
  <2>2. journal' \in [Uids -> Rows]
    BY <1>a, <1>d, <1>1 DEF TypeOK
  <2>3. TypeOK'
    BY <1>a, <1>b, <1>c, <1>1, <2>1, <2>2 DEF TypeOK
  <2>4. Confirmed' /\ MovesWereSeen'
    BY <1>a, <1>b, <1>1, <2>1, <2>2 DEF Confirmed, MovesWereSeen
  <2>5. InHand' /\ NewToArchive' /\ Compared' /\ MovedAreArchived'
    BY <2>1 DEF InHand, Handling, NewToArchive, Compared, MovedAreArchived
  <2>6. Chosen'
    BY <1>a, <1>b, <1>1, <2>1, <2>2 DEF Chosen, Fetching, Handling, TypeOK, Runs
  <2>7. IdsStand'
    BY <1>a, <1>b, <1>1, <2>1, <2>2 DEF IdsStand, Fetching, Handling, Id, Chosen
  <2>8. VerifiedAreCopied'
    BY <1>a, <1>b, <1>1, <2>1, <2>2 DEF VerifiedAreCopied, Fetching, Handling, Copied, Settled, InHand,
       Compared, Chosen
  <2>9. Safe'
    BY <1>a, <1>b, <1>1, <2>1, <2>2 DEF Safe, Copied, Settled
  <2>10. OneCopy'
    BY <1>a, <1>b, <1>1, <2>1, <2>2 DEF OneCopy
  <2> QED
    BY <2>3, <2>4, <2>5, <2>6, <2>7, <2>8, <2>9, <2>10 DEF IInv
<1>2. ASSUME run.pc = "verify", run' = NextOne(run), journal' = journal
      PROVE  IInv'
  BY <1>a, <1>b, <1>c, <1>2, NextMessage DEF TypeOK, Handling
<1> QED
  BY <1>1, <1>2 DEF Verify

\* Every message was looked at.
LEMMA ChunkEndIInv == IInv /\ ChunkEnd => IInv'
<1> SUFFICES ASSUME IInv, ChunkEnd PROVE IInv'
  OBVIOUS
<1>a. /\ TypeOK /\ Confirmed /\ MovesWereSeen /\ Chosen
      /\ IdsStand /\ InHand /\ NewToArchive /\ Compared
      /\ VerifiedAreCopied /\ MovedAreArchived /\ Safe /\ OneCopy
  BY DEF IInv
<1>b. UNCHANGED <<folder, flagged, archive, local, policy, on, confirmed, seen, had, discarded, shifted>>
  BY DEF ChunkEnd, server, store, choice, history, bounds, Works, Fault, Event
<1>c. events' \in Nat /\ saves' \in Nat /\ faults' \in Nat
  BY <1>a DEF TypeOK, ChunkEnd, bounds, Works, Fault, Event
<1>1. ASSUME run.pc = "fetch", run' = [run EXCEPT !.pc = "delete"], journal' = journal
      PROVE  IInv'
  <2>1. /\ run'.pc = "delete" /\ run'.policy = run.policy /\ run'.todo = run.todo /\ run'.ids = run.ids
        /\ run'.verified = run.verified /\ run'.uid = run.uid /\ run'.raw = run.raw /\ run'.at = run.at
        /\ run' \in Runs /\ run # Idle
    <3>1. /\ run'.pc = "delete" /\ run'.policy = run.policy /\ run'.todo = run.todo /\ run'.ids = run.ids
          /\ run'.verified = run.verified /\ run'.uid = run.uid /\ run'.raw = run.raw /\ run'.at = run.at
      BY <1>a, <1>1 DEF TypeOK, Runs
    <3>2. run' \in Runs
      BY <1>a, <1>1 DEF TypeOK, Runs
    <3> QED
      BY <3>1, <3>2, <1>1, IdleFacts
  <2>2. TypeOK'
    BY <1>a, <1>b, <1>c, <1>1, <2>1 DEF TypeOK
  <2>3. Confirmed' /\ MovesWereSeen'
    BY <1>a, <1>b, <1>1, <2>1 DEF Confirmed, MovesWereSeen
  <2>4. IdsStand' /\ InHand' /\ NewToArchive' /\ Compared' /\ MovedAreArchived'
    BY <2>1 DEF IdsStand, Fetching, Handling, InHand, NewToArchive, Compared, MovedAreArchived
  <2>5. Chosen'
    BY <1>a, <1>b, <1>1, <2>1 DEF Chosen, Fetching, Handling, TypeOK, Runs
  <2>6. VerifiedAreCopied'
    BY <1>a, <1>b, <1>1, <2>1 DEF VerifiedAreCopied, Fetching, Handling, Copied, Settled
  <2>7. Safe'
    BY <1>a, <1>b, <1>1, <2>1 DEF Safe, Copied, Settled
  <2>8. OneCopy'
    BY <1>a, <1>b, <1>1, <2>1 DEF OneCopy
  <2> QED
    BY <2>2, <2>3, <2>4, <2>5, <2>6, <2>7, <2>8 DEF IInv
<1>2. ASSUME run' = Idle,
             \/ journal' = journal
             \/ journal' = [u \in Uids |-> IF u \in run.verified /\ journal[u] # NoRow
                                         THEN [journal[u] EXCEPT !.stage = "kept"] ELSE journal[u]]
      PROVE  IInv'
  <2>1. \A r \in Rows : r # NoRow => [r EXCEPT !.stage = "kept"] \in Rows
    BY DEF Rows
  <2>2. journal' \in [Uids -> Rows]
    BY <1>a, <1>2, <2>1 DEF TypeOK
  <2> QED
    BY <1>b, <1>c, <1>2, <2>2, RunEnds DEF Handling
<1> QED
  BY <1>1, <1>2 DEF ChunkEnd

\* What was compared is removed from the server, or some of it (expunge_uids).
LEMMA DeleteIInv == IInv /\ Delete => IInv'
<1> SUFFICES ASSUME IInv, Delete PROVE IInv'
  OBVIOUS
<1>a. /\ TypeOK /\ Confirmed /\ MovesWereSeen /\ Chosen
      /\ IdsStand /\ InHand /\ NewToArchive /\ Compared
      /\ VerifiedAreCopied /\ MovedAreArchived /\ Safe /\ OneCopy
  BY DEF IInv
<1>b. UNCHANGED <<flagged, archive, local, journal, policy, on, confirmed, seen, had, discarded, shifted>>
  BY DEF Delete, server, store, choice, history, bounds, Works, Fault, Event
<1>c. events' \in Nat /\ saves' \in Nat /\ faults' \in Nat
  BY <1>a DEF TypeOK, Delete, bounds, Works, Fault, Event
<1>1. ASSUME run.pc = "delete", folder' = Without(run.verified), run' = [run EXCEPT !.pc = "settle"]
      PROVE  IInv'
  <2>1. /\ run'.pc = "settle" /\ run'.policy = run.policy /\ run'.todo = run.todo /\ run'.ids = run.ids
        /\ run'.verified = run.verified /\ run'.uid = run.uid /\ run'.raw = run.raw /\ run'.at = run.at
        /\ run' \in Runs /\ run # Idle
    <3>1. /\ run'.pc = "settle" /\ run'.policy = run.policy /\ run'.todo = run.todo /\ run'.ids = run.ids
          /\ run'.verified = run.verified /\ run'.uid = run.uid /\ run'.raw = run.raw /\ run'.at = run.at
      BY <1>a, <1>1 DEF TypeOK, Runs
    <3>2. run' \in Runs
      BY <1>a, <1>1 DEF TypeOK, Runs
    <3> QED
      BY <3>1, <3>2, <1>1, IdleFacts
  <2>2. /\ folder' \in [Uids -> Messages \cup {None}]
        /\ \A u \in Uids : folder'[u] = IF u \in run.verified THEN None ELSE folder[u]
    BY <1>a, <1>1 DEF TypeOK, Without
  <2>3. /\ None \notin Messages /\ had \subseteq Messages 
        /\ run.verified \subseteq Uids /\ run.todo \subseteq Uids
    BY <1>a, ArchiveAssumption DEF TypeOK, Runs
  <2>4. TypeOK'
    BY <1>a, <1>b, <1>c, <1>1, <2>1, <2>2, <2>3 DEF TypeOK
  <2>5. Confirmed' /\ MovesWereSeen'
    BY <1>a, <1>b, <1>1, <2>1, <2>2, <2>3 DEF Confirmed, MovesWereSeen
  <2>6. IdsStand' /\ InHand' /\ NewToArchive' /\ Compared'
          /\ VerifiedAreCopied' /\ MovedAreArchived'
    BY <2>1 DEF IdsStand, Fetching, Handling, InHand, NewToArchive, Compared, VerifiedAreCopied,
       MovedAreArchived
  <2>7. Chosen'
    BY <1>a, <1>b, <1>1, <2>1, <2>2, <2>3 DEF Chosen, Fetching, Handling, TypeOK, Runs
  <2>8. Safe'
    BY <1>a, <1>b, <1>1, <2>1, <2>2, <2>3 DEF Safe, Copied, Settled, VerifiedAreCopied
  <2>9. OneCopy'
    BY <1>a, <1>b, <1>1, <2>1, <2>2, <2>3 DEF OneCopy
  <2> QED
    BY <2>4, <2>5, <2>6, <2>7, <2>8, <2>9 DEF IInv
<1>2. ASSUME run.pc = "delete", NEW done \in SUBSET run.verified, folder' = Without(done), run' = Idle
      PROVE  IInv'
  <2>1. /\ run' = Idle /\ run'.pc = "idle" /\ run' \in Runs
    BY <1>2, IdleFacts
  <2>2. /\ folder' \in [Uids -> Messages \cup {None}]
        /\ \A u \in Uids : folder'[u] = IF u \in done THEN None ELSE folder[u]
    BY <1>a, <1>2 DEF TypeOK, Without
  <2>3. /\ None \notin Messages /\ had \subseteq Messages 
        /\ run.verified \subseteq Uids /\ run.todo \subseteq Uids
    BY <1>a, ArchiveAssumption DEF TypeOK, Runs
  <2>4. TypeOK'
    BY <1>a, <1>b, <1>c, <1>2, <2>1, <2>2, <2>3 DEF TypeOK
  <2>5. Confirmed' /\ MovesWereSeen'
    BY <1>a, <1>b, <1>2, <2>1, <2>2, <2>3 DEF Confirmed, MovesWereSeen
  <2>6. Chosen' /\ IdsStand' /\ InHand' /\ NewToArchive' /\ Compared'
          /\ VerifiedAreCopied' /\ MovedAreArchived'
    BY <2>1 DEF Chosen, Fetching, Handling, IdsStand, InHand, NewToArchive, Compared,
       VerifiedAreCopied, MovedAreArchived
  <2>7. Safe'
    BY <1>a, <1>b, <1>2, <2>1, <2>2, <2>3 DEF Safe, Copied, Settled, VerifiedAreCopied
  <2>8. OneCopy'
    BY <1>a, <1>b, <1>2, <2>1, <2>2, <2>3 DEF OneCopy
  <2> QED
    BY <2>4, <2>5, <2>6, <2>7, <2>8 DEF IInv
<1> QED
  BY <1>1, <1>2 DEF Delete

\* The rows of what was removed go.
LEMMA SettleIInv == IInv /\ Settle => IInv'
<1> SUFFICES ASSUME IInv, Settle PROVE IInv'
  OBVIOUS
<1>a. /\ TypeOK /\ Confirmed /\ MovesWereSeen /\ Chosen
      /\ IdsStand /\ InHand /\ NewToArchive /\ Compared
      /\ VerifiedAreCopied /\ MovedAreArchived /\ Safe /\ OneCopy
  BY DEF IInv
<1>b. UNCHANGED <<folder, flagged, archive, local, policy, on, confirmed, seen, had, discarded, shifted>>
  BY DEF Settle, server, store, choice, history, bounds, Works, Fault, Event
<1>c. events' \in Nat /\ saves' \in Nat /\ faults' \in Nat
  BY <1>a DEF TypeOK, Settle, bounds, Works, Fault, Event
<1>1. ASSUME run.pc = "settle", journal' = Cleared(run.verified) \/ journal' = journal, run' = Idle
      PROVE  IInv'
  <2>1. journal' \in [Uids -> Rows]
    BY <1>a, <1>b, <1>1 DEF TypeOK, Cleared, Rows
  <2> QED
    BY <1>b, <1>c, <1>1, <2>1, RunEnds DEF Handling
<1> QED
  BY <1>1 DEF Settle

\* The old messages are moved, or copied to be removed (UID MOVE, or COPY).
LEMMA MoveIInv == IInv /\ Move => IInv'
<1> SUFFICES ASSUME IInv, Move PROVE IInv'
  OBVIOUS
<1>a. /\ TypeOK /\ Confirmed /\ MovesWereSeen /\ Chosen
      /\ IdsStand /\ InHand /\ NewToArchive /\ Compared
      /\ VerifiedAreCopied /\ MovedAreArchived /\ Safe /\ OneCopy
  BY DEF IInv
<1>b. UNCHANGED <<flagged, local, journal, policy, on, confirmed, seen, had, discarded, shifted>>
  BY DEF Move, server, store, choice, history, bounds, Works, Fault, Event
<1>c. events' \in Nat /\ saves' \in Nat /\ faults' \in Nat
  BY <1>a DEF TypeOK, Move, bounds, Works, Fault, Event
<1>1. ASSUME run.pc = "move", archive' = archive \cup InFolder(run.todo), folder' = Without(run.todo),
             run' = Idle
      PROVE  IInv'
  <2>1. /\ run' = Idle /\ run'.pc = "idle" /\ run' \in Runs
    BY <1>1, IdleFacts
  <2>2. /\ folder' \in [Uids -> Messages \cup {None}]
        /\ \A u \in Uids : folder'[u] = IF u \in run.todo THEN None ELSE folder[u]
    BY <1>a, <1>1 DEF TypeOK, Without
  <2>3. /\ archive' \subseteq Messages /\ archive \subseteq archive'
        /\ \A u \in run.todo : folder[u] = None \/ folder[u] \in archive'
    BY <1>a, <1>1 DEF TypeOK, InFolder, Runs
  <2>4. /\ None \notin Messages /\ had \subseteq Messages 
        /\ run.verified \subseteq Uids /\ run.todo \subseteq Uids
    BY <1>a, ArchiveAssumption DEF TypeOK, Runs
  <2>5. TypeOK'
    BY <1>a, <1>b, <1>c, <1>1, <2>1, <2>2, <2>3, <2>4 DEF TypeOK
  <2>6. Confirmed' /\ MovesWereSeen'
    BY <1>a, <1>b, <1>1, <2>1, <2>2, <2>3, <2>4 DEF Confirmed, MovesWereSeen
  <2>7. Chosen' /\ IdsStand' /\ InHand' /\ NewToArchive' /\ Compared'
          /\ VerifiedAreCopied' /\ MovedAreArchived'
    BY <2>1 DEF Chosen, Fetching, Handling, IdsStand, InHand, NewToArchive, Compared,
       VerifiedAreCopied, MovedAreArchived
  <2>8. Safe'
    BY <1>a, <1>b, <1>1, <2>1, <2>2, <2>3, <2>4 DEF Safe, Copied, Settled
  <2>9. OneCopy'
    BY <1>a, <1>b, <1>1, <2>1, <2>2, <2>3, <2>4 DEF OneCopy
  <2> QED
    BY <2>5, <2>6, <2>7, <2>8, <2>9 DEF IInv
<1>2. ASSUME run.pc = "move", archive' = archive \cup InFolder(run.todo), folder' = folder,
             run' = [run EXCEPT !.pc = "remove"]
      PROVE  IInv'
  <2>1. /\ run'.pc = "remove" /\ run'.policy = run.policy /\ run'.todo = run.todo /\ run'.ids = run.ids
        /\ run'.verified = run.verified /\ run'.uid = run.uid /\ run'.raw = run.raw /\ run'.at = run.at
        /\ run' \in Runs /\ run # Idle
    <3>1. /\ run'.pc = "remove" /\ run'.policy = run.policy /\ run'.todo = run.todo /\ run'.ids = run.ids
          /\ run'.verified = run.verified /\ run'.uid = run.uid /\ run'.raw = run.raw /\ run'.at = run.at
      BY <1>a, <1>2 DEF TypeOK, Runs
    <3>2. run' \in Runs
      BY <1>a, <1>2 DEF TypeOK, Runs
    <3> QED
      BY <3>1, <3>2, <1>2, IdleFacts
  <2>2. /\ archive' \subseteq Messages /\ archive \subseteq archive'
        /\ \A u \in run.todo : folder[u] = None \/ folder[u] \in archive'
    BY <1>a, <1>2 DEF TypeOK, InFolder, Runs
  <2>3. /\ None \notin Messages /\ had \subseteq Messages 
        /\ run.verified \subseteq Uids /\ run.todo \subseteq Uids
    BY <1>a, ArchiveAssumption DEF TypeOK, Runs
  <2>4. TypeOK'
    BY <1>a, <1>b, <1>c, <1>2, <2>1, <2>2, <2>3 DEF TypeOK
  <2>5. Confirmed' /\ MovesWereSeen'
    BY <1>a, <1>b, <1>2, <2>1, <2>2, <2>3 DEF Confirmed, MovesWereSeen
  <2>6. IdsStand' /\ InHand' /\ NewToArchive' /\ Compared'
          /\ VerifiedAreCopied'
    BY <2>1 DEF IdsStand, Fetching, Handling, InHand, NewToArchive, Compared, VerifiedAreCopied
  <2>7. Chosen'
    BY <1>a, <1>b, <1>2, <2>1, <2>2, <2>3 DEF Chosen, Fetching, Handling, TypeOK, Runs
  <2>8. MovedAreArchived'
    BY <1>a, <1>b, <1>2, <2>1, <2>2, <2>3 DEF MovedAreArchived
  <2>9. Safe'
    BY <1>a, <1>b, <1>2, <2>1, <2>2, <2>3 DEF Safe, Copied, Settled
  <2>10. OneCopy'
    BY <1>a, <1>b, <1>2, <2>1, <2>2, <2>3 DEF OneCopy
  <2> QED
    BY <2>4, <2>5, <2>6, <2>7, <2>8, <2>9, <2>10 DEF IInv
<1>3. ASSUME run.pc = "move", archive' = archive, folder' = folder, run' = Idle
      PROVE  IInv'
  BY <1>a, <1>b, <1>c, <1>3, RunEnds DEF TypeOK, Handling
<1> QED
  BY <1>1, <1>2, <1>3 DEF Move

\* What was copied to the Archive folder is removed.
LEMMA RemoveIInv == IInv /\ Remove => IInv'
<1> SUFFICES ASSUME IInv, Remove PROVE IInv'
  OBVIOUS
<1>a. /\ TypeOK /\ Confirmed /\ MovesWereSeen /\ Chosen
      /\ IdsStand /\ InHand /\ NewToArchive /\ Compared
      /\ VerifiedAreCopied /\ MovedAreArchived /\ Safe /\ OneCopy
  BY DEF IInv
<1>b. UNCHANGED <<flagged, archive, local, journal, policy, on, confirmed, seen, had, discarded, shifted>>
  BY DEF Remove, server, store, choice, history, bounds, Works, Fault, Event
<1>c. events' \in Nat /\ saves' \in Nat /\ faults' \in Nat
  BY <1>a DEF TypeOK, Remove, bounds, Works, Fault, Event
<1>1. ASSUME run.pc = "remove", folder' = Without(run.todo), run' = Idle
      PROVE  IInv'
  <2>1. /\ run' = Idle /\ run'.pc = "idle" /\ run' \in Runs
    BY <1>1, IdleFacts
  <2>2. /\ folder' \in [Uids -> Messages \cup {None}]
        /\ \A u \in Uids : folder'[u] = IF u \in run.todo THEN None ELSE folder[u]
    BY <1>a, <1>1 DEF TypeOK, Without
  <2>3. /\ None \notin Messages /\ had \subseteq Messages 
        /\ run.verified \subseteq Uids /\ run.todo \subseteq Uids
    BY <1>a, ArchiveAssumption DEF TypeOK, Runs
  <2>4. TypeOK'
    BY <1>a, <1>b, <1>c, <1>1, <2>1, <2>2, <2>3 DEF TypeOK
  <2>5. Confirmed' /\ MovesWereSeen'
    BY <1>a, <1>b, <1>1, <2>1, <2>2, <2>3 DEF Confirmed, MovesWereSeen
  <2>6. Chosen' /\ IdsStand' /\ InHand' /\ NewToArchive' /\ Compared'
          /\ VerifiedAreCopied' /\ MovedAreArchived'
    BY <2>1 DEF Chosen, Fetching, Handling, IdsStand, InHand, NewToArchive, Compared,
       VerifiedAreCopied, MovedAreArchived
  <2>7. Safe'
    BY <1>a, <1>b, <1>1, <2>1, <2>2, <2>3 DEF Safe, Copied, Settled, MovedAreArchived
  <2>8. OneCopy'
    BY <1>a, <1>b, <1>1, <2>1, <2>2, <2>3 DEF OneCopy
  <2> QED
    BY <2>4, <2>5, <2>6, <2>7, <2>8 DEF IInv
<1>2. ASSUME run.pc = "remove", folder' = folder, run' = Idle
      PROVE  IInv'
  BY <1>a, <1>b, <1>c, <1>2, RunEnds DEF TypeOK, Handling
<1> QED
  BY <1>1, <1>2 DEF Remove

\* A message is marked.
LEMMA OtherFlagsIInv ==
  ASSUME IInv, NEW v \in Uids, OtherFlags(v)
  PROVE  IInv'
<1>a. /\ TypeOK /\ Confirmed /\ MovesWereSeen /\ Chosen
      /\ IdsStand /\ InHand /\ NewToArchive /\ Compared
      /\ VerifiedAreCopied /\ MovedAreArchived /\ Safe /\ OneCopy
  BY DEF IInv
<1>b. UNCHANGED <<folder, archive, local, journal, policy, on, confirmed, seen, had, discarded, shifted, run>>
  BY DEF OtherFlags, server, store, choice, history, bounds, Works, Fault, Event
<1>c. events' \in Nat /\ saves' \in Nat /\ faults' \in Nat
  BY <1>a DEF TypeOK, OtherFlags, bounds, Works, Fault, Event
<1>1. ASSUME OtherFlags(v)
      PROVE  IInv'
  <2>1. /\ run' = run /\ run' \in Runs
    BY <1>a, <1>b DEF TypeOK
  <2>2. flagged' \subseteq Uids
    BY <1>a DEF TypeOK, OtherFlags
  <2>3. TypeOK'
    BY <1>a, <1>b, <1>c, <1>1, <2>1, <2>2 DEF TypeOK
  <2>4. Confirmed' /\ MovesWereSeen'
    BY <1>a, <1>b, <1>1, <2>1, <2>2 DEF Confirmed, MovesWereSeen
  <2>5. Chosen'
    BY <1>a, <1>b, <1>1, <2>1, <2>2 DEF Chosen, Fetching, Handling, TypeOK, Runs
  <2>6. IdsStand'
    BY <1>a, <1>b, <1>1, <2>1, <2>2 DEF IdsStand, Fetching, Handling, Id, Chosen
  <2>7. InHand'
    BY <1>a, <1>b, <1>1, <2>1, <2>2 DEF InHand, Handling, Id, Chosen
  <2>8. NewToArchive'
    BY <1>a, <1>b, <1>1, <2>1, <2>2 DEF NewToArchive, Handling
  <2>9. Compared'
    BY <1>a, <1>b, <1>1, <2>1, <2>2 DEF Compared
  <2>10. VerifiedAreCopied'
    BY <1>a, <1>b, <1>1, <2>1, <2>2 DEF VerifiedAreCopied, Fetching, Handling, Copied, Settled
  <2>11. MovedAreArchived'
    BY <1>a, <1>b, <1>1, <2>1, <2>2 DEF MovedAreArchived
  <2>12. Safe'
    BY <1>a, <1>b, <1>1, <2>1, <2>2 DEF Safe, Copied, Settled
  <2>13. OneCopy'
    BY <1>a, <1>b, <1>1, <2>1, <2>2 DEF OneCopy
  <2> QED
    BY <2>3, <2>4, <2>5, <2>6, <2>7, <2>8, <2>9, <2>10, <2>11, <2>12, <2>13 DEF IInv
<1> QED
  BY <1>1

\* A message is removed by another client: whatever the run holds of it, it was somebody's wish.
LEMMA OtherRemovesIInv ==
  ASSUME IInv, NEW v \in Uids, OtherRemoves(v)
  PROVE  IInv'
<1>a. /\ TypeOK /\ Confirmed /\ MovesWereSeen /\ Chosen
      /\ IdsStand /\ InHand /\ NewToArchive /\ Compared
      /\ VerifiedAreCopied /\ MovedAreArchived /\ Safe /\ OneCopy
  BY DEF IInv
<1>b. UNCHANGED <<flagged, archive, local, journal, policy, on, confirmed, seen, had, shifted, run>>
  BY DEF OtherRemoves, server, store, choice, history, bounds, Works, Fault, Event
<1>c. events' \in Nat /\ saves' \in Nat /\ faults' \in Nat
  BY <1>a DEF TypeOK, OtherRemoves, bounds, Works, Fault, Event
<1>1. ASSUME OtherRemoves(v)
      PROVE  IInv'
  <2>1. /\ run' = run /\ run' \in Runs
    BY <1>a, <1>b DEF TypeOK
  <2>2. folder[v] \in Messages /\ discarded' = discarded \cup {folder[v]} /\ discarded' \subseteq Messages
    BY <1>a DEF TypeOK, OtherRemoves
  <2>3. /\ folder' \in [Uids -> Messages \cup {None}]
        /\ \A u \in Uids : folder'[u] = IF u = v THEN None ELSE folder[u]
    BY <1>a DEF TypeOK, OtherRemoves, Without
  <2>4. /\ None \notin Messages /\ had \subseteq Messages 
        /\ run.verified \subseteq Uids /\ run.todo \subseteq Uids
    BY <1>a, ArchiveAssumption DEF TypeOK, Runs
  <2>5. DOMAIN run.ids \subseteq Uids
    BY <1>a, IdMapFacts DEF TypeOK, Runs
  <2>6. TypeOK'
    BY <1>a, <1>b, <1>c, <1>1, <2>1, <2>2, <2>3, <2>4, <2>5 DEF TypeOK
  <2>7. Confirmed' /\ MovesWereSeen'
    BY <1>a, <1>b, <1>1, <2>1, <2>2, <2>3, <2>4, <2>5 DEF Confirmed, MovesWereSeen
  <2>8. Chosen'
    BY <1>a, <1>b, <1>1, <2>1, <2>2, <2>3, <2>4, <2>5 DEF Chosen, Fetching, Handling, TypeOK, Runs
  <2>9. IdsStand'
    BY <1>a, <1>b, <1>1, <2>1, <2>2, <2>3, <2>4, <2>5 DEF IdsStand, Fetching, Handling, Id, Chosen
  <2>10. InHand'
    BY <1>a, <1>b, <1>1, <2>1, <2>2, <2>3, <2>4, <2>5 DEF InHand, Handling, Id, Chosen
  <2>11. NewToArchive'
    BY <1>a, <1>b, <1>1, <2>1, <2>2, <2>3, <2>4, <2>5 DEF NewToArchive, Handling
  <2>12. Compared'
    BY <1>a, <1>b, <1>1, <2>1, <2>2, <2>3, <2>4, <2>5 DEF Compared
  <2>13. VerifiedAreCopied'
    BY <1>a, <1>b, <1>1, <2>1, <2>2, <2>3, <2>4, <2>5 DEF VerifiedAreCopied, Fetching, Handling,
       Copied, Settled
  <2>14. MovedAreArchived'
    BY <1>a, <1>b, <1>1, <2>1, <2>2, <2>3, <2>4, <2>5 DEF MovedAreArchived
  <2>15. Safe'
    BY <1>a, <1>b, <1>1, <2>1, <2>2, <2>3, <2>4, <2>5 DEF Safe, Copied, Settled
  <2>16. OneCopy'
    BY <1>a, <1>b, <1>1, <2>1, <2>2, <2>3, <2>4, <2>5 DEF OneCopy
  <2> QED
    BY <2>6, <2>7, <2>8, <2>9, <2>10, <2>11, <2>12, <2>13, <2>14, <2>15, <2>16 DEF IInv
<1> QED
  BY <1>1

\* The person removes a copy.
LEMMA LocalRemovedIInv ==
  ASSUME IInv, NEW v \in LocalUids, LocalRemoved(v)
  PROVE  IInv'
<1>a. /\ TypeOK /\ Confirmed /\ MovesWereSeen /\ Chosen
      /\ IdsStand /\ InHand /\ NewToArchive /\ Compared
      /\ VerifiedAreCopied /\ MovedAreArchived /\ Safe /\ OneCopy
  BY DEF IInv
<1>b. UNCHANGED <<folder, flagged, archive, journal, policy, on, confirmed, seen, had, shifted, run>>
  BY DEF LocalRemoved, server, store, choice, history, bounds, Works, Fault, Event
<1>c. events' \in Nat /\ saves' \in Nat /\ faults' \in Nat
  BY <1>a DEF TypeOK, LocalRemoved, bounds, Works, Fault, Event
<1>1. ASSUME LocalRemoved(v)
      PROVE  IInv'
  <2>1. /\ run' = run /\ run' \in Runs
    BY <1>a, <1>b DEF TypeOK
  <2>2. local[v] \in Messages /\ discarded' = discarded \cup {local[v]} /\ discarded' \subseteq Messages
    BY <1>a DEF TypeOK, LocalRemoved
  <2>3. /\ local' \in [LocalUids -> Messages \cup {None, Damaged}]
        /\ \A l \in LocalUids : local'[l] = IF l = v THEN None ELSE local[l]
    BY <1>a DEF TypeOK, LocalRemoved
  <2>4. /\ None \notin Messages /\ had \subseteq Messages 
        /\ run.verified \subseteq Uids /\ run.todo \subseteq Uids
    BY <1>a, ArchiveAssumption DEF TypeOK, Runs
  <2>5. HasId \subseteq Messages
    BY ArchiveAssumption
  <2>6. TypeOK'
    BY <1>a, <1>b, <1>c, <1>1, <2>1, <2>2, <2>3, <2>4, <2>5 DEF TypeOK
  <2>7. Confirmed' /\ MovesWereSeen'
    BY <1>a, <1>b, <1>1, <2>1, <2>2, <2>3, <2>4, <2>5 DEF Confirmed, MovesWereSeen
  <2>8. Chosen'
    BY <1>a, <1>b, <1>1, <2>1, <2>2, <2>3, <2>4, <2>5 DEF Chosen, Fetching, Handling, TypeOK, Runs
  <2>9. IdsStand'
    BY <1>a, <1>b, <1>1, <2>1, <2>2, <2>3, <2>4, <2>5 DEF IdsStand, Fetching, Handling, Id, Chosen
  <2>10. InHand'
    BY <1>a, <1>b, <1>1, <2>1, <2>2, <2>3, <2>4, <2>5 DEF InHand, Handling, Id, Chosen
  <2>11. NewToArchive'
    BY <1>a, <1>b, <1>1, <2>1, <2>2, <2>3, <2>4, <2>5 DEF NewToArchive, Handling
  <2>12. Compared'
    BY <1>a, <1>b, <1>1, <2>1, <2>2, <2>3, <2>4, <2>5 DEF Compared, Chosen
  <2>13. VerifiedAreCopied'
    BY <1>a, <1>b, <1>1, <2>1, <2>2, <2>3, <2>4, <2>5 DEF VerifiedAreCopied, Fetching, Handling,
       Copied, Settled
  <2>14. MovedAreArchived'
    BY <1>a, <1>b, <1>1, <2>1, <2>2, <2>3, <2>4, <2>5 DEF MovedAreArchived
  <2>15. Safe'
    BY <1>a, <1>b, <1>1, <2>1, <2>2, <2>3, <2>4, <2>5 DEF Safe, Copied, Settled
  <2>16. OneCopy'
    BY <1>a, <1>b, <1>1, <2>1, <2>2, <2>3, <2>4, <2>5 DEF OneCopy
  <2> QED
    BY <2>6, <2>7, <2>8, <2>9, <2>10, <2>11, <2>12, <2>13, <2>14, <2>15, <2>16 DEF IInv
<1> QED
  BY <1>1

\* Uids are given anew: harmless before a run has chosen, and noted after.
LEMMA RebuiltIInv == IInv /\ Rebuilt => IInv'
<1> SUFFICES ASSUME IInv, Rebuilt PROVE IInv'
  OBVIOUS
<1>a. /\ TypeOK /\ Confirmed /\ MovesWereSeen /\ Chosen
      /\ IdsStand /\ InHand /\ NewToArchive /\ Compared
      /\ VerifiedAreCopied /\ MovedAreArchived /\ Safe /\ OneCopy
  BY DEF IInv
<1>b. UNCHANGED <<archive, local, journal, policy, on, confirmed, seen, had, discarded, run>>
  BY DEF Rebuilt, server, store, choice, history, bounds, Works, Fault, Event
<1>c. events' \in Nat /\ saves' \in Nat /\ faults' \in Nat
  BY <1>a DEF TypeOK, Rebuilt, bounds, Works, Fault, Event
<1>1. ASSUME Rebuilt
      PROVE  IInv'
  <2>1. /\ run' = run /\ run' \in Runs
    BY <1>a, <1>b DEF TypeOK
  <2>2. PICK p \in Bijection(Uids, Uids) : /\ folder' = [u \in Uids |-> folder[p[u]]]
                                       /\ flagged' = {u \in Uids : p[u] \in flagged}
    BY DEF Rebuilt
  <2>3. /\ p \in [Uids -> Uids] /\ \A u \in Uids : \E w \in Uids : p[w] = u
    BY DEF Bijection, Injection, Surjection
  <2>4. folder' \in [Uids -> Messages \cup {None}] /\ flagged' \subseteq Uids
    BY <1>a, <2>2, <2>3 DEF TypeOK
  <2>5. \A u \in Uids : \E w \in Uids : folder'[w] = folder[u]
    BY <2>2, <2>3
  <2>6. shifted' \in BOOLEAN
    BY DEF Rebuilt
  <2>7. ~shifted' => ~shifted /\ run.pc \in {"idle", "search", "headers"}
    BY DEF Rebuilt
  <2>8. TypeOK'
    BY <1>a, <1>b, <1>c, <1>1, <2>1, <2>2, <2>3, <2>4, <2>5, <2>6, <2>7 DEF TypeOK
  <2>9. Confirmed' /\ MovesWereSeen'
    BY <1>a, <1>b, <1>1, <2>1, <2>2, <2>3, <2>4, <2>5, <2>6, <2>7 DEF Confirmed, MovesWereSeen
  <2>10. Chosen'
    BY <1>a, <1>b, <1>1, <2>1, <2>2, <2>3, <2>4, <2>5, <2>6, <2>7 DEF Chosen, Fetching, Handling,
       TypeOK, Runs
  <2>11. IdsStand'
    BY <1>a, <1>b, <1>1, <2>1, <2>2, <2>3, <2>4, <2>5, <2>6, <2>7 DEF IdsStand, Fetching, Handling, Id,
       Chosen
  <2>12. InHand'
    BY <1>a, <1>b, <1>1, <2>1, <2>2, <2>3, <2>4, <2>5, <2>6, <2>7 DEF InHand, Handling, Id, Chosen
  <2>13. NewToArchive'
    BY <1>a, <1>b, <1>1, <2>1, <2>2, <2>3, <2>4, <2>5, <2>6, <2>7 DEF NewToArchive, Handling
  <2>14. Compared'
    BY <1>a, <1>b, <1>1, <2>1, <2>2, <2>3, <2>4, <2>5, <2>6, <2>7 DEF Compared
  <2>15. VerifiedAreCopied'
    BY <1>a, <1>b, <1>1, <2>1, <2>2, <2>3, <2>4, <2>5, <2>6, <2>7 DEF VerifiedAreCopied, Fetching,
       Handling, Copied, Settled
  <2>16. MovedAreArchived'
    BY <1>a, <1>b, <1>1, <2>1, <2>2, <2>3, <2>4, <2>5, <2>6, <2>7 DEF MovedAreArchived
  <2>17. Safe'
    BY <1>a, <1>b, <1>1, <2>1, <2>2, <2>3, <2>4, <2>5, <2>6, <2>7 DEF Safe, Copied, Settled
  <2>18. OneCopy'
    BY <1>a, <1>b, <1>1, <2>1, <2>2, <2>3, <2>4, <2>5, <2>6, <2>7 DEF OneCopy
  <2> QED
    BY <2>8, <2>9, <2>10, <2>11, <2>12, <2>13, <2>14, <2>15, <2>16, <2>17, <2>18 DEF IInv
<1> QED
  BY <1>1

\* The process ends in the middle.
LEMMA CrashIInv == IInv /\ Crash => IInv'
<1> SUFFICES ASSUME IInv, Crash PROVE IInv'
  OBVIOUS
<1>a. /\ TypeOK /\ Confirmed /\ MovesWereSeen /\ Chosen
      /\ IdsStand /\ InHand /\ NewToArchive /\ Compared
      /\ VerifiedAreCopied /\ MovedAreArchived /\ Safe /\ OneCopy
  BY DEF IInv
<1>b. UNCHANGED <<folder, flagged, archive, local, journal, policy, on, confirmed,
                seen, had, discarded, shifted>>
  BY DEF Crash, server, store, choice, history, bounds, Works, Fault, Event
<1>c. events' \in Nat /\ saves' \in Nat /\ faults' \in Nat
  BY <1>a DEF TypeOK, Crash, bounds, Works, Fault, Event
<1>1. ASSUME run' = Idle
      PROVE  IInv'
  BY <1>a, <1>b, <1>c, <1>1, RunEnds DEF TypeOK, Handling
<1> QED
  BY <1>1 DEF Crash

\* A policy is shown before it is confirmed.
LEMMA PreviewIInv ==
  ASSUME IInv, NEW q \in Policies, Preview(q)
  PROVE  IInv'
<1>a. /\ TypeOK /\ Confirmed /\ MovesWereSeen /\ Chosen
      /\ IdsStand /\ InHand /\ NewToArchive /\ Compared
      /\ VerifiedAreCopied /\ MovedAreArchived /\ Safe /\ OneCopy
  BY DEF IInv
<1>b. UNCHANGED <<folder, flagged, archive, local, journal, policy, on, confirmed,
                had, discarded, shifted, run>>
  BY DEF Preview, server, store, choice, history, bounds, Works, Fault, Event
<1>c. events' \in Nat /\ saves' \in Nat /\ faults' \in Nat
  BY <1>a DEF TypeOK, Preview, bounds, Works, Fault, Event
<1>1. ASSUME Preview(q)
      PROVE  IInv'
  <2>1. /\ run' = run /\ run' \in Runs
    BY <1>a, <1>b DEF TypeOK
  <2>2. seen' = seen \cup {q} /\ seen' \subseteq Policies
    BY <1>a DEF TypeOK, Preview
  <2>3. TypeOK'
    BY <1>a, <1>b, <1>c, <1>1, <2>1, <2>2 DEF TypeOK
  <2>4. Confirmed' /\ MovesWereSeen'
    BY <1>a, <1>b, <1>1, <2>1, <2>2 DEF Confirmed, MovesWereSeen
  <2>5. Chosen'
    BY <1>a, <1>b, <1>1, <2>1, <2>2 DEF Chosen, Fetching, Handling, TypeOK, Runs
  <2>6. IdsStand'
    BY <1>a, <1>b, <1>1, <2>1, <2>2 DEF IdsStand, Fetching, Handling, Id, Chosen
  <2>7. InHand'
    BY <1>a, <1>b, <1>1, <2>1, <2>2 DEF InHand, Handling, Id, Chosen
  <2>8. NewToArchive'
    BY <1>a, <1>b, <1>1, <2>1, <2>2 DEF NewToArchive, Handling
  <2>9. Compared'
    BY <1>a, <1>b, <1>1, <2>1, <2>2 DEF Compared
  <2>10. VerifiedAreCopied'
    BY <1>a, <1>b, <1>1, <2>1, <2>2 DEF VerifiedAreCopied, Fetching, Handling, Copied, Settled
  <2>11. MovedAreArchived'
    BY <1>a, <1>b, <1>1, <2>1, <2>2 DEF MovedAreArchived
  <2>12. Safe'
    BY <1>a, <1>b, <1>1, <2>1, <2>2 DEF Safe, Copied, Settled
  <2>13. OneCopy'
    BY <1>a, <1>b, <1>1, <2>1, <2>2 DEF OneCopy
  <2> QED
    BY <2>3, <2>4, <2>5, <2>6, <2>7, <2>8, <2>9, <2>10, <2>11, <2>12, <2>13 DEF IInv
<1> QED
  BY <1>1

\* A policy is saved; what is confirmed was previewed.
LEMMA SaveIInv ==
  ASSUME IInv, NEW q \in Policies, NEW e \in BOOLEAN, NEW t \in seen \cup {None}, Save(q, e, t)
  PROVE  IInv'
<1>a. /\ TypeOK /\ Confirmed /\ MovesWereSeen /\ Chosen
      /\ IdsStand /\ InHand /\ NewToArchive /\ Compared
      /\ VerifiedAreCopied /\ MovedAreArchived /\ Safe /\ OneCopy
  BY DEF IInv
<1>b. UNCHANGED <<folder, flagged, archive, local, journal, seen, had, discarded, shifted, run>>
  BY DEF Save, server, store, choice, history, bounds, Works, Fault, Event
<1>c. events' \in Nat /\ saves' \in Nat /\ faults' \in Nat
  BY <1>a DEF TypeOK, Save, bounds, Works, Fault, Event
<1>1. ASSUME Save(q, e, t)
      PROVE  IInv'
  <2>1. /\ run' = run /\ run' \in Runs
    BY <1>a, <1>b DEF TypeOK
  <2>2. policy' = q /\ on' = e /\ confirmed' \in Policies \cup {None} /\ confirmed' \in seen \cup {None}
    BY <1>a DEF TypeOK, Save, Confirmation, Confirmed
  <2>3. TypeOK'
    BY <1>a, <1>b, <1>c, <1>1, <2>1, <2>2 DEF TypeOK
  <2>4. Confirmed' /\ MovesWereSeen'
    BY <1>a, <1>b, <1>1, <2>1, <2>2 DEF Confirmed, MovesWereSeen
  <2>5. Chosen'
    BY <1>a, <1>b, <1>1, <2>1, <2>2 DEF Chosen, Fetching, Handling, TypeOK, Runs
  <2>6. IdsStand'
    BY <1>a, <1>b, <1>1, <2>1, <2>2 DEF IdsStand, Fetching, Handling, Id, Chosen
  <2>7. InHand'
    BY <1>a, <1>b, <1>1, <2>1, <2>2 DEF InHand, Handling, Id, Chosen
  <2>8. NewToArchive'
    BY <1>a, <1>b, <1>1, <2>1, <2>2 DEF NewToArchive, Handling
  <2>9. Compared'
    BY <1>a, <1>b, <1>1, <2>1, <2>2 DEF Compared
  <2>10. VerifiedAreCopied'
    BY <1>a, <1>b, <1>1, <2>1, <2>2 DEF VerifiedAreCopied, Fetching, Handling, Copied, Settled
  <2>11. MovedAreArchived'
    BY <1>a, <1>b, <1>1, <2>1, <2>2 DEF MovedAreArchived
  <2>12. Safe'
    BY <1>a, <1>b, <1>1, <2>1, <2>2 DEF Safe, Copied, Settled
  <2>13. OneCopy'
    BY <1>a, <1>b, <1>1, <2>1, <2>2 DEF OneCopy
  <2> QED
    BY <2>3, <2>4, <2>5, <2>6, <2>7, <2>8, <2>9, <2>10, <2>11, <2>12, <2>13 DEF IInv
<1> QED
  BY <1>1

\* A run starts on what is confirmed.
LEMMA RunStartIInv == IInv /\ RunStart => IInv'
<1> SUFFICES ASSUME IInv, RunStart PROVE IInv'
  OBVIOUS
<1>a. /\ TypeOK /\ Confirmed /\ MovesWereSeen /\ Chosen
      /\ IdsStand /\ InHand /\ NewToArchive /\ Compared
      /\ VerifiedAreCopied /\ MovedAreArchived /\ Safe /\ OneCopy
  BY DEF IInv
<1>b. UNCHANGED <<folder, flagged, archive, local, journal, policy, on, confirmed,
                seen, had, discarded, shifted>>
  BY DEF RunStart, server, store, choice, history, bounds, Works, Fault, Event
<1>c. events' \in Nat /\ saves' \in Nat /\ faults' \in Nat
  BY <1>a DEF TypeOK, RunStart, bounds, Works, Fault, Event
<1>1. ASSUME RunStart
      PROVE  IInv'
  <2>1. /\ run'.pc = "search" /\ run'.policy = policy /\ run'.todo = {} /\ run'.ids = Idle.ids
        /\ run'.verified = {} /\ run'.uid = 0 /\ run'.raw = None /\ run'.at = 0
        /\ run' \in Runs
    <3>1. /\ run'.pc = "search" /\ run'.policy = policy /\ run'.todo = {} /\ run'.ids = Idle.ids
          /\ run'.verified = {} /\ run'.uid = 0 /\ run'.raw = None /\ run'.at = 0
      BY <1>a, <1>1 DEF TypeOK, Runs, RunStart, Idle
    <3>2. run' \in Runs
      BY <1>a, <1>1, IdleFacts DEF TypeOK, Runs, RunStart, Idle
    <3> QED
      BY <3>1, <3>2, <1>1, IdleFacts
  <2>2. policy \in seen
    BY <1>a DEF RunStart, is_confirmed, Confirmed
  <2>3. TypeOK'
    BY <1>a, <1>b, <1>c, <1>1, <2>1, <2>2 DEF TypeOK
  <2>4. Confirmed' /\ MovesWereSeen'
    BY <1>a, <1>b, <1>1, <2>1, <2>2 DEF Confirmed, MovesWereSeen
  <2>5. IdsStand' /\ InHand' /\ NewToArchive' /\ Compared'
          /\ VerifiedAreCopied' /\ MovedAreArchived'
    BY <2>1 DEF IdsStand, Fetching, Handling, InHand, NewToArchive, Compared, VerifiedAreCopied,
       MovedAreArchived
  <2>6. Chosen'
    BY <1>a, <1>b, <1>1, <2>1, <2>2 DEF Chosen, Fetching, Handling, TypeOK, Runs
  <2>7. Safe'
    BY <1>a, <1>b, <1>1, <2>1, <2>2 DEF Safe, Copied, Settled
  <2>8. OneCopy'
    BY <1>a, <1>b, <1>1, <2>1, <2>2 DEF OneCopy
  <2> QED
    BY <2>3, <2>4, <2>5, <2>6, <2>7, <2>8 DEF IInv
<1> QED
  BY <1>1
-----------------------------------------------------------------------------
(* The invariant, and what follows from it.                                *)

\* It holds at the start: there is no run and no copy, and nothing has happened yet.
LEMMA InitIInv == Init => IInv
<1> SUFFICES ASSUME Init PROVE IInv
  OBVIOUS
<1>1. run = Idle /\ run \in Runs /\ run.pc = "idle"
  BY IdleFacts DEF Init
<1>2. TypeOK
  <2>1. folder \in [Uids -> Messages \cup {None}] /\ had \subseteq Messages
    BY DEF Init, Range
  <2>2. journal \in [Uids -> Rows] /\ local \in [LocalUids -> Messages \cup {None, Damaged}]
    BY DEF Init, Rows
  <2>3. on \in BOOLEAN /\ shifted \in BOOLEAN
    BY DEF Init
  <2> QED
    BY <1>1, <2>1, <2>2, <2>3 DEF Init, TypeOK
<1>3. Confirmed /\ MovesWereSeen
  BY <1>1 DEF Init, Confirmed, MovesWereSeen
<1>4. Chosen /\ IdsStand /\ InHand /\ NewToArchive /\ Compared /\ VerifiedAreCopied /\ MovedAreArchived
  BY <1>1 DEF Chosen, IdsStand, InHand, NewToArchive, Compared, VerifiedAreCopied, MovedAreArchived,
              Fetching, Handling
<1>5. Safe
  BY DEF Init, Safe, Range
<1>6. OneCopy
  BY ArchiveAssumption DEF Init, OneCopy
<1> QED
  BY <1>2, <1>3, <1>4, <1>5, <1>6 DEF IInv

\* Every step keeps the invariant.
LEMMA NextIInv == IInv /\ [Next]_vars => IInv'
<1> SUFFICES ASSUME IInv, [Next]_vars PROVE IInv'
  OBVIOUS
<1>1. CASE UNCHANGED vars
  <2>1. UNCHANGED <<folder, flagged, archive, local, journal, policy, on, confirmed, seen, run, had,
                    discarded, shifted, events, saves, faults>>
    BY <1>1 DEF vars, server, store, choice, history, bounds
  <2> QED
    BY <2>1 DEF IInv, TypeOK, Confirmed, MovesWereSeen, Chosen, IdsStand, InHand, NewToArchive, Compared,
                VerifiedAreCopied, MovedAreArchived, Safe, OneCopy, Copied, Settled
<1>2. CASE \E p \in Policies : Preview(p) \/ \E e \in BOOLEAN, t \in seen \cup {None} : Save(p, e, t)
  BY <1>2, PreviewIInv, SaveIInv
<1>3. CASE RunStart
  BY <1>3, RunStartIInv
<1>4. CASE RunStep
  BY <1>4, SearchIInv, HeadersIInv, FetchIInv, LookIInv, StoreIInv, NoteIInv, CheckIInv, DiscardIInv,
     ClearRowIInv, VerifyIInv, ChunkEndIInv, DeleteIInv, SettleIInv, MoveIInv, RemoveIInv DEF RunStep
<1>5. CASE Others
  BY <1>5, OtherFlagsIInv, OtherRemovesIInv, LocalRemovedIInv, RebuiltIInv DEF Others
<1>6. CASE Crash
  BY <1>6, CrashIInv
<1> QED
  BY <1>1, <1>2, <1>3, <1>4, <1>5, <1>6 DEF Next

\* The inductive invariant holds throughout; it needs no fairness.
THEOREM ArchiveInvariant == Spec => []IInv
BY InitIInv, NextIInv, PTL DEF Spec

\* The server, the store, the policy and the run keep their types.
THEOREM ArchiveTypeCorrect == Spec => []TypeOK
<1>1. IInv => TypeOK
  BY DEF IInv
<1> QED
  BY <1>1, ArchiveInvariant, PTL

\* A message nobody removed is on the server or intact in the local archive, wherever a
\* run is cut short and whichever step fails (archive_to_local, archive_on_server).
THEOREM ArchiveNeverLost == Spec => []NeverLost
<1>1. IInv => NeverLost
  <2> SUFFICES ASSUME IInv, ~shifted, NEW m \in had
               PROVE  m \in archive \cup Range(folder) \cup Range(local) \cup discarded
    BY DEF NeverLost
  <2>1. m \in archive \/ m \in discarded \/ (\E u \in Uids : folder[u] = m)
          \/ (\E l \in LocalUids : local[l] = m)
    BY DEF IInv, Safe, Copied
  <2>2. DOMAIN folder = Uids /\ DOMAIN local = LocalUids
    BY DEF IInv, TypeOK
  <2> QED
    BY <2>1, <2>2 DEF Range
<1> QED
  BY <1>1, ArchiveInvariant, PTL

\* No message with a Message-ID gets a second local copy, however often a run that was cut
\* short is started again.
THEOREM ArchiveNoSecondLocalCopy == Spec => []NoSecondLocalCopy
<1>1. IInv => NoSecondLocalCopy
  <2> SUFFICES ASSUME IInv, ~shifted, NEW m \in HasId
               PROVE  Cardinality({l \in LocalUids : local[l] = m}) <= 1
    BY DEF NoSecondLocalCopy
  <2> DEFINE S == {l \in LocalUids : local[l] = m}
  <2>1. \A k, l \in S : k = l
    BY DEF IInv, OneCopy
  <2>2. CASE S = {}
    BY <2>2, FS_EmptySet
  <2>3. CASE S # {}
    <3>1. PICK k : k \in S
      BY <2>3
    <3>2. S = {k}
      BY <2>1, <3>1
    <3> QED
      BY <3>2, FS_Singleton
  <2> QED
    BY <2>2, <2>3
<1> QED
  BY <1>1, ArchiveInvariant, PTL

\* A run carries out only what was previewed (RunStart, save, is_confirmed).
THEOREM ArchiveMovesWereSeen == Spec => []MovesWereSeen
<1>1. IInv => MovesWereSeen
  BY DEF IInv
<1> QED
  BY <1>1, ArchiveInvariant, PTL

=============================================================================
