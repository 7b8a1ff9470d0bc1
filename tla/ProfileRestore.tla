--------------------------- MODULE ProfileRestore ---------------------------
(***************************************************************************)
(* Swapping a restored profile in, going back and keeping it (restore.go). *)
(*                                                                         *)
(* The core has left a checked profile in the staging folder.  The desktop *)
(* stops it, moves each part of the live profile aside and the staged part *)
(* in, and starts it again.  A journal on disk says how far this is: a     *)
(* swap that fails is rolled back at once, one cut short at the next       *)
(* start.  Each move is a rename, or a copy and a removal when a rename is *)
(* not possible; the process may end between any two steps.                *)
(*                                                                         *)
(* A part is the store, its write-ahead log (which stands for its shared   *)
(* memory file too) or a folder of media.  What it holds is whose it is:   *)
(* the old profile's or the new one's, or "part" of something.             *)
(***************************************************************************)
EXTENDS Naturals, Sequences

CONSTANTS
  MaxSwaps,    \* bound: times a person asks to activate, go back or keep
  MaxCrashes,  \* bound: ends of the process
  MaxFaults    \* bound: file operations that fail

ASSUME RestoreBounds == MaxSwaps \in Nat /\ MaxCrashes \in Nat /\ MaxFaults \in Nat

\* planRestore: the parts in the order they are moved; media may be on another
\* volume than the staging folder.
Plan == <<"db", "wal", "avatars", "wallpapers">>
Parts == {Plan[k] : k \in DOMAIN Plan}
Media == {"avatars", "wallpapers"}

Held == {"none", "old", "new", "part", "empty"}
Places == {"live", "previous", "staged"}

VARIABLES
  disk,      \* what each place holds of each part
  journal,   \* the journal on disk
  app,       \* what the desktop is doing
  at,        \* the move it is at
  moving,    \* how far a move by copy is
  before,    \* history: the live profile when the last swap began
  archive,   \* history: what the archive holds
  spoiled,   \* history: going back or keeping was cut short, or going back failed
  swaps, crashes, faults

bounds == <<swaps, crashes, faults>>
vars == <<disk, journal, app, at, moving, before, archive, spoiled, bounds>>

NoJournal == [state |-> "none", existed |-> {}]
Profile(whose, S) == [p \in Parts |-> IF p \in S THEN whose ELSE "none"]

\* A profile in use, with or without media and a log, and an archive with some
\* media.
Init ==
  /\ \E S \in SUBSET (Parts \ {"db"}), T \in SUBSET Media :
       /\ before = Profile("old", {"db"} \cup S)
       /\ archive = Profile("new", {"db"} \cup T)
  /\ disk = [q \in Places |->
       CASE q = "live" -> before [] q = "staged" -> archive [] OTHER -> Profile("none", {})]
  /\ journal = NoJournal
  /\ app = "running"
  /\ at = 0
  /\ moving = "no"
  /\ spoiled = FALSE
  /\ swaps = 0 /\ crashes = 0 /\ faults = 0

Part == Plan[at]
Has(q) == disk[q][Part] # "none"
Fault == faults < MaxFaults /\ faults' = faults + 1
To(a, k) == app' = a /\ at' = k /\ moving' = "no"

-----------------------------------------------------------------------------
(* Requests, with the core stopped for the first two.                      *)

Asked == app = "running" /\ swaps < MaxSwaps /\ swaps' = swaps + 1

\* Mutation: it is not looked at whether the checked store is still there.
Mutant_ActivateRestore ==
  /\ Asked
  /\ journal = NoJournal
  /\ before' = disk["live"]
  /\ journal' = [state |-> "swapping", existed |-> {p \in Parts : disk["live"][p] # "none"}]
  /\ To("aside", 1)
  /\ UNCHANGED <<disk, archive, spoiled, crashes, faults>>

\* activateRestore writes the plan down before the first move.
ActivateRestore ==
  /\ Asked
  /\ journal = NoJournal
  /\ disk["staged"]["db"] # "none"
  /\ before' = disk["live"]
  /\ journal' = [state |-> "swapping", existed |-> {p \in Parts : disk["live"][p] # "none"}]
  /\ To("aside", 1)
  /\ UNCHANGED <<disk, archive, spoiled, crashes, faults>>

UndoProfileRestore ==
  /\ Asked
  /\ journal.state = "activated"
  /\ To("clear", Len(Plan))
  /\ UNCHANGED <<disk, journal, before, archive, spoiled, crashes, faults>>

KeepRestore ==
  /\ Asked
  /\ journal.state = "activated"
  /\ To("forget", 1)
  /\ UNCHANGED <<disk, journal, before, archive, spoiled, crashes, faults>>

-----------------------------------------------------------------------------
(* moveAside.  The step the desktop is at says from where to where.        *)

From == IF app = "aside" THEN "live" ELSE IF app = "stage" THEN "staged" ELSE "previous"
Dest == IF app = "aside" THEN "previous" ELSE "live"
Moves == app \in {"aside", "stage", "back"} /\ at \in DOMAIN Plan

\* Whether there is something to move: Existed, or a staged part.
Due == IF app = "aside" THEN Part \in journal.existed ELSE Has(From)

\* The step after the move, or after finding nothing to move.
Onward ==
  CASE app = "aside" -> To("stage", at)
    [] app = "stage" -> To("aside", at + 1)
    [] OTHER -> To("clear", at - 1)

\* A swap that fails is rolled back; a rollback that fails is left there and
\* the core is started again all the same.
Fails ==
  IF app \in {"aside", "stage"} THEN To("clear", Len(Plan)) /\ UNCHANGED spoiled
  ELSE To("running", 0) /\ spoiled' = TRUE

Skip ==
  /\ Moves /\ ~Due /\ moving = "no"
  /\ Onward
  /\ UNCHANGED <<disk, journal, before, archive, spoiled, bounds>>

Rename ==
  /\ Moves /\ Due /\ moving = "no"
  /\ disk' = [disk EXCEPT ![Dest][Part] = disk[From][Part], ![From][Part] = "none"]
  /\ Onward
  /\ UNCHANGED <<journal, before, archive, spoiled, bounds>>

\* No rename across volumes, which only staged media can meet, or a rename that
\* fails: copyTree begins.
StartCopy ==
  /\ Moves /\ Due /\ moving = "no"
  /\ IF app = "stage" /\ Part \in Media THEN UNCHANGED faults ELSE Fault
  /\ disk' = [disk EXCEPT ![Dest][Part] = "part"]
  /\ moving' = "copying"
  /\ UNCHANGED <<journal, app, at, before, archive, spoiled, swaps, crashes>>

EndCopy ==
  /\ Moves /\ moving = "copying"
  /\ disk' = [disk EXCEPT ![Dest][Part] = disk[From][Part]]
  /\ moving' = "removing"
  /\ UNCHANGED <<journal, app, at, before, archive, spoiled, bounds>>

CopyFails ==
  /\ Moves /\ moving = "copying"
  /\ Fault
  /\ disk' = [disk EXCEPT ![Dest][Part] = "none"]
  /\ Fails
  /\ UNCHANGED <<journal, before, archive, swaps, crashes>>

\* A folder goes file by file.
StartRemoval ==
  /\ Moves /\ moving = "removing" /\ Part \in Media /\ disk[From][Part] # "part"
  /\ disk' = [disk EXCEPT ![From][Part] = "part"]
  /\ UNCHANGED <<journal, app, at, moving, before, archive, spoiled, bounds>>

EndRemoval ==
  /\ Moves /\ moving = "removing" /\ (Part \in Media => disk[From][Part] = "part")
  /\ disk' = [disk EXCEPT ![From][Part] = "none"]
  /\ Onward
  /\ UNCHANGED <<journal, before, archive, spoiled, bounds>>

RemovalFails ==
  /\ Moves /\ moving = "removing"
  /\ Fault
  /\ Fails
  /\ UNCHANGED <<disk, journal, before, archive, swaps, crashes>>

-----------------------------------------------------------------------------
(* The end of the swap, rollbackRestore and forgetAsideFolders.            *)

\* The last move is made: the journal says so, and what is left of the
\* staging folder goes.
MarkActivated ==
  /\ app = "aside" /\ at = Len(Plan) + 1
  /\ journal' = [journal EXCEPT !.state = "activated"]
  /\ disk' = [disk EXCEPT !["staged"] = Profile("none", {})]
  /\ To("opening", 0)
  /\ UNCHANGED <<before, archive, spoiled, bounds>>

MarkFails ==
  /\ app = "aside" /\ at = Len(Plan) + 1
  /\ Fault
  /\ To("clear", Len(Plan))
  /\ UNCHANGED <<disk, journal, before, archive, spoiled, swaps, crashes>>

\* The core answers on the new profile, or does not and it is undone.
CoreOpens ==
  /\ app = "opening"
  /\ To("running", 0)
  /\ UNCHANGED <<disk, journal, before, archive, spoiled, bounds>>

CoreDoesNotOpen ==
  /\ app = "opening"
  /\ To("clear", Len(Plan))
  /\ UNCHANGED <<disk, journal, before, archive, spoiled, bounds>>

\* Mutation: a part that was never moved aside is cleared like the others.
Mutant_ClearLive ==
  /\ app = "clear" /\ at \in DOMAIN Plan
  /\ disk' = [disk EXCEPT !["live"][Part] = "none"]
  /\ IF Part \in journal.existed THEN To("back", at) ELSE To("clear", at - 1)
  /\ UNCHANGED <<journal, before, archive, spoiled, bounds>>

\* rollbackRestore, backwards over the moves: a part that was never moved aside
\* stays, any other is removed, and what was before is put back.
ClearLive ==
  LET existed == Part \in journal.existed IN
  /\ app = "clear" /\ at \in DOMAIN Plan
  /\ IF existed /\ ~Has("previous") THEN UNCHANGED disk
     ELSE disk' = [disk EXCEPT !["live"][Part] = "none"]
  /\ IF existed /\ Has("previous") THEN To("back", at) ELSE To("clear", at - 1)
  /\ UNCHANGED <<journal, before, archive, spoiled, bounds>>

ClearFails ==
  /\ app = "clear" /\ at \in DOMAIN Plan
  /\ Fault
  /\ Fails
  /\ UNCHANGED <<disk, journal, before, archive, swaps, crashes>>

RolledBack ==
  /\ app = "clear" /\ at = 0
  /\ disk' = [disk EXCEPT !["previous"] = Profile("none", {})]
  /\ journal' = NoJournal
  /\ To("running", 0)
  /\ UNCHANGED <<before, archive, spoiled, bounds>>

\* The journal cannot be removed, and the core is started on what is back.
RolledBackFails ==
  /\ app = "clear" /\ at = 0
  /\ Fault
  /\ Fails
  /\ UNCHANGED <<disk, journal, before, archive, swaps, crashes>>

\* keepRestore: the previous profile goes, part by part, then the journal.
Forget ==
  /\ app = "forget" /\ at \in DOMAIN Plan
  /\ disk' = [disk EXCEPT !["previous"][Part] = "none"]
  /\ To("forget", at + 1)
  /\ UNCHANGED <<journal, before, archive, spoiled, bounds>>

Kept ==
  /\ app = "forget" /\ at = Len(Plan) + 1
  /\ journal' = NoJournal
  /\ To("running", 0)
  /\ UNCHANGED <<disk, before, archive, spoiled, bounds>>

-----------------------------------------------------------------------------
(* The core at work, the end of the process and the next start.            *)

\* The core creates its store if there is none; its log comes and goes.
CoreWrites ==
  LET db == IF disk["live"]["db"] = "none" THEN "empty" ELSE disk["live"]["db"] IN
  /\ app \in {"running", "opening"}
  /\ \E log \in {"none", db} :
       disk' = [disk EXCEPT !["live"]["db"] = db, !["live"]["wal"] = log]
  /\ UNCHANGED <<journal, app, at, moving, before, archive, spoiled, bounds>>

Crash ==
  /\ app # "off" /\ crashes < MaxCrashes
  /\ crashes' = crashes + 1
  /\ To("off", 0)
  /\ spoiled' = (spoiled \/ (journal.state = "activated" /\ app \in {"clear", "back", "forget"}))
  /\ UNCHANGED <<disk, journal, before, archive, swaps, faults>>

\* Mutation: the journal is not looked at.
Mutant_Startup ==
  /\ app = "off"
  /\ To("running", 0)
  /\ UNCHANGED <<disk, journal, before, archive, spoiled, bounds>>

\* recoverInterruptedRestore: only a swap cut short is rolled back.
Startup ==
  /\ app = "off"
  /\ IF journal.state = "swapping" THEN To("clear", Len(Plan)) ELSE To("running", 0)
  /\ UNCHANGED <<disk, journal, before, archive, spoiled, bounds>>

-----------------------------------------------------------------------------
Working ==
  \/ Skip \/ Rename \/ StartCopy \/ EndCopy \/ StartRemoval \/ EndRemoval
  \/ MarkActivated \/ CoreOpens \/ CoreDoesNotOpen
  \/ ClearLive \/ RolledBack \/ Forget \/ Kept

Failing == CopyFails \/ RemovalFails \/ MarkFails \/ ClearFails \/ RolledBackFails

Next ==
  \/ ActivateRestore \/ UndoProfileRestore \/ KeepRestore
  \/ Working \/ Failing \/ CoreWrites \/ Crash \/ Startup

Spec == Init /\ [][Next]_vars

\* File operations end, and the program is opened again.
FairSpec == Spec /\ WF_vars(Working) /\ WF_vars(Startup)

-----------------------------------------------------------------------------
(* Properties.                                                             *)

\* The type invariant of the folders, the journal and the desktop.
TypeOK ==
  /\ disk \in [Places -> [Parts -> Held]]
  /\ journal \in [state: {"none", "swapping", "activated"}, existed: SUBSET Parts]
  /\ app \in {"off", "running", "opening", "aside", "stage", "clear", "back", "forget"}
  /\ at \in 0 .. Len(Plan) + 1
  /\ app = "clear" => at <= Len(Plan)
  /\ app \in {"stage", "back"} => at \in DOMAIN Plan
  /\ moving \in {"no", "copying", "removing"}
  /\ before \in [Parts -> Held] /\ archive \in [Parts -> Held]
  /\ spoiled \in BOOLEAN
  /\ swaps \in Nat /\ crashes \in Nat /\ faults \in Nat

\* The live profile is whole: every part of it is of one profile, none missing.
Whole(l) ==
  /\ l["db"] \in {"old", "new"}
  /\ l["wal"] \in {"none", l["db"]}
  /\ \A p \in Media : l[p] = (IF l["db"] = before["db"] THEN before[p] ELSE archive[p])

\* While file operations work, the core never runs on half of each profile,
\* wherever a swap is cut short, as long as neither going back nor keeping is.
CoreSeesOneProfile ==
  app \in {"running", "opening"} /\ ~spoiled /\ faults = 0 => Whole(disk["live"])

\* Until the person keeps the restored profile, and while file operations work,
\* every part of the previous one, its log included, is intact in its place or
\* aside.
PreviousIsSafe ==
  journal.state # "none" /\ app # "forget" /\ ~spoiled /\ faults = 0 =>
    \A p \in journal.existed : before[p] \in {disk["live"][p], disk["previous"][p]}

\* What a swap left behind never turns into a profile with parts missing: an
\* activated profile is all of what the archive held.
ActivatedIsWhole ==
  app = "opening" => \A p \in Parts \ {"wal"} : disk["live"][p] = archive[p]

\* While file operations work, a swap cut short does not stay so, even when its
\* rollback is cut short too.
SwapSettles ==
  journal.state = "swapping" ~> (journal.state # "swapping" \/ faults > 0)

(***************************************************************************)
(* What the comments say and the code does not always do.                  *)
(***************************************************************************)

\* "so the app never opens half of each profile" (recoverInterruptedRestore).
NeverHalfOfEach ==
  app = "running" => Whole(disk["live"])

=============================================================================
