-------------------------- MODULE SecretsMigration --------------------------
(***************************************************************************)
(* One keychain entry on its move from the inherited service "meron" to    *)
(* "oreneta" (secrets_migration.rs).                                       *)
(*                                                                         *)
(* Reading, storing and deleting an entry hold the entry's lock, so one    *)
(* operation runs at a time; but each is several calls to the keychain,    *)
(* any of which may fail, and the process may end between any two.  What   *)
(* the run knows of the legacy copy is kept in memory only.  Entries do    *)
(* not share state, so one is enough.  Its value is an element of Blobs.   *)
(*                                                                         *)
(* The keychain behind CredentialStore (secrets.rs) is one of two.  macOS  *)
(* and Windows have their own for good.  On Linux it is the Secret Service *)
(* or the Secret portal until a call finds it unusable or gets no answer   *)
(* in time: then the whole process falls to a keyring file of its own, in  *)
(* which the entry is not, and the call is made there.  Once the file is   *)
(* written it is the keychain of every later run; if it never is, the next *)
(* run is back at the service.  Any call may also just fail, a write may   *)
(* be damaged on its way without an error, which is what the verification  *)
(* is for, and on Windows a delete that fails may leave an entry that can  *)
(* no longer be read.                                                      *)
(***************************************************************************)
EXTENDS Naturals

CONSTANTS
  Blobs,       \* values callers store; the good keys, for the database key
  MaxOps,      \* bound: operations
  MaxCrashes,  \* bound: ends of the process
  MaxFaults,   \* bound: keychain calls that fail, and falls to the local keyring
  MaxDamages   \* bound: writes damaged on their way

\* "none": no entry; "damaged": another value; "broken": reading it is an error.
Marks == {"none", "damaged", "broken"}

ASSUME BlobsAssumption == Blobs \cap (Marks \cup {"ok", "error"}) = {}
ASSUME MigrationBounds ==
  MaxOps \in Nat /\ MaxCrashes \in Nat /\ MaxFaults \in Nat /\ MaxDamages \in Nat

VARIABLES
  isKey,           \* the entry is the database key, asked for with db_key
  place,           \* the keychain in use
  oreneta, meron,  \* the entry under each service, in the keychain in use
  aside,           \* the same two in the service the run fell from
  legacy,          \* what this run knows of the legacy copy
  op,              \* the operation under way
  answer,          \* of the last operation
  wanted,          \* history: what callers may take the secret to be
  kept,            \* history: the keychain the secret was last stored in, or deleted from
  inherited,       \* history: what was only under "meron" at first
  ops, crashes, faults, damages

keychain == <<oreneta, meron>>
backend  == <<place, aside>>
bounds   == <<ops, crashes, faults, damages>>
vars     == <<isKey, keychain, backend, legacy, op, answer, wanted, kept, inherited, bounds>>

\* "fallen": at the local keyring, whose file is not written yet; "local": it is.
Places == {"native", "service", "fallen", "local"}

Nothing == [oreneta |-> "none", meron |-> "none"]

Legacy == {"unknown", "Gone", "Deferred", "Held", "Unverified"}

\* blob is the value in hand: read by a load, given to a store.
Op ==
  [kind: {"none", "load", "store", "delete", "db_key", "repair", "mint"},
   pc: {"idle", "shadow", "read", "retire", "fallback", "copy", "verify_copy", "remove_copy",
        "write", "check", "verify", "remove", "delete_legacy", "delete_both", "delete_rest",
        "other_key"},
   blob: Blobs \cup {"none", "damaged"}]

Idle == [kind |-> "none", pc |-> "idle", blob |-> "none"]

\* The inherited entry, a fresh install, one already moved, or two after a
\* downgrade.
Init ==
  /\ isKey \in BOOLEAN
  /\ place \in Places \ {"fallen"}
  /\ aside = Nothing
  /\ kept = place
  /\ meron \in Blobs \cup {"none"}
  /\ oreneta \in Blobs \cup {"none"}
  /\ legacy = "unknown"
  /\ op = Idle
  /\ answer = "ok"
  /\ wanted = {IF oreneta = "none" THEN meron ELSE oreneta}
  /\ inherited = IF oreneta = "none" THEN meron ELSE "none"
  /\ ops = 0 /\ crashes = 0 /\ faults = 0 /\ damages = 0

-----------------------------------------------------------------------------
(* The keychain in use.                                                    *)

Fault == faults < MaxFaults /\ faults' = faults + 1

\* A call answers r of an entry that holds x.
Reads(x, r) ==
  \/ r = x /\ x # "broken" /\ UNCHANGED faults
  \/ r = "error" /\ x = "broken" /\ UNCHANGED faults
  \/ r = "error" /\ Fault

\* A write of blob under "oreneta" succeeds or not; it makes the local keyring's
\* file.
Writes(blob, ok) ==
  /\ \/ ok /\ oreneta' = blob /\ UNCHANGED <<faults, damages>>
     \/ /\ ok /\ oreneta' = "damaged" /\ UNCHANGED faults
        /\ damages < MaxDamages /\ damages' = damages + 1
     \/ ~ok /\ Fault /\ UNCHANGED <<oreneta, damages>>
  /\ place' = IF ok /\ place = "fallen" THEN "local" ELSE place

\* A delete of an entry that holds x leaves y.
Deletes(x, y, ok) ==
  \/ ok /\ y = "none" /\ UNCHANGED faults
  \/ ~ok /\ Fault /\ y \in (IF x = "none" \/ place # "native" THEN {x} ELSE {x, "broken"})

Entry == Blobs \cup Marks
Reading == Entry \cup {"error"}

-----------------------------------------------------------------------------
(* Steps of an operation.                                                  *)

At(pc) == op.pc = pc

\* What the Secret Service is left with when the call under way gets no answer in
\* time: a write or a delete may have been carried out.
Abandoned ==
  {[oreneta |-> oreneta, meron |-> meron]}
  \cup (IF op.pc \in {"copy", "write"} THEN {[oreneta |-> op.blob, meron |-> meron]} ELSE {})
  \cup (IF op.pc \in {"remove_copy", "remove", "delete_rest"}
        THEN {[oreneta |-> "none", meron |-> meron]} ELSE {})
  \cup (IF op.pc \in {"delete_legacy", "delete_both"}
        THEN {[oreneta |-> oreneta, meron |-> "none"]} ELSE {})

\* with_service_fallback, force_local: a call, of this entry or of another, finds
\* the service unusable.  This entry's call, if there is one, is made anew at the
\* local keyring, which is empty as long as its file is not written.
Fall ==
  /\ place = "service"
  /\ Fault
  /\ place' = "fallen"
  /\ aside' \in Abandoned
  /\ oreneta' = "none" /\ meron' = "none"
  /\ UNCHANGED <<legacy, op, answer, wanted, kept, inherited, ops, crashes, damages>>

\* The local keyring's file is written, by a store of another entry or a delete.
LocalKeyringWritten ==
  /\ place = "fallen"
  /\ place' = "local"
  /\ UNCHANGED <<keychain, aside, legacy, op, answer, wanted, kept, inherited, bounds>>

Go(pc) == op' = [op EXCEPT !.pc = pc] /\ UNCHANGED <<answer, wanted>>
GoWith(pc, blob) == op' = [op EXCEPT !.pc = pc, !.blob = blob] /\ UNCHANGED <<answer, wanted>>

settle(state) == legacy' = state

\* The operation is over.  A store or a delete that worked settles what the
\* secret is; one that failed may or may not have taken effect.
Done(a) ==
  /\ op' = Idle
  /\ answer' = a
  /\ wanted' = CASE op.kind \in {"store", "mint"} /\ a # "error" -> {op.blob}
                 [] op.kind = "delete" /\ a # "error" -> {"none"}
                 [] OTHER -> wanted

\* A read answers its caller; for db_key, a bad key makes it look at the other
\* service, and no key makes it mint one.
LoadAnswers(v) ==
  IF op.kind = "load" \/ v \in Blobs \cup {"error"} THEN Done(v)
  ELSE IF v # "none" THEN Go("other_key")
  ELSE \E fresh \in Blobs \ {inherited} :
         /\ op' = [kind |-> "mint", pc |-> "write", blob |-> fresh]
         /\ wanted' = wanted \cup {fresh}
         /\ UNCHANGED answer

\* A store answers: a repair of the key answers the good key either way.
StoreAnswers(a) ==
  CASE op.kind = "repair" -> Done(op.blob)
    [] op.kind = "mint" /\ a = "ok" -> Done(op.blob)
    [] OTHER -> Done(a)

Starts(kind, pc, blob) ==
  /\ At("idle")
  /\ ops < MaxOps
  /\ ops' = ops + 1
  /\ op' = [kind |-> kind, pc |-> pc, blob |-> blob]
  /\ UNCHANGED <<keychain, backend, legacy, answer, kept, inherited, crashes, faults, damages>>

LoadFrom == IF legacy = "Unverified" THEN "shadow" ELSE "read"

\* load: by any caller, and by migrate_all for every entry at startup.
Load == ~isKey /\ Starts("load", LoadFrom, "none") /\ UNCHANGED wanted

Store(v) == ~isKey /\ Starts("store", "write", v) /\ wanted' = wanted \cup {v}

Delete == ~isKey /\ Starts("delete", "delete_both", "none") /\ wanted' = wanted \cup {"none"}

DbKey == isKey /\ Starts("db_key", LoadFrom, "none") /\ UNCHANGED wanted

\* A step that only reads an entry leaves the rest alone.
Looked == UNCHANGED <<keychain, backend, kept, inherited, ops, crashes, damages>>

-----------------------------------------------------------------------------
(* load_reporting, copy and retire.                                        *)

\* The copy in front is known bad: the legacy entry is served first.
ReadShadowed ==
  /\ At("shadow")
  /\ \E r \in Reading :
       /\ Reads(meron, r)
       /\ UNCHANGED legacy
       /\ IF r = "none" THEN Go("read") ELSE LoadAnswers(r)
  /\ Looked

ReadOreneta ==
  /\ At("read")
  /\ \E r \in Reading :
       /\ Reads(oreneta, r)
       /\ UNCHANGED legacy
       /\ CASE r = "error" -> LoadAnswers("error")
            [] r = "none" -> IF legacy = "Gone" THEN LoadAnswers("none") ELSE Go("fallback")
            [] OTHER -> IF legacy = "unknown" THEN GoWith("retire", r) ELSE LoadAnswers(r)
  /\ Looked

\* retire: a legacy copy of the same value goes, one of another value stays.
Retire ==
  /\ At("retire")
  /\ \E r \in Reading :
       /\ Reads(meron, r)
       /\ CASE r = "none" -> settle("Gone") /\ LoadAnswers(op.blob)
            [] r = op.blob -> Go("delete_legacy") /\ UNCHANGED legacy
            [] OTHER -> settle("Deferred") /\ LoadAnswers(op.blob)
  /\ Looked

ReadMeron ==
  /\ At("fallback")
  /\ \E r \in Reading :
       /\ Reads(meron, r)
       /\ CASE r = "error" -> /\ LoadAnswers("error")
                              /\ settle(IF legacy = "unknown" THEN "Deferred" ELSE legacy)
            [] r = "none" -> settle("Gone") /\ LoadAnswers("none")
            [] OTHER -> /\ IF legacy = "unknown" THEN GoWith("copy", r) ELSE LoadAnswers(r)
                        /\ UNCHANGED legacy
  /\ Looked

\* Mutation: the write is taken for done.
Mutant_WriteCopy ==
  /\ At("copy")
  /\ \E ok \in BOOLEAN : Writes(op.blob, ok)
  /\ Go("delete_legacy")
  /\ UNCHANGED <<meron, aside, legacy, kept, inherited, ops, crashes>>

\* copy, its three calls before the legacy entry goes.
WriteCopy ==
  /\ At("copy")
  /\ \/ Writes(op.blob, TRUE) /\ Go("verify_copy") /\ UNCHANGED legacy
     \/ Writes(op.blob, FALSE) /\ settle("Deferred") /\ LoadAnswers(op.blob)
  /\ UNCHANGED <<meron, aside, kept, inherited, ops, crashes>>

\* Mutation: the copy is not compared with what was written.
Mutant_VerifyCopy ==
  /\ At("verify_copy")
  /\ \E r \in Reading :
       /\ Reads(oreneta, r)
       /\ Go(IF r \in {"error", "none"} THEN "remove_copy" ELSE "delete_legacy") /\ UNCHANGED legacy
  /\ Looked

VerifyCopy ==
  /\ At("verify_copy")
  /\ \E r \in Reading :
       /\ Reads(oreneta, r)
       /\ Go(IF r = op.blob THEN "delete_legacy" ELSE "remove_copy") /\ UNCHANGED legacy
  /\ Looked

RemoveCopy ==
  /\ At("remove_copy")
  /\ \E ok \in BOOLEAN :
       /\ Deletes(oreneta, oreneta', ok)
       /\ settle(IF ok THEN "Deferred" ELSE "Unverified")
  /\ LoadAnswers(op.blob)
  /\ UNCHANGED <<meron, backend, kept, inherited, ops, crashes, damages>>

\* Mutation: a legacy entry that could not be deleted counts as gone.
Mutant_DeleteLegacy ==
  /\ At("delete_legacy")
  /\ \E ok \in BOOLEAN : Deletes(meron, meron', ok)
  /\ settle("Gone")
  /\ IF op.kind \in {"load", "db_key"} THEN LoadAnswers(op.blob) ELSE StoreAnswers("ok")
  /\ UNCHANGED <<oreneta, backend, kept, inherited, ops, crashes, damages>>

\* delete_legacy, at the end of a move, of a duplicate's removal and of a store.
DeleteLegacy ==
  LET reading == op.kind \in {"load", "db_key"} IN
  /\ At("delete_legacy")
  /\ \E ok \in BOOLEAN :
       /\ Deletes(meron, meron', ok)
       /\ settle(IF ok THEN "Gone" ELSE IF reading THEN "Deferred" ELSE "Held")
  /\ IF reading THEN LoadAnswers(op.blob) ELSE StoreAnswers("ok")
  /\ UNCHANGED <<oreneta, backend, kept, inherited, ops, crashes, damages>>

-----------------------------------------------------------------------------
(* store, delete and db_key.                                               *)

WriteEntry ==
  /\ At("write")
  /\ \/ /\ Writes(op.blob, TRUE)
        /\ kept' = place'
        /\ IF legacy \in {"Gone", "Held"} THEN StoreAnswers("ok") ELSE Go("check")
     \/ Writes(op.blob, FALSE) /\ UNCHANGED kept /\ StoreAnswers("error")
  /\ UNCHANGED <<meron, aside, legacy, inherited, ops, crashes>>

CheckLegacy ==
  /\ At("check")
  /\ \E r \in Reading :
       /\ Reads(meron, r)
       /\ CASE r = "none" -> settle("Gone") /\ StoreAnswers("ok")
            [] r = "error" -> settle("Held") /\ StoreAnswers("ok")
            [] OTHER -> Go("verify") /\ UNCHANGED legacy
  /\ Looked

\* A value that cannot be read back is trusted, a damaged one is not.
VerifyEntry ==
  /\ At("verify")
  /\ \E r \in Reading :
       /\ Reads(oreneta, r)
       /\ CASE r = op.blob -> Go("delete_legacy") /\ UNCHANGED legacy
            [] r = "error" -> settle("Held") /\ StoreAnswers("ok")
            [] OTHER -> Go("remove") /\ UNCHANGED legacy
  /\ Looked

RemoveEntry ==
  /\ At("remove")
  /\ \E ok \in BOOLEAN :
       /\ Deletes(oreneta, oreneta', ok)
       /\ settle(IF ok THEN "Held" ELSE "Unverified")
  /\ StoreAnswers("error")
  /\ UNCHANGED <<meron, backend, kept, inherited, ops, crashes, damages>>

\* Mutation: only the new entry is deleted.
Mutant_DeleteBoth ==
  /\ At("delete_both")
  /\ \/ Deletes(oreneta, oreneta', TRUE) /\ Go("delete_rest")
     \/ Deletes(oreneta, oreneta', FALSE) /\ Done("error")
  /\ UNCHANGED <<meron, backend, legacy, kept, inherited, ops, crashes, damages>>

\* delete: the legacy entry first; if that fails nothing else is touched.
DeleteBoth ==
  /\ At("delete_both")
  /\ \/ Deletes(meron, meron', TRUE) /\ settle("Gone") /\ Go("delete_rest")
     \/ Deletes(meron, meron', FALSE) /\ UNCHANGED legacy /\ Done("error")
  /\ UNCHANGED <<oreneta, backend, kept, inherited, ops, crashes, damages>>

DeleteRest ==
  /\ At("delete_rest")
  /\ \E ok \in BOOLEAN :
       /\ Deletes(oreneta, oreneta', ok)
       /\ Done(IF ok THEN "ok" ELSE "error")
       /\ kept' = IF ~ok THEN kept ELSE IF place = "fallen" THEN "nowhere" ELSE place
  /\ UNCHANGED <<meron, backend, legacy, inherited, ops, crashes, damages>>

\* Mutation: a bad key is replaced by a fresh one, the other service unasked.
Mutant_OtherKey ==
  /\ At("other_key")
  /\ \E r \in Reading :
       /\ Reads(meron, r)
       /\ UNCHANGED <<legacy, answer>>
       /\ \E fresh \in Blobs \ {inherited} :
            /\ op' = [kind |-> "mint", pc |-> "write", blob |-> fresh]
            /\ wanted' = wanted \cup {fresh}
  /\ Looked

\* db_key, with a bad key in hand: a good one under "meron" is used and copied
\* over it; otherwise one is minted.
OtherKey ==
  /\ At("other_key")
  /\ \E r \in Reading :
       /\ Reads(meron, r)
       /\ UNCHANGED legacy
       /\ CASE r = "error" -> Done("error")
            [] r \in Blobs -> /\ op' = [kind |-> "repair", pc |-> "write", blob |-> r]
                              /\ UNCHANGED <<answer, wanted>>
            [] OTHER -> \E fresh \in Blobs \ {inherited} :
                          /\ op' = [kind |-> "mint", pc |-> "write", blob |-> fresh]
                          /\ wanted' = wanted \cup {fresh}
                          /\ UNCHANGED answer
  /\ Looked

\* The process ends, and the next one knows nothing of the entry.  It begins at the
\* service again, unless local_keyring_exists.
Crash ==
  /\ crashes < MaxCrashes
  /\ crashes' = crashes + 1
  /\ legacy' = "unknown"
  /\ op' = Idle
  /\ answer' = "ok"
  /\ IF place = "fallen"
     THEN place' = "service" /\ oreneta' = aside.oreneta /\ meron' = aside.meron /\ aside' = Nothing
     ELSE UNCHANGED <<keychain, backend>>
  /\ UNCHANGED <<wanted, kept, inherited, ops, faults, damages>>

-----------------------------------------------------------------------------
Step ==
  \/ ReadShadowed \/ ReadOreneta \/ Retire \/ ReadMeron
  \/ WriteCopy \/ VerifyCopy \/ RemoveCopy \/ DeleteLegacy
  \/ WriteEntry \/ CheckLegacy \/ VerifyEntry \/ RemoveEntry
  \/ DeleteBoth \/ DeleteRest \/ OtherKey

Next ==
  /\ Load \/ (\E v \in Blobs : Store(v)) \/ Delete \/ DbKey \/ Step
     \/ Fall \/ LocalKeyringWritten \/ Crash
  /\ UNCHANGED isKey

Spec == Init /\ [][Next]_vars

-----------------------------------------------------------------------------
(* Properties.                                                             *)

\* The type invariant of the two entries, the operation and the counters.
TypeOK ==
  /\ isKey \in BOOLEAN
  /\ place \in Places
  /\ oreneta \in Entry /\ meron \in Entry
  /\ aside \in [oreneta: Entry, meron: Entry]
  /\ legacy \in Legacy
  /\ op \in Op
  /\ answer \in Blobs \cup {"none", "damaged", "ok", "error"}
  /\ wanted \subseteq Blobs \cup {"none"}
  /\ kept \in {"native", "service", "local", "nowhere"}
  /\ inherited \in Blobs \cup {"none"}
  /\ ops \in Nat /\ crashes \in Nat /\ faults \in Nat /\ damages \in Nat

\* The secret is not in the keychain in use: it was left in the service the run fell
\* from, or was deleted at a local keyring that was never written.
Astray == kept = "nowhere" \/ (kept = "service" /\ place # "service")

\* An intact legacy entry goes only when its value, or the one a store replaced
\* it with, is under "oreneta" in the same keychain at that moment, or when the
\* secret is deleted: whatever calls fail or get no answer, writes are damaged,
\* and runs are cut short.  A fall to the local keyring leaves it where it is.
LegacyGoesBehindACopy ==
  [][(meron \in Blobs /\ meron \notin {meron', aside'.meron} /\ op.kind # "delete") =>
        /\ oreneta = op.blob
        /\ op.kind \in {"load", "db_key"} => oreneta = meron]_vars

\* What the run takes for gone is gone from the keychain in use, across a fall
\* too, so no stale legacy value comes back in this run when the entry under
\* "oreneta" is removed.  (The service the run fell from may still hold one.)
GoneIsGone ==
  legacy = "Gone" => meron = "none"

\* As long as writes are not damaged, a read answers the last value stored, or
\* that there is none after a delete, or an error; never an older value.  A fall
\* to the local keyring suspends it, until the secret is stored or deleted there
\* for good or a later run is back at the service that holds it.
AnswersLatest ==
  damages = 0 /\ ~Astray /\ At("idle") /\ answer \in Blobs \cup {"none"} => answer \in wanted

\* As long as writes are not damaged, the secret is under one of the services, in
\* the keychain in use or in the one the run fell from.
SecretSurvives ==
  damages = 0 /\ At("idle") /\ "none" \notin wanted =>
    \E v \in wanted : v \in {oreneta, meron, aside.oreneta, aside.meron}

\* The database key that was under "meron" alone is never lost, even when writes
\* are damaged; and unless the run fell from the service that holds it, it is in
\* the keychain in use and db_key answers it or an error, and mints no other.
InheritedKeyKept ==
  isKey /\ inherited # "none" =>
    \/ inherited \in {aside.oreneta, aside.meron}
    \/ inherited \in {oreneta, meron} /\ answer \in {inherited, "ok", "error"}

=============================================================================
