------------------------ MODULE SecretsMigration_proofs ------------------------
(***************************************************************************)
(* Theorems about the move of a keychain entry, for any set of values and  *)
(* any number of operations, failed calls, damaged writes and ends of the  *)
(* process.  They rest on one inductive invariant: what an operation holds *)
(* in hand at each of its keychain calls, and what the two entries are to  *)
(* the callers, with and without damage.                                   *)
(***************************************************************************)
EXTENDS SecretsMigration, TLAPS

-----------------------------------------------------------------------------
(* The inductive invariant.                                                *)

Reader == {"load", "db_key"}
Writer == {"store", "repair", "mint"}

\* The run fell from the service, and the secret was not stored since.
Away == place \in {"fallen", "local"} /\ kept # place

\* Which operation is at which call, that the legacy entry is never written, and
\* where the secret can have been left.
Shape ==
  /\ meron # "damaged" /\ aside.meron # "damaged"
  /\ isKey => op.kind \in {"none", "db_key", "repair", "mint"}
  /\ op.pc \in {"shadow", "read", "retire", "fallback", "copy", "verify_copy", "remove_copy",
                "other_key"} => op.kind \in Reader
  /\ op.pc \in {"write", "check", "verify", "remove"} => op.kind \in Writer /\ op.blob \in Blobs
  /\ op.pc = "delete_legacy" => op.kind \in Reader \cup Writer
  /\ op.pc \in {"delete_both", "delete_rest"} => op.kind = "delete"
  /\ op.pc = "delete_rest" => meron = "none"
  /\ op.pc = "shadow" => legacy = "Unverified"
  /\ place = "native" <=> kept = "native"
  /\ kept = "local" => place = "local"
  /\ place \in {"native", "service"} => aside = Nothing
  /\ Away => meron = "none"

\* What the value in hand is, between two calls, unless the run fell meanwhile.
InHand ==
  /\ op.pc = "retire" => op.blob # "none" /\ (oreneta = op.blob \/ Away)
  /\ op.pc = "fallback" => oreneta = "none"
  /\ op.pc \in {"copy", "verify_copy", "remove_copy"} =>
       op.blob \in Blobs /\ (meron = op.blob \/ Away)
  /\ op.pc = "delete_legacy" =>
       /\ op.blob \in Blobs
       /\ Away \/ (oreneta = op.blob /\ (op.kind \in Reader => meron = op.blob))

\* Without a damaged write: where the secret was last stored, be it the keychain in
\* use or the service the run fell from, the entries a read can answer from hold
\* what callers may take the secret to be, and one of them holds it.
Undamaged ==
  damages = 0 =>
    /\ oreneta # "damaged" /\ aside.oreneta # "damaged" /\ op.blob # "damaged"
    /\ op.pc # "other_key" /\ op.kind # "repair"
    /\ op.pc = "write" => op.blob \in wanted
    /\ op.kind = "delete" \/ kept = "nowhere" => "none" \in wanted
    /\ op.kind \in Writer /\ op.pc # "write" => kept # "nowhere"
    /\ ~Astray =>
         /\ oreneta \in Blobs => oreneta \in wanted
         /\ oreneta = "none" /\ meron \in Blobs \cup {"none"} => meron \in wanted
         /\ legacy = "Unverified" /\ meron \in Blobs
              /\ op.pc \notin {"check", "verify", "delete_legacy"} => meron \in wanted
         /\ op.pc \in {"copy", "verify_copy", "remove_copy"} => op.blob \in wanted
         /\ op.pc \in {"check", "verify"} => oreneta = op.blob
         /\ op.pc # "remove"
         /\ "none" \notin wanted => \E v \in wanted : v \in {oreneta, meron}
    /\ kept = "service" /\ place # "service" =>
         /\ aside.oreneta \in Blobs => aside.oreneta \in wanted
         /\ aside.oreneta = "none" /\ aside.meron \in Blobs \cup {"none"} => aside.meron \in wanted
         /\ op.kind \in Writer /\ op.pc \in {"check", "verify", "delete_legacy"} =>
              aside.oreneta = op.blob
         /\ "none" \notin wanted => \E v \in wanted : v \in {aside.oreneta, aside.meron}

\* Even with damaged writes: the database key that was under "meron" alone is under
\* one of the services in the keychain the run fell from; or the run did not fall, it
\* is in the keychain in use, nothing but it was ever written, and none was minted.
KeyKept ==
  isKey /\ inherited # "none" =>
    \/ /\ inherited \in {aside.oreneta, aside.meron}
       /\ aside.oreneta \in {inherited, "none", "damaged", "broken"}
       /\ aside.meron \in {inherited, "none", "broken"}
    \/ /\ ~Away
       /\ oreneta \in {inherited, "none", "damaged", "broken"}
       /\ meron \in {inherited, "none", "broken"}
       /\ inherited \in {oreneta, meron}
       /\ answer \in {inherited, "ok", "error"}
       /\ op.kind # "mint"
       /\ op.pc = "other_key" => meron = inherited
       /\ op.kind = "repair" =>
            /\ op.blob = inherited
            /\ op.pc \in {"write", "check", "verify", "remove"} => meron = inherited

IInv ==
  TypeOK /\ Shape /\ InHand /\ GoneIsGone /\ AnswersLatest /\ Undamaged /\ KeyKept

-----------------------------------------------------------------------------
(* What the operators of a step leave behind.                              *)

\* The marks are no values.
LEMMA MarksAreNoBlobs ==
  \A v \in Blobs : v \notin {"none", "damaged", "broken", "ok", "error"}
BY BlobsAssumption DEF Marks

\* A call that reads answers what the entry holds, or an error.
LEMMA ReadsAnswers ==
  ASSUME NEW x, NEW r, Reads(x, r), faults \in Nat
  PROVE  faults' \in Nat /\ (r = "error" \/ (r = x /\ x # "broken"))
BY DEF Reads, Fault

\* A delete that worked leaves nothing, one that did not leaves the entry or a
\* broken one, and makes none where there was none.
LEMMA DeletesLeaves ==
  ASSUME NEW x, NEW y, NEW ok \in BOOLEAN, Deletes(x, y, ok), faults \in Nat
  PROVE  /\ faults' \in Nat
         /\ ok => y = "none"
         /\ ~ok => y = x \/ (x # "none" /\ y = "broken")
BY DEF Deletes, Fault

\* A read that is answered ends the operation, or sends db_key on to the other
\* service or to mint.
LEMMA LoadAnswersCases ==
  ASSUME NEW v, LoadAnswers(v), op.kind \in Reader
  PROVE  \/ /\ op.kind = "load" \/ v \in Blobs \cup {"error"}
            /\ op' = Idle /\ answer' = v /\ wanted' = wanted
         \/ /\ op.kind = "db_key" /\ v \notin Blobs \cup {"error", "none"}
            /\ op' = [op EXCEPT !.pc = "other_key"] /\ answer' = answer /\ wanted' = wanted
         \/ /\ op.kind = "db_key" /\ v = "none" /\ answer' = answer
            /\ \E fresh \in Blobs \ {inherited} :
                 /\ op' = [kind |-> "mint", pc |-> "write", blob |-> fresh]
                 /\ wanted' = wanted \cup {fresh}
BY DEF LoadAnswers, Done, Go, Reader

\* A store that is answered ends the operation, and what it stored is the secret
\* if it worked; a repair leaves that as it was.
LEMMA StoreAnswersCases ==
  ASSUME NEW a \in {"ok", "error"}, StoreAnswers(a), op.kind \in Writer, op.blob \in Blobs
  PROVE  /\ op' = Idle
         /\ answer' = IF op.kind = "repair" \/ (op.kind = "mint" /\ a = "ok") THEN op.blob ELSE a
         /\ wanted' = IF op.kind # "repair" /\ a = "ok" THEN {op.blob} ELSE wanted
BY MarksAreNoBlobs DEF StoreAnswers, Done, Writer

-----------------------------------------------------------------------------
(* The first state, and one lemma per action.                              *)

\* Nothing is under way, and the callers take what a read would answer.
LEMMA InitIInv == Init => IInv
<1> USE MarksAreNoBlobs, MigrationBounds DEF Init, Idle, Places, Nothing, Away, Astray
<1>1. Init => TypeOK
  BY DEF TypeOK, Op, Entry, Marks, Legacy
<1>2. Init => Shape /\ InHand /\ GoneIsGone
  BY DEF Shape, InHand, GoneIsGone, Reader, Writer
<1>3. Init => AnswersLatest /\ Undamaged
  BY DEF AnswersLatest, Undamaged, At
<1>4. Init => KeyKept
  BY DEF KeyKept
<1> QED
  BY <1>1, <1>2, <1>3, <1>4 DEF IInv

\* An operation begins with nothing in hand but what it stores.
LEMMA StartIInv ==
  ASSUME IInv, Load \/ (\E v \in Blobs : Store(v)) \/ Delete \/ DbKey, UNCHANGED isKey
  PROVE  IInv'
<1> USE MarksAreNoBlobs DEF IInv, TypeOK, Op, Idle, Entry, Marks, Reading, Legacy, Reader, Writer,
        Places, Nothing, Away, Astray
<1>1. /\ op.pc = "idle" /\ ops' \in Nat
      /\ UNCHANGED <<oreneta, meron, place, aside, kept, legacy, answer, inherited, crashes, faults,
                     damages>>
  BY DEF Load, Store, Delete, DbKey, Starts, At, keychain, backend
<1>2. \/ op' = [kind |-> "load", pc |-> LoadFrom, blob |-> "none"] /\ ~isKey /\ wanted' = wanted
      \/ op' = [kind |-> "db_key", pc |-> LoadFrom, blob |-> "none"] /\ isKey /\ wanted' = wanted
      \/ /\ op' = [kind |-> "delete", pc |-> "delete_both", blob |-> "none"] /\ ~isKey
         /\ wanted' = wanted \cup {"none"}
      \/ \E v \in Blobs :
           /\ op' = [kind |-> "store", pc |-> "write", blob |-> v] /\ ~isKey
           /\ wanted' = wanted \cup {v}
  BY DEF Load, Store, Delete, DbKey, Starts
<1>3. LoadFrom \in {"shadow", "read"} /\ (LoadFrom = "shadow" => legacy = "Unverified")
  BY DEF LoadFrom
<1>4. TypeOK'
  BY <1>1, <1>2, <1>3 DEF Shape, InHand
<1>5. Shape'
  BY <1>1, <1>2, <1>3 DEF Shape, InHand
<1>6. InHand'
  BY <1>1, <1>2, <1>3 DEF Shape, InHand
<1>7. GoneIsGone'
  BY <1>1, <1>2, <1>3 DEF GoneIsGone, Shape
<1>8. AnswersLatest'
  BY <1>1, <1>2, <1>3 DEF AnswersLatest, Shape, InHand, GoneIsGone, Undamaged, At
<1>9. Undamaged'
  BY <1>1, <1>2, <1>3 DEF Shape, InHand, GoneIsGone, Undamaged
<1>10. KeyKept'
  BY <1>1, <1>2, <1>3 DEF Shape, InHand, GoneIsGone, KeyKept
<1> QED
  BY <1>4, <1>5, <1>6, <1>7, <1>8, <1>9, <1>10

\* A crash leaves the keychain as it is, or is back at the service the run fell from,
\* and forgets the rest.
LEMMA CrashIInv ==
  ASSUME IInv, Crash, UNCHANGED isKey
  PROVE  IInv'
<1> USE MarksAreNoBlobs DEF IInv, TypeOK, Op, Idle, Entry, Marks, Reading, Legacy, Reader, Writer,
        Places, Nothing, Away, Astray
<1>1. op' = Idle /\ answer' = "ok" /\ legacy' = "unknown" /\ crashes' \in Nat
  BY DEF Crash
<1>2. /\ UNCHANGED <<wanted, kept, inherited, ops, faults, damages>>
      /\ \/ /\ place = "fallen" /\ place' = "service" /\ aside' = Nothing
            /\ oreneta' = aside.oreneta /\ meron' = aside.meron
         \/ place # "fallen" /\ UNCHANGED <<oreneta, meron, place, aside>>
  BY DEF Crash, keychain, backend
<1>3. TypeOK'
  BY <1>1, <1>2 DEF Shape, InHand
<1>4. Shape'
  BY <1>1, <1>2 DEF Shape, InHand
<1>5. InHand'
  BY <1>1, <1>2 DEF Shape, InHand
<1>6. GoneIsGone'
  BY <1>1, <1>2 DEF GoneIsGone, Shape
<1>7. AnswersLatest'
  BY <1>1, <1>2 DEF AnswersLatest, Shape, InHand, GoneIsGone, Undamaged, At
<1>8. Undamaged'
  BY <1>1, <1>2 DEF Shape, InHand, GoneIsGone, Undamaged
<1>9. KeyKept'
  BY <1>1, <1>2 DEF Shape, InHand, GoneIsGone, KeyKept
<1> QED
  BY <1>3, <1>4, <1>5, <1>6, <1>7, <1>8, <1>9

\* A fall leaves the service as it was, or with the call under way carried out, and
\* what is in hand no longer is in the keychain in use.
LEMMA FallIInv ==
  ASSUME IInv, Fall, UNCHANGED isKey
  PROVE  IInv'
<1> USE MarksAreNoBlobs DEF IInv, TypeOK, Op, Idle, Entry, Marks, Reading, Legacy, Reader, Writer,
        Places, Nothing, Away, Astray
<1>1. /\ place = "service" /\ place' = "fallen" /\ faults' \in Nat
      /\ oreneta' = "none" /\ meron' = "none"
      /\ UNCHANGED <<legacy, op, answer, wanted, kept, inherited, ops, crashes, damages>>
  BY DEF Fall, Fault
<1>2. \/ aside' = [oreneta |-> oreneta, meron |-> meron]
      \/ op.pc \in {"copy", "write"} /\ aside' = [oreneta |-> op.blob, meron |-> meron]
      \/ /\ op.pc \in {"remove_copy", "remove", "delete_rest"}
         /\ aside' = [oreneta |-> "none", meron |-> meron]
      \/ /\ op.pc \in {"delete_legacy", "delete_both"}
         /\ aside' = [oreneta |-> oreneta, meron |-> "none"]
  BY DEF Fall, Abandoned
<1>3. TypeOK'
  BY <1>1, <1>2 DEF Shape, InHand
<1>4. Shape'
  BY <1>1, <1>2 DEF Shape, InHand
<1>5. InHand'
  BY <1>1, <1>2 DEF Shape, InHand
<1>6. GoneIsGone'
  BY <1>1, <1>2 DEF GoneIsGone, Shape
<1>7. AnswersLatest'
  BY <1>1, <1>2 DEF AnswersLatest, Shape, InHand, GoneIsGone, Undamaged, At
<1>8. Undamaged'
  BY <1>1, <1>2 DEF Shape, InHand, GoneIsGone, Undamaged
<1>9. KeyKept'
  BY <1>1, <1>2 DEF Shape, InHand, GoneIsGone, KeyKept
<1> QED
  BY <1>3, <1>4, <1>5, <1>6, <1>7, <1>8, <1>9

\* The local keyring's file is written, and the run stays away from the service.
LEMMA LocalKeyringWrittenIInv ==
  ASSUME IInv, LocalKeyringWritten, UNCHANGED isKey
  PROVE  IInv'
<1> USE MarksAreNoBlobs DEF IInv, TypeOK, Op, Idle, Entry, Marks, Reading, Legacy, Reader, Writer,
        Places, Nothing, Away, Astray
<1>1. /\ place = "fallen" /\ place' = "local"
      /\ UNCHANGED <<oreneta, meron, aside, legacy, op, answer, wanted, kept, inherited, ops, crashes,
                     faults, damages>>
  BY DEF LocalKeyringWritten, keychain, bounds
<1>2. TypeOK'
  BY <1>1 DEF Shape, InHand
<1>3. Shape'
  BY <1>1 DEF Shape, InHand
<1>4. InHand'
  BY <1>1 DEF Shape, InHand
<1>5. GoneIsGone'
  BY <1>1 DEF GoneIsGone, Shape
<1>6. AnswersLatest'
  BY <1>1 DEF AnswersLatest, Shape, At
<1>7. Undamaged'
  BY <1>1 DEF Shape, Undamaged
<1>8. KeyKept'
  BY <1>1 DEF Shape, KeyKept
<1> QED
  BY <1>2, <1>3, <1>4, <1>5, <1>6, <1>7, <1>8

\* A shadowed read answers the legacy entry, which is the secret while the copy in
\* front of it is unverified.
LEMMA ReadShadowedIInv ==
  ASSUME IInv, ReadShadowed, UNCHANGED isKey
  PROVE  IInv'
<1> USE MarksAreNoBlobs DEF IInv, TypeOK, Op, Idle, Entry, Marks, Reading, Legacy, Reader, Writer,
        Places, Nothing, Away, Astray
<1>1. PICK r \in Reading : Reads(meron, r) /\ IF r = "none" THEN Go("read") ELSE LoadAnswers(r)
  BY DEF ReadShadowed
<1>2. UNCHANGED <<legacy, oreneta, meron, place, aside, kept, inherited, ops, crashes, damages>>
  BY DEF ReadShadowed, Looked, keychain, backend
<1>3. op.kind \in Reader /\ op.pc = "shadow"
  BY DEF ReadShadowed, At, Shape
<1>4. r = "none" => op' = [op EXCEPT !.pc = "read"] /\ UNCHANGED <<answer, wanted>>
  BY <1>1 DEF Go
<1>5. TypeOK'
  BY <1>1, <1>2, <1>3, <1>4, ReadsAnswers, LoadAnswersCases DEF Shape, InHand
<1>6. Shape'
  BY <1>1, <1>2, <1>3, <1>4, ReadsAnswers, LoadAnswersCases DEF Shape, InHand
<1>7. InHand'
  BY <1>1, <1>2, <1>3, <1>4, ReadsAnswers, LoadAnswersCases DEF Shape, InHand
<1>8. GoneIsGone'
  BY <1>1, <1>2, <1>3, <1>4, ReadsAnswers, LoadAnswersCases DEF GoneIsGone, Shape
<1>9. AnswersLatest'
  BY <1>1, <1>2, <1>3, <1>4, ReadsAnswers, LoadAnswersCases
     DEF AnswersLatest, Shape, InHand, GoneIsGone, Undamaged, At
<1>10. Undamaged'
  BY <1>1, <1>2, <1>3, <1>4, ReadsAnswers, LoadAnswersCases DEF Shape, InHand, GoneIsGone, Undamaged
<1>11. KeyKept'
  BY <1>1, <1>2, <1>3, <1>4, ReadsAnswers, LoadAnswersCases DEF Shape, InHand, GoneIsGone, KeyKept
<1> QED
  BY <1>5, <1>6, <1>7, <1>8, <1>9, <1>10, <1>11

\* A read of the new entry answers it, takes it in hand, or falls back.
LEMMA ReadOrenetaIInv ==
  ASSUME IInv, ReadOreneta, UNCHANGED isKey
  PROVE  IInv'
<1> USE MarksAreNoBlobs DEF IInv, TypeOK, Op, Idle, Entry, Marks, Reading, Legacy, Reader, Writer,
        Places, Nothing, Away, Astray
<1>1. op.kind \in Reader /\ op.pc = "read"
  BY DEF ReadOreneta, At, Shape
<1>2. PICK r \in Reading :
        /\ Reads(oreneta, r)
        /\ \/ /\ r \notin {"error", "none"} /\ UNCHANGED <<answer, wanted>>
              /\ op' = [kind |-> op.kind, pc |-> "retire", blob |-> r]
           \/ /\ r = "none" /\ UNCHANGED <<answer, wanted>>
              /\ op' = [kind |-> op.kind, pc |-> "fallback", blob |-> op.blob]
           \/ (r = "none" => legacy = "Gone") /\ LoadAnswers(r)
  BY DEF ReadOreneta, Go, GoWith
<1>3. UNCHANGED <<legacy, oreneta, meron, place, aside, kept, inherited, ops, crashes, damages>>
  BY DEF ReadOreneta, Looked, keychain, backend
<1>4. TypeOK'
  BY <1>1, <1>2, <1>3, ReadsAnswers, LoadAnswersCases DEF Shape, InHand
<1>5. Shape'
  BY <1>1, <1>2, <1>3, ReadsAnswers, LoadAnswersCases DEF Shape, InHand
<1>6. InHand'
  BY <1>1, <1>2, <1>3, ReadsAnswers, LoadAnswersCases DEF Shape, InHand
<1>7. GoneIsGone'
  BY <1>1, <1>2, <1>3, ReadsAnswers, LoadAnswersCases DEF GoneIsGone, Shape
<1>8. AnswersLatest'
  BY <1>1, <1>2, <1>3, ReadsAnswers, LoadAnswersCases
     DEF AnswersLatest, Shape, InHand, GoneIsGone, Undamaged, At
<1>9. Undamaged'
  BY <1>1, <1>2, <1>3, ReadsAnswers, LoadAnswersCases DEF Shape, InHand, GoneIsGone, Undamaged
<1>10. KeyKept'
  BY <1>1, <1>2, <1>3, ReadsAnswers, LoadAnswersCases DEF Shape, InHand, GoneIsGone, KeyKept
<1> QED
  BY <1>4, <1>5, <1>6, <1>7, <1>8, <1>9, <1>10

\* A duplicate's removal begins only for the value in front of it.
LEMMA RetireIInv ==
  ASSUME IInv, Retire, UNCHANGED isKey
  PROVE  IInv'
<1> USE MarksAreNoBlobs DEF IInv, TypeOK, Op, Idle, Entry, Marks, Reading, Legacy, Reader, Writer,
        Places, Nothing, Away, Astray
<1>1. op.kind \in Reader /\ op.pc = "retire" /\ op.blob # "none" /\ (oreneta = op.blob \/ Away)
  BY DEF Retire, At, Shape, InHand
<1>2. PICK r \in Reading :
        /\ Reads(meron, r)
        /\ CASE r = "none" -> settle("Gone") /\ LoadAnswers(op.blob)
             [] r = op.blob -> Go("delete_legacy") /\ UNCHANGED legacy
             [] OTHER -> settle("Deferred") /\ LoadAnswers(op.blob)
  BY DEF Retire
<1>3. UNCHANGED <<oreneta, meron, place, aside, kept, inherited, ops, crashes, damages>>
  BY DEF Retire, Looked, keychain, backend
<1>4. \/ r = "none" /\ legacy' = "Gone" /\ LoadAnswers(op.blob)
      \/ r = op.blob /\ op' = [op EXCEPT !.pc = "delete_legacy"] /\ UNCHANGED <<answer, wanted, legacy>>
      \/ legacy' = "Deferred" /\ LoadAnswers(op.blob)
  BY <1>1, <1>2 DEF Go, settle
<1>5. TypeOK'
  BY <1>1, <1>2, <1>3, <1>4, ReadsAnswers, LoadAnswersCases DEF Shape, InHand
<1>6. Shape'
  BY <1>1, <1>2, <1>3, <1>4, ReadsAnswers, LoadAnswersCases DEF Shape, InHand
<1>7. InHand'
  BY <1>1, <1>2, <1>3, <1>4, ReadsAnswers, LoadAnswersCases DEF Shape, InHand
<1>8. GoneIsGone'
  BY <1>1, <1>2, <1>3, <1>4, ReadsAnswers, LoadAnswersCases DEF GoneIsGone, Shape
<1>9. AnswersLatest'
  BY <1>1, <1>2, <1>3, <1>4, ReadsAnswers, LoadAnswersCases
     DEF AnswersLatest, Shape, InHand, GoneIsGone, Undamaged, At
<1>10. Undamaged'
  BY <1>1, <1>2, <1>3, <1>4, ReadsAnswers, LoadAnswersCases DEF Shape, InHand, GoneIsGone, Undamaged
<1>11. KeyKept'
  BY <1>1, <1>2, <1>3, <1>4, ReadsAnswers, LoadAnswersCases DEF Shape, InHand, GoneIsGone, KeyKept
<1> QED
  BY <1>5, <1>6, <1>7, <1>8, <1>9, <1>10, <1>11

\* The legacy entry is answered, or taken in hand to be copied.
LEMMA ReadMeronIInv ==
  ASSUME IInv, ReadMeron, UNCHANGED isKey
  PROVE  IInv'
<1> USE MarksAreNoBlobs DEF IInv, TypeOK, Op, Idle, Entry, Marks, Reading, Legacy, Reader, Writer,
        Places, Nothing, Away, Astray
<1>1. op.kind \in Reader /\ op.pc = "fallback" /\ oreneta = "none"
  BY DEF ReadMeron, At, Shape, InHand
<1>2. PICK r \in Reading :
        /\ Reads(meron, r)
        /\ \/ r = "error" /\ legacy' \in {legacy, "Deferred"} /\ LoadAnswers(r)
           \/ r = "none" /\ legacy' = "Gone" /\ LoadAnswers(r)
           \/ r \notin {"none", "error"} /\ legacy' = legacy /\ LoadAnswers(r)
           \/ /\ r \notin {"none", "error"} /\ UNCHANGED <<legacy, answer, wanted>>
              /\ op' = [kind |-> op.kind, pc |-> "copy", blob |-> r]
  BY DEF ReadMeron, GoWith, settle
<1>3. UNCHANGED <<oreneta, meron, place, aside, kept, inherited, ops, crashes, damages>>
  BY DEF ReadMeron, Looked, keychain, backend
<1>4. TypeOK'
  BY <1>1, <1>2, <1>3, ReadsAnswers, LoadAnswersCases DEF Shape, InHand
<1>5. Shape'
  BY <1>1, <1>2, <1>3, ReadsAnswers, LoadAnswersCases DEF Shape, InHand
<1>6. InHand'
  BY <1>1, <1>2, <1>3, ReadsAnswers, LoadAnswersCases DEF Shape, InHand
<1>7. GoneIsGone'
  BY <1>1, <1>2, <1>3, ReadsAnswers, LoadAnswersCases DEF GoneIsGone, Shape
<1>8. AnswersLatest'
  BY <1>1, <1>2, <1>3, ReadsAnswers, LoadAnswersCases
     DEF AnswersLatest, Shape, InHand, GoneIsGone, Undamaged, At
<1>9. Undamaged'
  BY <1>1, <1>2, <1>3, ReadsAnswers, LoadAnswersCases DEF Shape, InHand, GoneIsGone, Undamaged
<1>10. KeyKept'
  BY <1>1, <1>2, <1>3, ReadsAnswers, LoadAnswersCases DEF Shape, InHand, GoneIsGone, KeyKept
<1> QED
  BY <1>4, <1>5, <1>6, <1>7, <1>8, <1>9, <1>10

\* The copy may be damaged: the legacy entry is still there.
LEMMA WriteCopyIInv ==
  ASSUME IInv, WriteCopy, UNCHANGED isKey
  PROVE  IInv'
<1> USE MarksAreNoBlobs DEF IInv, TypeOK, Op, Idle, Entry, Marks, Reading, Legacy, Reader, Writer,
        Places, Nothing, Away, Astray
<1>1. op.kind \in Reader /\ op.pc = "copy" /\ (meron = op.blob \/ Away) /\ op.blob \in Blobs
  BY DEF WriteCopy, At, Shape, InHand
<1>2. faults' \in Nat /\ damages' \in Nat /\ (damages' = 0 => damages = 0)
  BY DEF WriteCopy, Writes, Fault
<1>3. \/ /\ oreneta' = op.blob \/ (oreneta' = "damaged" /\ damages' # 0)
         /\ op' = [kind |-> op.kind, pc |-> "verify_copy", blob |-> op.blob]
         /\ UNCHANGED <<legacy, answer, wanted>>
      \/ oreneta' = oreneta /\ legacy' = "Deferred" /\ LoadAnswers(op.blob)
  BY DEF WriteCopy, Writes, Go, settle
<1>4. /\ UNCHANGED <<meron, aside, kept, inherited, ops, crashes>>
      /\ place' = place \/ (place = "fallen" /\ place' = "local")
  BY DEF WriteCopy, Writes
<1>5. TypeOK'
  BY <1>1, <1>2, <1>3, <1>4, LoadAnswersCases DEF Shape, InHand
<1>6. Shape'
  BY <1>1, <1>2, <1>3, <1>4, LoadAnswersCases DEF Shape, InHand
<1>7. InHand'
  BY <1>1, <1>2, <1>3, <1>4, LoadAnswersCases DEF Shape, InHand
<1>8. GoneIsGone'
  BY <1>1, <1>2, <1>3, <1>4, LoadAnswersCases DEF GoneIsGone, Shape
<1>9. AnswersLatest'
  BY <1>1, <1>2, <1>3, <1>4, LoadAnswersCases
     DEF AnswersLatest, Shape, InHand, GoneIsGone, Undamaged, At
<1>10. Undamaged'
  BY <1>1, <1>2, <1>3, <1>4, LoadAnswersCases DEF Shape, InHand, GoneIsGone, Undamaged
<1>11. KeyKept'
  BY <1>1, <1>2, <1>3, <1>4, LoadAnswersCases DEF Shape, InHand, GoneIsGone, KeyKept
<1> QED
  BY <1>5, <1>6, <1>7, <1>8, <1>9, <1>10, <1>11

\* Only a copy that was read back as it was written lets the legacy entry go.
LEMMA VerifyCopyIInv ==
  ASSUME IInv, VerifyCopy, UNCHANGED isKey
  PROVE  IInv'
<1> USE MarksAreNoBlobs DEF IInv, TypeOK, Op, Idle, Entry, Marks, Reading, Legacy, Reader, Writer,
        Places, Nothing, Away, Astray
<1>1. op.kind \in Reader /\ op.pc = "verify_copy" /\ (meron = op.blob \/ Away) /\ op.blob \in Blobs
  BY DEF VerifyCopy, At, Shape, InHand
<1>2. PICK r \in Reading :
        /\ Reads(oreneta, r)
        /\ op' = [op EXCEPT !.pc = IF r = op.blob THEN "delete_legacy" ELSE "remove_copy"]
  BY DEF VerifyCopy, Go
<1>3. UNCHANGED <<answer, wanted, legacy, oreneta, meron, place, aside, kept, inherited, ops, crashes,
                  damages>>
  BY DEF VerifyCopy, Go, Looked, keychain, backend
<1>4. TypeOK'
  BY <1>1, <1>2, <1>3, ReadsAnswers DEF Shape, InHand
<1>5. Shape'
  BY <1>1, <1>2, <1>3, ReadsAnswers DEF Shape, InHand
<1>6. InHand'
  BY <1>1, <1>2, <1>3, ReadsAnswers DEF Shape, InHand
<1>7. GoneIsGone'
  BY <1>1, <1>2, <1>3, ReadsAnswers DEF GoneIsGone, Shape
<1>8. AnswersLatest'
  BY <1>1, <1>2, <1>3, ReadsAnswers DEF AnswersLatest, Shape, InHand, GoneIsGone, Undamaged, At
<1>9. Undamaged'
  BY <1>1, <1>2, <1>3, ReadsAnswers DEF Shape, InHand, GoneIsGone, Undamaged
<1>10. KeyKept'
  BY <1>1, <1>2, <1>3, ReadsAnswers DEF Shape, InHand, GoneIsGone, KeyKept
<1> QED
  BY <1>4, <1>5, <1>6, <1>7, <1>8, <1>9, <1>10

\* A bad copy is taken back, and the legacy entry holds the secret.
LEMMA RemoveCopyIInv ==
  ASSUME IInv, RemoveCopy, UNCHANGED isKey
  PROVE  IInv'
<1> USE MarksAreNoBlobs DEF IInv, TypeOK, Op, Idle, Entry, Marks, Reading, Legacy, Reader, Writer,
        Places, Nothing, Away, Astray
<1>1. op.kind \in Reader /\ op.pc = "remove_copy" /\ (meron = op.blob \/ Away) /\ op.blob \in Blobs
  BY DEF RemoveCopy, At, Shape, InHand
<1>2. PICK ok \in BOOLEAN :
        Deletes(oreneta, oreneta', ok) /\ legacy' = IF ok THEN "Deferred" ELSE "Unverified"
  BY DEF RemoveCopy, settle
<1>3. LoadAnswers(op.blob) /\ UNCHANGED <<meron, place, aside, kept, inherited, ops, crashes, damages>>
  BY DEF RemoveCopy, backend
<1>4. TypeOK'
  BY <1>1, <1>2, <1>3, DeletesLeaves, LoadAnswersCases DEF Shape, InHand
<1>5. Shape'
  BY <1>1, <1>2, <1>3, DeletesLeaves, LoadAnswersCases DEF Shape, InHand
<1>6. InHand'
  BY <1>1, <1>2, <1>3, DeletesLeaves, LoadAnswersCases DEF Shape, InHand
<1>7. GoneIsGone'
  BY <1>1, <1>2, <1>3, DeletesLeaves, LoadAnswersCases DEF GoneIsGone, Shape
<1>8. AnswersLatest'
  BY <1>1, <1>2, <1>3, DeletesLeaves, LoadAnswersCases
     DEF AnswersLatest, Shape, InHand, GoneIsGone, Undamaged, At
<1>9. Undamaged'
  BY <1>1, <1>2, <1>3, DeletesLeaves, LoadAnswersCases DEF Shape, InHand, GoneIsGone, Undamaged
<1>10. KeyKept'
  BY <1>1, <1>2, <1>3, DeletesLeaves, LoadAnswersCases DEF Shape, InHand, GoneIsGone, KeyKept
<1> QED
  BY <1>4, <1>5, <1>6, <1>7, <1>8, <1>9, <1>10

\* The legacy entry goes when the value in hand is under "oreneta".
LEMMA DeleteLegacyIInv ==
  ASSUME IInv, DeleteLegacy, UNCHANGED isKey
  PROVE  IInv'
<1> USE MarksAreNoBlobs DEF IInv, TypeOK, Op, Idle, Entry, Marks, Reading, Legacy, Reader, Writer,
        Places, Nothing, Away, Astray
<1>1. /\ op.kind \in Reader \cup Writer /\ op.pc = "delete_legacy" /\ op.blob \in Blobs
      /\ oreneta = op.blob \/ Away
  BY DEF DeleteLegacy, At, Shape, InHand
<1>2. PICK ok \in BOOLEAN :
        /\ Deletes(meron, meron', ok)
        /\ legacy' = IF ok THEN "Gone" ELSE IF op.kind \in Reader THEN "Deferred" ELSE "Held"
  BY DEF DeleteLegacy, settle
<1>3. \/ op.kind \in Reader /\ LoadAnswers(op.blob)
      \/ op.kind \in Writer /\ StoreAnswers("ok")
  BY <1>1 DEF DeleteLegacy
<1>4. UNCHANGED <<oreneta, place, aside, kept, inherited, ops, crashes, damages>>
  BY DEF DeleteLegacy, backend
<1>5. TypeOK'
  BY <1>1, <1>2, <1>3, <1>4, DeletesLeaves, LoadAnswersCases, StoreAnswersCases DEF Shape, InHand
<1>6. Shape'
  BY <1>1, <1>2, <1>3, <1>4, DeletesLeaves, LoadAnswersCases, StoreAnswersCases DEF Shape, InHand
<1>7. InHand'
  BY <1>1, <1>2, <1>3, <1>4, DeletesLeaves, LoadAnswersCases, StoreAnswersCases DEF Shape, InHand
<1>8. GoneIsGone'
  BY <1>1, <1>2, <1>3, <1>4, DeletesLeaves, LoadAnswersCases, StoreAnswersCases
     DEF GoneIsGone, Shape
<1>9. AnswersLatest'
  BY <1>1, <1>2, <1>3, <1>4, DeletesLeaves, LoadAnswersCases, StoreAnswersCases
     DEF AnswersLatest, Shape, InHand, GoneIsGone, Undamaged, At
<1>10. Undamaged'
  BY <1>1, <1>2, <1>3, <1>4, DeletesLeaves, LoadAnswersCases, StoreAnswersCases
     DEF Shape, InHand, GoneIsGone, Undamaged
<1>11. KeyKept'
  BY <1>1, <1>2, <1>3, <1>4, DeletesLeaves, LoadAnswersCases, StoreAnswersCases
     DEF Shape, InHand, GoneIsGone, KeyKept
<1> QED
  BY <1>5, <1>6, <1>7, <1>8, <1>9, <1>10, <1>11

\* A store that worked is the secret, though it may be damaged.
LEMMA WriteEntryIInv ==
  ASSUME IInv, WriteEntry, UNCHANGED isKey
  PROVE  IInv'
<1> USE MarksAreNoBlobs DEF IInv, TypeOK, Op, Idle, Entry, Marks, Reading, Legacy, Reader, Writer,
        Places, Nothing, Away, Astray
<1>1. op.kind \in Writer /\ op.pc = "write" /\ op.blob \in Blobs
  BY DEF WriteEntry, At, Shape
<1>2. faults' \in Nat /\ damages' \in Nat /\ (damages' = 0 => damages = 0)
  BY DEF WriteEntry, Writes, Fault
<1>3. \/ /\ oreneta' = op.blob \/ (oreneta' = "damaged" /\ damages' # 0)
         /\ kept' = place' /\ legacy \in {"Gone", "Held"} /\ StoreAnswers("ok")
      \/ /\ oreneta' = op.blob \/ (oreneta' = "damaged" /\ damages' # 0)
         /\ op' = [kind |-> op.kind, pc |-> "check", blob |-> op.blob]
         /\ kept' = place' /\ UNCHANGED <<answer, wanted>>
      \/ UNCHANGED <<oreneta, place, kept>> /\ StoreAnswers("error")
  BY DEF WriteEntry, Writes, Go
<1>4. /\ UNCHANGED <<meron, aside, legacy, inherited, ops, crashes>>
      /\ \/ kept' = place' /\ place' = IF place = "fallen" THEN "local" ELSE place
         \/ UNCHANGED <<oreneta, place, kept>> /\ StoreAnswers("error")
  BY DEF WriteEntry, Writes
<1>5. TypeOK'
  BY <1>1, <1>2, <1>3, <1>4, StoreAnswersCases DEF Shape, InHand
<1>6. Shape'
  BY <1>1, <1>2, <1>3, <1>4, StoreAnswersCases DEF Shape, InHand
<1>7. InHand'
  BY <1>1, <1>2, <1>3, <1>4, StoreAnswersCases DEF Shape, InHand
<1>8. GoneIsGone'
  BY <1>1, <1>2, <1>3, <1>4, StoreAnswersCases DEF GoneIsGone, Shape
<1>9. AnswersLatest'
  BY <1>1, <1>2, <1>3, <1>4, StoreAnswersCases
     DEF AnswersLatest, Shape, InHand, GoneIsGone, Undamaged, At
<1>10. Undamaged'
  BY <1>1, <1>2, <1>3, <1>4, StoreAnswersCases DEF Shape, InHand, GoneIsGone, Undamaged
<1>11. KeyKept'
  BY <1>1, <1>2, <1>3, <1>4, StoreAnswersCases DEF Shape, InHand, GoneIsGone, KeyKept
<1> QED
  BY <1>5, <1>6, <1>7, <1>8, <1>9, <1>10, <1>11

\* With no legacy entry, or one that cannot be read, the store is over.
LEMMA CheckLegacyIInv ==
  ASSUME IInv, CheckLegacy, UNCHANGED isKey
  PROVE  IInv'
<1> USE MarksAreNoBlobs DEF IInv, TypeOK, Op, Idle, Entry, Marks, Reading, Legacy, Reader, Writer,
        Places, Nothing, Away, Astray
<1>1. op.kind \in Writer /\ op.pc = "check" /\ op.blob \in Blobs
  BY DEF CheckLegacy, At, Shape
<1>2. PICK r \in Reading :
        /\ Reads(meron, r)
        /\ \/ r = "none" /\ legacy' = "Gone" /\ StoreAnswers("ok")
           \/ r = "error" /\ legacy' = "Held" /\ StoreAnswers("ok")
           \/ op' = [op EXCEPT !.pc = "verify"] /\ UNCHANGED <<answer, wanted, legacy>>
  BY DEF CheckLegacy, Go, settle
<1>3. UNCHANGED <<oreneta, meron, place, aside, kept, inherited, ops, crashes, damages>>
  BY DEF CheckLegacy, Looked, keychain, backend
<1>4. TypeOK'
  BY <1>1, <1>2, <1>3, ReadsAnswers, StoreAnswersCases DEF Shape, InHand
<1>5. Shape'
  BY <1>1, <1>2, <1>3, ReadsAnswers, StoreAnswersCases DEF Shape, InHand
<1>6. InHand'
  BY <1>1, <1>2, <1>3, ReadsAnswers, StoreAnswersCases DEF Shape, InHand
<1>7. GoneIsGone'
  BY <1>1, <1>2, <1>3, ReadsAnswers, StoreAnswersCases DEF GoneIsGone, Shape
<1>8. AnswersLatest'
  BY <1>1, <1>2, <1>3, ReadsAnswers, StoreAnswersCases
     DEF AnswersLatest, Shape, InHand, GoneIsGone, Undamaged, At
<1>9. Undamaged'
  BY <1>1, <1>2, <1>3, ReadsAnswers, StoreAnswersCases DEF Shape, InHand, GoneIsGone, Undamaged
<1>10. KeyKept'
  BY <1>1, <1>2, <1>3, ReadsAnswers, StoreAnswersCases DEF Shape, InHand, GoneIsGone, KeyKept
<1> QED
  BY <1>4, <1>5, <1>6, <1>7, <1>8, <1>9, <1>10

\* Without damage, what is read back is what was written, or an error.
LEMMA VerifyEntryIInv ==
  ASSUME IInv, VerifyEntry, UNCHANGED isKey
  PROVE  IInv'
<1> USE MarksAreNoBlobs DEF IInv, TypeOK, Op, Idle, Entry, Marks, Reading, Legacy, Reader, Writer,
        Places, Nothing, Away, Astray
<1>1. op.kind \in Writer /\ op.pc = "verify" /\ op.blob \in Blobs
  BY DEF VerifyEntry, At, Shape
<1>2. PICK r \in Reading :
        /\ Reads(oreneta, r)
        /\ \/ /\ r = op.blob /\ op' = [op EXCEPT !.pc = "delete_legacy"]
              /\ UNCHANGED <<answer, wanted, legacy>>
           \/ r = "error" /\ legacy' = "Held" /\ StoreAnswers("ok")
           \/ /\ r \notin {op.blob, "error"}
              /\ op' = [op EXCEPT !.pc = "remove"] /\ UNCHANGED <<answer, wanted, legacy>>
  BY <1>1 DEF VerifyEntry, Go, settle
<1>3. UNCHANGED <<oreneta, meron, place, aside, kept, inherited, ops, crashes, damages>>
  BY DEF VerifyEntry, Looked, keychain, backend
<1>4. TypeOK'
  BY <1>1, <1>2, <1>3, ReadsAnswers, StoreAnswersCases DEF Shape, InHand
<1>5. Shape'
  BY <1>1, <1>2, <1>3, ReadsAnswers, StoreAnswersCases DEF Shape, InHand
<1>6. InHand'
  BY <1>1, <1>2, <1>3, ReadsAnswers, StoreAnswersCases DEF Shape, InHand
<1>7. GoneIsGone'
  BY <1>1, <1>2, <1>3, ReadsAnswers, StoreAnswersCases DEF GoneIsGone, Shape
<1>8. AnswersLatest'
  BY <1>1, <1>2, <1>3, ReadsAnswers, StoreAnswersCases
     DEF AnswersLatest, Shape, InHand, GoneIsGone, Undamaged, At
<1>9. Undamaged'
  BY <1>1, <1>2, <1>3, ReadsAnswers, StoreAnswersCases DEF Shape, InHand, GoneIsGone, Undamaged
<1>10. KeyKept'
  BY <1>1, <1>2, <1>3, ReadsAnswers, StoreAnswersCases DEF Shape, InHand, GoneIsGone, KeyKept
<1> QED
  BY <1>4, <1>5, <1>6, <1>7, <1>8, <1>9, <1>10

\* A damaged store is taken back, and the legacy entry stays.
LEMMA RemoveEntryIInv ==
  ASSUME IInv, RemoveEntry, UNCHANGED isKey
  PROVE  IInv'
<1> USE MarksAreNoBlobs DEF IInv, TypeOK, Op, Idle, Entry, Marks, Reading, Legacy, Reader, Writer,
        Places, Nothing, Away, Astray
<1>1. op.kind \in Writer /\ op.pc = "remove" /\ op.blob \in Blobs
  BY DEF RemoveEntry, At, Shape
<1>2. PICK ok \in BOOLEAN :
        Deletes(oreneta, oreneta', ok) /\ legacy' = IF ok THEN "Held" ELSE "Unverified"
  BY DEF RemoveEntry, settle
<1>3. StoreAnswers("error") /\ UNCHANGED <<meron, place, aside, kept, inherited, ops, crashes, damages>>
  BY DEF RemoveEntry, backend
<1>4. TypeOK'
  BY <1>1, <1>2, <1>3, DeletesLeaves, StoreAnswersCases DEF Shape, InHand
<1>5. Shape'
  BY <1>1, <1>2, <1>3, DeletesLeaves, StoreAnswersCases DEF Shape, InHand
<1>6. InHand'
  BY <1>1, <1>2, <1>3, DeletesLeaves, StoreAnswersCases DEF Shape, InHand
<1>7. GoneIsGone'
  BY <1>1, <1>2, <1>3, DeletesLeaves, StoreAnswersCases DEF GoneIsGone, Shape
<1>8. AnswersLatest'
  BY <1>1, <1>2, <1>3, DeletesLeaves, StoreAnswersCases
     DEF AnswersLatest, Shape, InHand, GoneIsGone, Undamaged, At
<1>9. Undamaged'
  BY <1>1, <1>2, <1>3, DeletesLeaves, StoreAnswersCases DEF Shape, InHand, GoneIsGone, Undamaged
<1>10. KeyKept'
  BY <1>1, <1>2, <1>3, DeletesLeaves, StoreAnswersCases DEF Shape, InHand, GoneIsGone, KeyKept
<1> QED
  BY <1>4, <1>5, <1>6, <1>7, <1>8, <1>9, <1>10

\* A delete takes the legacy entry first.
LEMMA DeleteBothIInv ==
  ASSUME IInv, DeleteBoth, UNCHANGED isKey
  PROVE  IInv'
<1> USE MarksAreNoBlobs DEF IInv, TypeOK, Op, Idle, Entry, Marks, Reading, Legacy, Reader, Writer,
        Places, Nothing, Away, Astray
<1>1. op.kind = "delete" /\ op.pc = "delete_both"
  BY DEF DeleteBoth, At, Shape
<1>2. faults' \in Nat
  BY DEF DeleteBoth, Deletes, Fault
<1>3. \/ /\ meron' = "none" /\ legacy' = "Gone" /\ UNCHANGED <<answer, wanted>>
         /\ op' = [kind |-> op.kind, pc |-> "delete_rest", blob |-> op.blob]
      \/ /\ meron' = meron \/ (meron # "none" /\ meron' = "broken")
         /\ op' = Idle /\ answer' = "error" /\ UNCHANGED <<legacy, wanted>>
  BY <1>1 DEF DeleteBoth, Deletes, Go, Done, settle
<1>4. UNCHANGED <<oreneta, place, aside, kept, inherited, ops, crashes, damages>>
  BY DEF DeleteBoth, backend
<1>5. TypeOK'
  BY <1>1, <1>2, <1>3, <1>4 DEF Shape, InHand
<1>6. Shape'
  BY <1>1, <1>2, <1>3, <1>4 DEF Shape, InHand
<1>7. InHand'
  BY <1>1, <1>2, <1>3, <1>4 DEF Shape, InHand
<1>8. GoneIsGone'
  BY <1>1, <1>2, <1>3, <1>4 DEF GoneIsGone, Shape
<1>9. AnswersLatest'
  BY <1>1, <1>2, <1>3, <1>4 DEF AnswersLatest, Shape, InHand, GoneIsGone, Undamaged, At
<1>10. Undamaged'
  BY <1>1, <1>2, <1>3, <1>4 DEF Shape, InHand, GoneIsGone, Undamaged
<1>11. KeyKept'
  BY <1>1, <1>2, <1>3, <1>4 DEF Shape, InHand, GoneIsGone, KeyKept
<1> QED
  BY <1>5, <1>6, <1>7, <1>8, <1>9, <1>10, <1>11

\* Then the new one, with the legacy entry gone.
LEMMA DeleteRestIInv ==
  ASSUME IInv, DeleteRest, UNCHANGED isKey
  PROVE  IInv'
<1> USE MarksAreNoBlobs DEF IInv, TypeOK, Op, Idle, Entry, Marks, Reading, Legacy, Reader, Writer,
        Places, Nothing, Away, Astray
<1>1. op.kind = "delete" /\ op.pc = "delete_rest" /\ meron = "none"
  BY DEF DeleteRest, At, Shape
<1>2. PICK ok \in BOOLEAN :
        /\ Deletes(oreneta, oreneta', ok) /\ op' = Idle
        /\ answer' = IF ok THEN "ok" ELSE "error"
        /\ wanted' = IF ok THEN {"none"} ELSE wanted
        /\ kept' = IF ~ok THEN kept ELSE IF place = "fallen" THEN "nowhere" ELSE place
  BY <1>1 DEF DeleteRest, Done
<1>3. UNCHANGED <<meron, legacy, place, aside, inherited, ops, crashes, damages>>
  BY DEF DeleteRest, backend
<1>4. TypeOK'
  BY <1>1, <1>2, <1>3, DeletesLeaves DEF Shape, InHand
<1>5. Shape'
  BY <1>1, <1>2, <1>3, DeletesLeaves DEF Shape, InHand
<1>6. InHand'
  BY <1>1, <1>2, <1>3, DeletesLeaves DEF Shape, InHand
<1>7. GoneIsGone'
  BY <1>1, <1>2, <1>3, DeletesLeaves DEF GoneIsGone, Shape
<1>8. AnswersLatest'
  BY <1>1, <1>2, <1>3, DeletesLeaves DEF AnswersLatest, Shape, InHand, GoneIsGone, Undamaged, At
<1>9. Undamaged'
  BY <1>1, <1>2, <1>3, DeletesLeaves DEF Shape, InHand, GoneIsGone, Undamaged
<1>10. KeyKept'
  BY <1>1, <1>2, <1>3, DeletesLeaves DEF Shape, InHand, GoneIsGone, KeyKept
<1> QED
  BY <1>4, <1>5, <1>6, <1>7, <1>8, <1>9, <1>10

\* A bad key: the inherited one is still under "meron" and is what is repaired with.
LEMMA OtherKeyIInv ==
  ASSUME IInv, OtherKey, UNCHANGED isKey
  PROVE  IInv'
<1> USE MarksAreNoBlobs DEF IInv, TypeOK, Op, Idle, Entry, Marks, Reading, Legacy, Reader, Writer,
        Places, Nothing, Away, Astray
<1>1. op.kind \in Reader /\ op.pc = "other_key"
  BY DEF OtherKey, At, Shape
<1>2. PICK r \in Reading :
        /\ Reads(meron, r)
        /\ \/ op' = Idle /\ answer' = "error" /\ wanted' = wanted
           \/ /\ r \in Blobs /\ op' = [kind |-> "repair", pc |-> "write", blob |-> r]
              /\ UNCHANGED <<answer, wanted>>
           \/ /\ r \notin Blobs \cup {"error"} /\ answer' = answer
              /\ \E fresh \in Blobs \ {inherited} :
                   /\ op' = [kind |-> "mint", pc |-> "write", blob |-> fresh]
                   /\ wanted' = wanted \cup {fresh}
  BY <1>1 DEF OtherKey, Done
<1>3. UNCHANGED <<legacy, oreneta, meron, place, aside, kept, inherited, ops, crashes, damages>>
  BY DEF OtherKey, Looked, keychain, backend
<1>4. TypeOK'
  BY <1>1, <1>2, <1>3, ReadsAnswers DEF Shape, InHand
<1>5. Shape'
  BY <1>1, <1>2, <1>3, ReadsAnswers DEF Shape, InHand
<1>6. InHand'
  BY <1>1, <1>2, <1>3, ReadsAnswers DEF Shape, InHand
<1>7. GoneIsGone'
  BY <1>1, <1>2, <1>3, ReadsAnswers DEF GoneIsGone, Shape
<1>8. AnswersLatest'
  BY <1>1, <1>2, <1>3, ReadsAnswers DEF AnswersLatest, Shape, InHand, GoneIsGone, Undamaged, At
<1>9. Undamaged'
  BY <1>1, <1>2, <1>3, ReadsAnswers DEF Shape, InHand, GoneIsGone, Undamaged
<1>10. KeyKept'
  BY <1>1, <1>2, <1>3, ReadsAnswers DEF Shape, InHand, GoneIsGone, KeyKept
<1> QED
  BY <1>4, <1>5, <1>6, <1>7, <1>8, <1>9, <1>10

-----------------------------------------------------------------------------
(* The theorems.                                                           *)

\* Every step keeps the invariant.
LEMMA NextIInv == IInv /\ [Next]_vars => IInv'
<1> SUFFICES ASSUME IInv, [Next]_vars PROVE IInv'
  OBVIOUS
<1>1. CASE UNCHANGED vars
  BY <1>1 DEF IInv, TypeOK, Shape, InHand, GoneIsGone, AnswersLatest, Undamaged, KeyKept, At,
              Away, Astray, vars, keychain, backend, bounds
<1>2. CASE Next
  <2>1. /\ UNCHANGED isKey
        /\ Load \/ (\E v \in Blobs : Store(v)) \/ Delete \/ DbKey \/ Step
           \/ Fall \/ LocalKeyringWritten \/ Crash
    BY <1>2 DEF Next
  <2>2. CASE Step
    BY <2>1, <2>2, ReadShadowedIInv, ReadOrenetaIInv, RetireIInv, ReadMeronIInv, WriteCopyIInv,
       VerifyCopyIInv, RemoveCopyIInv, DeleteLegacyIInv, WriteEntryIInv, CheckLegacyIInv,
       VerifyEntryIInv, RemoveEntryIInv, DeleteBothIInv, DeleteRestIInv, OtherKeyIInv DEF Step
  <2> QED
    BY <2>1, <2>2, StartIInv, FallIInv, LocalKeyringWrittenIInv, CrashIInv
<1> QED
  BY <1>1, <1>2

\* The inductive invariant holds throughout.
THEOREM SecretsInvariant == Spec => []IInv
BY InitIInv, NextIInv, PTL DEF Spec

\* The two entries, the operation and the counters keep their types.
THEOREM SecretsTypeCorrect == Spec => []TypeOK
<1>1. IInv => TypeOK
  BY DEF IInv
<1> QED
  BY <1>1, SecretsInvariant, PTL

\* What the run takes for gone is gone from the keychain in use, whatever deletes fail
\* (delete_legacy, delete) and whether or not the run falls to the local keyring.
THEOREM SecretsGoneIsGone == Spec => []GoneIsGone
<1>1. IInv => GoneIsGone
  BY DEF IInv
<1> QED
  BY <1>1, SecretsInvariant, PTL

\* Without a damaged write, load answers the last value stored or an error, across
\* failed calls and restarts, unless the run fell from the service that holds it.
THEOREM SecretsAnswersLatest == Spec => []AnswersLatest
<1>1. IInv => AnswersLatest
  BY DEF IInv
<1> QED
  BY <1>1, SecretsInvariant, PTL

\* Without a damaged write, the secret is under one of the services, in the keychain
\* in use or in the one the run fell from.
THEOREM SecretsSecretSurvives == Spec => []SecretSurvives
<1>1. IInv => SecretSurvives
  BY DEF IInv, TypeOK, Undamaged, SecretSurvives, Astray
<1> QED
  BY <1>1, SecretsInvariant, PTL

\* db_key never loses the inherited database key, even when writes are damaged, and
\* answers it or an error unless the run fell from the service that holds it.
THEOREM SecretsInheritedKeyKept == Spec => []InheritedKeyKept
<1>1. IInv => InheritedKeyKept
  BY DEF IInv, KeyKept, InheritedKeyKept
<1> QED
  BY <1>1, SecretsInvariant, PTL

\* A step that takes an intact legacy entry away, for anything but a delete, is taken
\* with the value in hand under "oreneta"; for a read that is the entry's own value.
THEOREM SecretsLegacyGoesBehindACopy == Spec => LegacyGoesBehindACopy
<1> DEFINE Goes == meron \in Blobs /\ meron \notin {meron', aside'.meron} /\ op.kind # "delete"
           Behind == oreneta = op.blob /\ (op.kind \in {"load", "db_key"} => oreneta = meron)
<1>1. ASSUME IInv, [Next]_vars PROVE Goes => Behind
  <2>1. CASE UNCHANGED vars
    BY <2>1 DEF vars, keychain
  <2>2. CASE Next
    <3>1. meron' # meron => DeleteLegacy \/ DeleteBoth \/ Fall \/ (Crash /\ place = "fallen")
      BY <2>2 DEF Next, Load, Store, Delete, DbKey, Starts, Crash, LocalKeyringWritten, Step,
         ReadShadowed, ReadOreneta, Retire, ReadMeron, WriteCopy, VerifyCopy, RemoveCopy, WriteEntry,
         CheckLegacy, VerifyEntry, RemoveEntry, DeleteRest, OtherKey, Looked, keychain, backend
    <3>2. DeleteLegacy /\ meron \in Blobs => Behind
      BY <1>1, MarksAreNoBlobs DEF DeleteLegacy, IInv, Shape, InHand, Reader, At
    <3>3. DeleteBoth => op.kind = "delete"
      BY <1>1 DEF DeleteBoth, IInv, Shape, At
    <3>4. Fall /\ Goes => Behind
      <4>1. Fall /\ Goes => op.pc = "delete_legacy" /\ place = "service"
        BY <1>1 DEF Fall, Abandoned, IInv, Shape
      <4> QED
        BY <1>1, <4>1 DEF IInv, InHand, Away, Reader
    <3>5. Crash /\ place = "fallen" => ~Goes
      BY <1>1, MarksAreNoBlobs DEF IInv, TypeOK, Shape, Away
    <3> QED
      BY <3>1, <3>2, <3>3, <3>4, <3>5
  <2> QED
    BY <1>1, <2>1, <2>2
<1>2. IInv /\ [Next]_vars => [Goes => Behind]_vars
  BY <1>1
<1>3. Spec => [][Goes => Behind]_vars
  BY <1>2, SecretsInvariant, PTL DEF Spec
<1> QED
  BY <1>3, PTL DEF LegacyGoesBehindACopy

=============================================================================
