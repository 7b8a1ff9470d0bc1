------------------------- MODULE ProfileRestore_proofs -------------------------
(***************************************************************************)
(* Theorems about swapping a restored profile in, for any number of        *)
(* requests, ends of the process and failing file operations.  They rest   *)
(* on one inductive invariant: where each part of the two profiles is, by  *)
(* how far the swap, the rollback or the keeping has come.                 *)
(***************************************************************************)
EXTENDS ProfileRestore, TLAPS

-----------------------------------------------------------------------------
(* The inductive invariant.  Parts are taken by their number in the plan.  *)

Live(k) == disk["live"][Plan[k]]
Prev(k) == disk["previous"][Plan[k]]
Stg(k)  == disk["staged"][Plan[k]]
Was(k)  == before[Plan[k]]
New(k)  == archive[Plan[k]]

Steps == 1 .. 4

\* Which step goes with which journal, and what an archive is.
Shape ==
  /\ archive["db"] = "new" /\ archive["wal"] = "none"
  /\ \A p \in Parts : archive[p] \in {"none", "new"}
  /\ journal.state # "none" => journal.existed = {p \in Parts : before[p] # "none"}
  /\ app \in {"aside", "stage"} => journal.state = "swapping" /\ at >= 1
  /\ app \in {"opening", "forget"} => journal.state = "activated"
  /\ app \in {"clear", "back"} => journal.state # "none"
  /\ app = "forget" => at >= 1
  /\ moving # "no" => app \in {"aside", "stage", "back"}
  /\ moving # "no" /\ app = "aside" => at \in Steps /\ Plan[at] \in journal.existed

\* A staged store is a sign that nothing was taken from the staging folder.
StagedWhole == Stg(1) = "none" \/ \A k \in Steps : Stg(k) = New(k)

\* The swap so far: the parts before this one are the archive's, the ones after it are
\* still staged and have nothing in their way but what was written down.
Progress ==
  app \in {"aside", "stage"} =>
    /\ at > 1 => Stg(1) = "none"
    /\ \A k \in Steps :
         /\ k < at => Live(k) = New(k)
         /\ k > at \/ (k = at /\ app = "aside") =>
              Stg(k) = New(k) /\ (Plan[k] \notin journal.existed => Live(k) = "none")
         /\ k = at /\ app = "stage" =>
              /\ moving = "no" => Live(k) = "none"
              /\ moving \in {"no", "copying"} => Stg(k) = New(k)
              /\ moving = "removing" => Live(k) = New(k)

\* No file operation has failed, and neither going back nor keeping was cut short.
Good == ~spoiled /\ faults = 0

LiveIsOld == Live(2) \in {"none", "old"} /\ \A k \in Steps \ {2} : Live(k) = Was(k)
LiveIsNew == Live(2) \in {"none", "new"} /\ \A k \in Steps \ {2} : Live(k) = New(k)

\* A part of the previous profile that was not moved, or is whole aside.
Safe(k) == (Live(k) = Was(k) /\ Prev(k) = "none") \/ Prev(k) = Was(k)

\* Between swaps, and with a profile restored.
AtRest ==
  /\ before["db"] = "old" /\ before["wal"] \in {"none", "old"}
  /\ app = "running" => journal.state # "swapping"
  /\ journal.state = "none" =>
       /\ app \in {"running", "off"}
       /\ \A k \in Steps : Prev(k) = "none"
       /\ LiveIsOld \/ (LiveIsNew /\ Stg(1) = "none")
  /\ journal.state = "activated" /\ app \in {"running", "off", "opening"} =>
       LiveIsNew /\ \A k \in Steps : Prev(k) = Was(k) /\ Stg(k) = "none"
  /\ app = "forget" =>
       LiveIsNew /\ Stg(1) = "none" /\ \A k \in Steps : k < at => Prev(k) = "none"

\* Within a swap or a rollback, also one that was cut short.
Underway ==
  /\ app \in {"aside", "stage"} =>
       \A k \in Steps :
         /\ k < at \/ (k = at /\ app = "stage") => Prev(k) = Was(k)
         /\ k > at \/ (k = at /\ app = "aside") => Live(k) = Was(k) /\ Prev(k) = "none"
  /\ app \in {"clear", "back"} =>
       \A k \in Steps :
         /\ k > at => Live(k) = Was(k) /\ Prev(k) = "none"
         /\ k <= at => Safe(k)
  /\ app = "back" => Prev(at) = Was(at) /\ Plan[at] \in journal.existed
  /\ app \in {"aside", "back"} => moving = "no"
  /\ app = "off" /\ journal.state = "swapping" => \A k \in Steps : Safe(k)

IInv ==
  /\ TypeOK /\ Shape /\ StagedWhole /\ Progress /\ ActivatedIsWhole
  /\ Good => AtRest
  /\ Good => Underway

-----------------------------------------------------------------------------
(* The plan and the folders.                                               *)

\* The plan has four different parts, the store first and its log second.
LEMMA PlanFacts ==
  /\ DOMAIN Plan = Steps /\ Len(Plan) = 4
  /\ Parts = {"db", "wal", "avatars", "wallpapers"}
  /\ Plan[1] = "db" /\ Plan[2] = "wal" /\ Plan[3] = "avatars" /\ Plan[4] = "wallpapers"
<1>1. /\ DOMAIN Plan = Steps /\ Len(Plan) = 4
      /\ Plan[1] = "db" /\ Plan[2] = "wal" /\ Plan[3] = "avatars" /\ Plan[4] = "wallpapers"
  BY DEF Plan, Steps
<1> QED
  BY <1>1 DEF Parts, Steps

\* Parts and their numbers are one to one.
LEMMA PlanIsOneToOne ==
  /\ \A k \in Steps : Plan[k] \in Parts
  /\ \A p \in Parts : \E k \in Steps : p = Plan[k]
  /\ \A j, k \in Steps : Plan[j] = Plan[k] => j = k
BY PlanFacts DEF Steps

-----------------------------------------------------------------------------
(* One lemma per action.                                                   *)

\* A part that is not there is passed over.
LEMMA SkipIInv ==
  ASSUME IInv, Skip
  PROVE  IInv'
<1> USE PlanFacts, PlanIsOneToOne DEF IInv, Steps, TypeOK, Held, Places, NoJournal
<1>1. UNCHANGED <<disk, journal, before, archive, spoiled, swaps, crashes, faults>>
  BY DEF Skip, bounds, Asked, To
<1>2. app \in {"aside", "stage", "back"} /\ at \in Steps
  BY DEF Skip, Moves
<1>3. moving = "no" /\ ~Due
  BY DEF Skip
<1>4. CASE app = "aside"
  <2>1. app' = "stage" /\ at' = at /\ moving' = "no" /\ Plan[at] \notin journal.existed
    BY <1>2, <1>3, <1>4 DEF Skip, Onward, To, Due, Part
  <2>2. TypeOK'
    BY <1>1, <1>2, <1>3, <1>4, <2>1
  <2>3. Shape'
    BY <1>1, <1>2, <1>3, <1>4, <2>1 DEF Shape
  <2>4. StagedWhole'
    BY <1>1, <1>2, <1>3, <1>4, <2>1 DEF Shape, StagedWhole, Progress, Stg, New
  <2>5. Progress'
    BY <1>1, <1>2, <1>3, <1>4, <2>1 DEF Shape, StagedWhole, Progress, Live, Stg, New
  <2>6. ActivatedIsWhole'
    BY <1>1, <1>2, <1>3, <1>4, <2>1 DEF ActivatedIsWhole, Progress, Shape, Live, New
  <2>7. (Good => AtRest)'
    BY <1>1, <1>2, <1>3, <1>4, <2>1
       DEF Good, Shape, StagedWhole, AtRest, Underway, Progress, LiveIsOld, LiveIsNew, Safe,
           Live, Prev, Stg, Was, New
  <2>8. (Good => Underway)'
    BY <1>1, <1>2, <1>3, <1>4, <2>1
       DEF Good, Shape, AtRest, Underway, Progress, LiveIsOld, LiveIsNew, Safe, Live, Prev, Stg,
           Was, New
  <2> QED
    BY <2>2, <2>3, <2>4, <2>5, <2>6, <2>7, <2>8
<1>5. CASE app = "stage"
  <2>1. app' = "aside" /\ at' = at + 1 /\ moving' = "no" /\ disk["staged"][Plan[at]] = "none"
    BY <1>2, <1>3, <1>5 DEF Skip, Onward, To, Due, Part, Has, From
  <2>2. TypeOK'
    BY <1>1, <1>2, <1>3, <1>5, <2>1
  <2>3. Shape'
    BY <1>1, <1>2, <1>3, <1>5, <2>1 DEF Shape
  <2>4. StagedWhole'
    BY <1>1, <1>2, <1>3, <1>5, <2>1 DEF Shape, StagedWhole, Progress, Stg, New
  <2>5. Progress'
    BY <1>1, <1>2, <1>3, <1>5, <2>1 DEF Shape, StagedWhole, Progress, Live, Stg, New
  <2>6. ActivatedIsWhole'
    BY <1>1, <1>2, <1>3, <1>5, <2>1 DEF ActivatedIsWhole, Progress, Shape, Live, New
  <2>7. (Good => AtRest)'
    BY <1>1, <1>2, <1>3, <1>5, <2>1
       DEF Good, Shape, StagedWhole, AtRest, Underway, Progress, LiveIsOld, LiveIsNew, Safe,
           Live, Prev, Stg, Was, New
  <2>8. (Good => Underway)'
    BY <1>1, <1>2, <1>3, <1>5, <2>1
       DEF Good, Shape, AtRest, Underway, Progress, LiveIsOld, LiveIsNew, Safe, Live, Prev, Stg,
           Was, New
  <2> QED
    BY <2>2, <2>3, <2>4, <2>5, <2>6, <2>7, <2>8
<1>6. CASE app = "back"
  <2>1. app' = "clear" /\ at' = at - 1 /\ moving' = "no" /\ disk["previous"][Plan[at]] = "none"
    BY <1>2, <1>3, <1>6 DEF Skip, Onward, To, Due, Part, Has, From
  <2>2. TypeOK'
    BY <1>1, <1>2, <1>3, <1>6, <2>1
  <2>3. Shape'
    BY <1>1, <1>2, <1>3, <1>6, <2>1 DEF Shape
  <2>4. StagedWhole'
    BY <1>1, <1>2, <1>3, <1>6, <2>1 DEF Shape, StagedWhole, Progress, Stg, New
  <2>5. Progress'
    BY <1>1, <1>2, <1>3, <1>6, <2>1 DEF Shape, StagedWhole, Progress, Live, Stg, New
  <2>6. ActivatedIsWhole'
    BY <1>1, <1>2, <1>3, <1>6, <2>1 DEF ActivatedIsWhole, Progress, Shape, Live, New
  <2>7. (Good => AtRest)'
    BY <1>1, <1>2, <1>3, <1>6, <2>1
       DEF Good, Shape, StagedWhole, AtRest, Underway, Progress, LiveIsOld, LiveIsNew, Safe,
           Live, Prev, Stg, Was, New
  <2>8. (Good => Underway)'
    BY <1>1, <1>2, <1>3, <1>6, <2>1
       DEF Good, Shape, AtRest, Underway, Progress, LiveIsOld, LiveIsNew, Safe, Live, Prev, Stg,
           Was, New
  <2> QED
    BY <2>2, <2>3, <2>4, <2>5, <2>6, <2>7, <2>8
<1> QED
  BY <1>2, <1>3, <1>4, <1>5, <1>6

\* A rename leaves the part where it was to go, and nothing where it was.
LEMMA RenameMoves ==
  ASSUME TypeOK, Rename
  PROVE  /\ disk' \in [Places -> [Parts -> Held]]
         /\ \A r \in Places, k \in Steps :
              disk'[r][Plan[k]] = IF r = Dest /\ k = at THEN disk[From][Plan[at]]
                                  ELSE IF r = From /\ k = at THEN "none" ELSE disk[r][Plan[k]]
<1>1. From \in Places /\ Dest \in Places /\ From # Dest /\ at \in Steps
  BY PlanFacts DEF Rename, Moves, From, Dest, Places
<1>2. disk' = [disk EXCEPT ![Dest][Plan[at]] = disk[From][Plan[at]], ![From][Plan[at]] = "none"]
  BY DEF Rename, Part
<1> DEFINE f == From
           d == Dest
<1>3. disk \in [Places -> [Parts -> Held]] /\ "none" \in Held /\ Plan[at] \in Parts
  BY <1>1, PlanIsOneToOne DEF TypeOK, Held
<1> HIDE DEF f, d
<1>4. /\ disk'[d] = [disk[d] EXCEPT ![Plan[at]] = disk[f][Plan[at]]]
      /\ disk'[f] = [disk[f] EXCEPT ![Plan[at]] = "none"]
      /\ \A r \in Places \ {d, f} : disk'[r] = disk[r]
      /\ DOMAIN disk' = Places
  BY <1>1, <1>2, <1>3 DEF f, d
<1>5. ASSUME NEW r \in Places PROVE disk'[r] \in [Parts -> Held]
  <2>1. disk[r] \in [Parts -> Held] /\ disk[f][Plan[at]] \in Held
    BY <1>1, <1>3 DEF f
  <2>2. CASE r = d
    BY <1>3, <1>4, <2>1, <2>2
  <2>3. CASE r = f
    BY <1>3, <1>4, <2>1, <2>3
  <2> QED
    BY <1>4, <2>1, <2>2, <2>3
<1>6. disk' \in [Places -> [Parts -> Held]]
  BY <1>2, <1>3, <1>5
<1>7. ASSUME NEW r \in Places, NEW k \in Steps
      PROVE  disk'[r][Plan[k]] = IF r = d /\ k = at THEN disk[f][Plan[at]]
                                 ELSE IF r = f /\ k = at THEN "none" ELSE disk[r][Plan[k]]
  <2>1. disk[r] \in [Parts -> Held] /\ Plan[k] \in Parts /\ (Plan[k] = Plan[at] <=> k = at)
    BY <1>1, <1>3, PlanIsOneToOne
  <2>2. f # d
    BY <1>1 DEF f, d
  <2>3. CASE r = d
    BY <1>3, <1>4, <2>1, <2>2, <2>3
  <2>4. CASE r = f
    BY <1>3, <1>4, <2>1, <2>2, <2>4
  <2> QED
    BY <1>4, <2>1, <2>2, <2>3, <2>4
<1> QED
  BY <1>6, <1>7 DEF f, d

\* A rename moves the part whole.
LEMMA RenameIInv ==
  ASSUME IInv, Rename
  PROVE  IInv'
<1> USE PlanFacts, PlanIsOneToOne DEF IInv, Steps, TypeOK, Held, Places, NoJournal
<1>1. UNCHANGED <<journal, before, archive, spoiled, swaps, crashes, faults>>
  BY DEF Rename, bounds, Asked, To
<1>2. app \in {"aside", "stage", "back"} /\ at \in Steps
  BY DEF Rename, Moves
<1>3. CASE app = "aside"
  <2>1. /\ disk' \in [Places -> [Parts -> Held]]
        /\ \A r \in Places, k \in Steps :
           disk'[r][Plan[k]] = IF r = "previous" /\ k = at THEN disk["live"][Plan[at]]
                               ELSE IF r = "live" /\ k = at THEN "none" ELSE disk[r][Plan[k]]
    BY <1>2, RenameMoves, <1>3 DEF From, Dest
  <2>2. app' = "stage" /\ at' = at /\ moving' = "no"
    BY <1>2, <1>3 DEF Rename, Onward, To
  <2>3. disk["live"][Plan[at]] # "none" \/ app = "aside"
    BY <1>3 DEF Rename, Due, Has, Part, From
  <2>4. moving = "no" /\ (app = "aside" => Plan[at] \in journal.existed)
    BY DEF Rename, Due, Part
  <2>5. TypeOK'
    BY <1>1, <1>2, <1>3, <2>1, <2>2, <2>3, <2>4
  <2>6. Shape'
    BY <1>1, <1>2, <1>3, <2>1, <2>2, <2>3, <2>4 DEF Shape
  <2>7. StagedWhole'
    BY <1>1, <1>2, <1>3, <2>1, <2>2, <2>3, <2>4 DEF Shape, StagedWhole, Progress, Stg, New
  <2>8. Progress'
    BY <1>1, <1>2, <1>3, <2>1, <2>2, <2>3, <2>4 DEF Shape, StagedWhole, Progress, Live, Stg, New
  <2>9. ActivatedIsWhole'
    BY <1>1, <1>2, <1>3, <2>1, <2>2, <2>3, <2>4 DEF ActivatedIsWhole, Progress, Shape, Live, New
  <2>10. (Good => AtRest)'
    BY <1>1, <1>2, <1>3, <2>1, <2>2, <2>3, <2>4
       DEF Good, Shape, StagedWhole, AtRest, Underway, Progress, LiveIsOld, LiveIsNew, Safe,
           Live, Prev, Stg, Was, New
  <2>11. (Good => Underway)'
    BY <1>1, <1>2, <1>3, <2>1, <2>2, <2>3, <2>4
       DEF Good, Shape, AtRest, Underway, Progress, LiveIsOld, LiveIsNew, Safe, Live, Prev, Stg,
           Was, New
  <2> QED
    BY <2>5, <2>6, <2>7, <2>8, <2>9, <2>10, <2>11
<1>4. CASE app = "stage"
  <2>1. /\ disk' \in [Places -> [Parts -> Held]]
        /\ \A r \in Places, k \in Steps :
           disk'[r][Plan[k]] = IF r = "live" /\ k = at THEN disk["staged"][Plan[at]]
                               ELSE IF r = "staged" /\ k = at THEN "none" ELSE disk[r][Plan[k]]
    BY <1>2, RenameMoves, <1>4 DEF From, Dest
  <2>2. app' = "aside" /\ at' = at + 1 /\ moving' = "no"
    BY <1>2, <1>4 DEF Rename, Onward, To
  <2>3. disk["staged"][Plan[at]] # "none" \/ app = "aside"
    BY <1>4 DEF Rename, Due, Has, Part, From
  <2>4. moving = "no" /\ (app = "aside" => Plan[at] \in journal.existed)
    BY DEF Rename, Due, Part
  <2>5. TypeOK'
    BY <1>1, <1>2, <1>4, <2>1, <2>2, <2>3, <2>4
  <2>6. Shape'
    BY <1>1, <1>2, <1>4, <2>1, <2>2, <2>3, <2>4 DEF Shape
  <2>7. StagedWhole'
    BY <1>1, <1>2, <1>4, <2>1, <2>2, <2>3, <2>4 DEF Shape, StagedWhole, Progress, Stg, New
  <2>8. Progress'
    BY <1>1, <1>2, <1>4, <2>1, <2>2, <2>3, <2>4 DEF Shape, StagedWhole, Progress, Live, Stg, New
  <2>9. ActivatedIsWhole'
    BY <1>1, <1>2, <1>4, <2>1, <2>2, <2>3, <2>4 DEF ActivatedIsWhole, Progress, Shape, Live, New
  <2>10. (Good => AtRest)'
    BY <1>1, <1>2, <1>4, <2>1, <2>2, <2>3, <2>4
       DEF Good, Shape, StagedWhole, AtRest, Underway, Progress, LiveIsOld, LiveIsNew, Safe,
           Live, Prev, Stg, Was, New
  <2>11. (Good => Underway)'
    BY <1>1, <1>2, <1>4, <2>1, <2>2, <2>3, <2>4
       DEF Good, Shape, AtRest, Underway, Progress, LiveIsOld, LiveIsNew, Safe, Live, Prev, Stg,
           Was, New
  <2> QED
    BY <2>5, <2>6, <2>7, <2>8, <2>9, <2>10, <2>11
<1>5. CASE app = "back"
  <2>1. /\ disk' \in [Places -> [Parts -> Held]]
        /\ \A r \in Places, k \in Steps :
           disk'[r][Plan[k]] = IF r = "live" /\ k = at THEN disk["previous"][Plan[at]]
                               ELSE IF r = "previous" /\ k = at THEN "none" ELSE disk[r][Plan[k]]
    BY <1>2, RenameMoves, <1>5 DEF From, Dest
  <2>2. app' = "clear" /\ at' = at - 1 /\ moving' = "no"
    BY <1>2, <1>5 DEF Rename, Onward, To
  <2>3. disk["previous"][Plan[at]] # "none" \/ app = "aside"
    BY <1>5 DEF Rename, Due, Has, Part, From
  <2>4. moving = "no" /\ (app = "aside" => Plan[at] \in journal.existed)
    BY DEF Rename, Due, Part
  <2>5. TypeOK'
    BY <1>1, <1>2, <1>5, <2>1, <2>2, <2>3, <2>4
  <2>6. Shape'
    BY <1>1, <1>2, <1>5, <2>1, <2>2, <2>3, <2>4 DEF Shape
  <2>7. StagedWhole'
    BY <1>1, <1>2, <1>5, <2>1, <2>2, <2>3, <2>4 DEF Shape, StagedWhole, Progress, Stg, New
  <2>8. Progress'
    BY <1>1, <1>2, <1>5, <2>1, <2>2, <2>3, <2>4 DEF Shape, StagedWhole, Progress, Live, Stg, New
  <2>9. ActivatedIsWhole'
    BY <1>1, <1>2, <1>5, <2>1, <2>2, <2>3, <2>4 DEF ActivatedIsWhole, Progress, Shape, Live, New
  <2>10. (Good => AtRest)'
    BY <1>1, <1>2, <1>5, <2>1, <2>2, <2>3, <2>4
       DEF Good, Shape, StagedWhole, AtRest, Underway, Progress, LiveIsOld, LiveIsNew, Safe,
           Live, Prev, Stg, Was, New
  <2>11. (Good => Underway)'
    BY <1>1, <1>2, <1>5, <2>1, <2>2, <2>3, <2>4
       DEF Good, Shape, AtRest, Underway, Progress, LiveIsOld, LiveIsNew, Safe, Live, Prev, Stg,
           Was, New
  <2> QED
    BY <2>5, <2>6, <2>7, <2>8, <2>9, <2>10, <2>11
<1> QED
  BY <1>2, <1>3, <1>4, <1>5

\* A move by copy begins; only staged media are copied without a failure.
LEMMA StartCopyIInv ==
  ASSUME IInv, StartCopy
  PROVE  IInv'
<1> USE PlanFacts, PlanIsOneToOne DEF IInv, Steps, TypeOK, Held, Places, NoJournal
<1>1. UNCHANGED <<journal, app, at, before, archive, spoiled, swaps, crashes>>
  BY DEF StartCopy, bounds, Asked, To
<1>2. app \in {"aside", "stage", "back"} /\ at \in Steps
  BY DEF StartCopy, Moves
<1>3. moving' = "copying" /\ moving = "no" /\ faults' \in Nat
  BY DEF StartCopy, Fault
<1>4. app # "stage" => faults' # 0
  BY DEF StartCopy, Fault
<1>5. faults' = 0 => faults = 0
  BY DEF StartCopy, Fault
<1>6. app = "aside" => Plan[at] \in journal.existed
  BY DEF StartCopy, Due, Part
<1>7. CASE app = "aside"
  <2>1. disk' = [disk EXCEPT !["previous"][Plan[at]] = "part"]
    BY <1>2, <1>7 DEF StartCopy, From, Dest, Part
  <2>2. /\ disk' \in [Places -> [Parts -> Held]]
        /\ \A r \in Places, k \in Steps :
           disk'[r][Plan[k]] = IF r = "previous" /\ k = at THEN "part" ELSE disk[r][Plan[k]]
    BY <1>2, <2>1
  <2>3. TypeOK'
    BY <1>1, <1>2, <1>3, <1>4, <1>5, <1>6, <1>7, <2>2
  <2>4. Shape'
    BY <1>1, <1>2, <1>3, <1>4, <1>5, <1>6, <1>7, <2>2 DEF Shape
  <2>5. StagedWhole'
    BY <1>1, <1>2, <1>3, <1>4, <1>5, <1>6, <1>7, <2>2 DEF Shape, StagedWhole, Progress, Stg, New
  <2>6. Progress'
    BY <1>1, <1>2, <1>3, <1>4, <1>5, <1>6, <1>7, <2>2
       DEF Shape, StagedWhole, Progress, Live, Stg, New
  <2>7. ActivatedIsWhole'
    BY <1>1, <1>2, <1>3, <1>4, <1>5, <1>6, <1>7, <2>2
       DEF ActivatedIsWhole, Progress, Shape, Live, New
  <2>8. (Good => AtRest)'
    BY <1>1, <1>2, <1>3, <1>4, <1>5, <1>6, <1>7, <2>2
       DEF Good, Shape, StagedWhole, AtRest, Underway, Progress, LiveIsOld, LiveIsNew, Safe,
           Live, Prev, Stg, Was, New
  <2>9. (Good => Underway)'
    BY <1>1, <1>2, <1>3, <1>4, <1>5, <1>6, <1>7, <2>2
       DEF Good, Shape, AtRest, Underway, Progress, LiveIsOld, LiveIsNew, Safe, Live, Prev, Stg,
           Was, New
  <2> QED
    BY <2>3, <2>4, <2>5, <2>6, <2>7, <2>8, <2>9
<1>8. CASE app = "stage"
  <2>1. disk' = [disk EXCEPT !["live"][Plan[at]] = "part"]
    BY <1>2, <1>8 DEF StartCopy, From, Dest, Part
  <2>2. /\ disk' \in [Places -> [Parts -> Held]]
        /\ \A r \in Places, k \in Steps :
           disk'[r][Plan[k]] = IF r = "live" /\ k = at THEN "part" ELSE disk[r][Plan[k]]
    BY <1>2, <2>1
  <2>3. TypeOK'
    BY <1>1, <1>2, <1>3, <1>4, <1>5, <1>6, <1>8, <2>2
  <2>4. Shape'
    BY <1>1, <1>2, <1>3, <1>4, <1>5, <1>6, <1>8, <2>2 DEF Shape
  <2>5. StagedWhole'
    BY <1>1, <1>2, <1>3, <1>4, <1>5, <1>6, <1>8, <2>2 DEF Shape, StagedWhole, Progress, Stg, New
  <2>6. Progress'
    BY <1>1, <1>2, <1>3, <1>4, <1>5, <1>6, <1>8, <2>2
       DEF Shape, StagedWhole, Progress, Live, Stg, New
  <2>7. ActivatedIsWhole'
    BY <1>1, <1>2, <1>3, <1>4, <1>5, <1>6, <1>8, <2>2
       DEF ActivatedIsWhole, Progress, Shape, Live, New
  <2>8. (Good => AtRest)'
    BY <1>1, <1>2, <1>3, <1>4, <1>5, <1>6, <1>8, <2>2
       DEF Good, Shape, StagedWhole, AtRest, Underway, Progress, LiveIsOld, LiveIsNew, Safe,
           Live, Prev, Stg, Was, New
  <2>9. (Good => Underway)'
    BY <1>1, <1>2, <1>3, <1>4, <1>5, <1>6, <1>8, <2>2
       DEF Good, Shape, AtRest, Underway, Progress, LiveIsOld, LiveIsNew, Safe, Live, Prev, Stg,
           Was, New
  <2> QED
    BY <2>3, <2>4, <2>5, <2>6, <2>7, <2>8, <2>9
<1>9. CASE app = "back"
  <2>1. disk' = [disk EXCEPT !["live"][Plan[at]] = "part"]
    BY <1>2, <1>9 DEF StartCopy, From, Dest, Part
  <2>2. /\ disk' \in [Places -> [Parts -> Held]]
        /\ \A r \in Places, k \in Steps :
           disk'[r][Plan[k]] = IF r = "live" /\ k = at THEN "part" ELSE disk[r][Plan[k]]
    BY <1>2, <2>1
  <2>3. TypeOK'
    BY <1>1, <1>2, <1>3, <1>4, <1>5, <1>6, <1>9, <2>2
  <2>4. Shape'
    BY <1>1, <1>2, <1>3, <1>4, <1>5, <1>6, <1>9, <2>2 DEF Shape
  <2>5. StagedWhole'
    BY <1>1, <1>2, <1>3, <1>4, <1>5, <1>6, <1>9, <2>2 DEF Shape, StagedWhole, Progress, Stg, New
  <2>6. Progress'
    BY <1>1, <1>2, <1>3, <1>4, <1>5, <1>6, <1>9, <2>2
       DEF Shape, StagedWhole, Progress, Live, Stg, New
  <2>7. ActivatedIsWhole'
    BY <1>1, <1>2, <1>3, <1>4, <1>5, <1>6, <1>9, <2>2
       DEF ActivatedIsWhole, Progress, Shape, Live, New
  <2>8. (Good => AtRest)'
    BY <1>1, <1>2, <1>3, <1>4, <1>5, <1>6, <1>9, <2>2
       DEF Good, Shape, StagedWhole, AtRest, Underway, Progress, LiveIsOld, LiveIsNew, Safe,
           Live, Prev, Stg, Was, New
  <2>9. (Good => Underway)'
    BY <1>1, <1>2, <1>3, <1>4, <1>5, <1>6, <1>9, <2>2
       DEF Good, Shape, AtRest, Underway, Progress, LiveIsOld, LiveIsNew, Safe, Live, Prev, Stg,
           Was, New
  <2> QED
    BY <2>3, <2>4, <2>5, <2>6, <2>7, <2>8, <2>9
<1> QED
  BY <1>2, <1>3, <1>4, <1>5, <1>6, <1>7, <1>8, <1>9

\* The copy is whole, and the part is still where it was.
LEMMA EndCopyIInv ==
  ASSUME IInv, EndCopy
  PROVE  IInv'
<1> USE PlanFacts, PlanIsOneToOne DEF IInv, Steps, TypeOK, Held, Places, NoJournal
<1>1. UNCHANGED <<journal, app, at, before, archive, spoiled, swaps, crashes, faults>>
  BY DEF EndCopy, bounds, Asked, To
<1>2. app \in {"aside", "stage", "back"} /\ at \in Steps
  BY DEF EndCopy, Moves
<1>3. moving' = "removing" /\ moving = "copying"
  BY DEF EndCopy
<1>4. CASE app = "aside"
  <2>1. disk' = [disk EXCEPT !["previous"][Plan[at]] = disk["live"][Plan[at]]]
    BY <1>2, <1>4 DEF EndCopy, From, Dest, Part
  <2>2. /\ disk' \in [Places -> [Parts -> Held]]
        /\ \A r \in Places, k \in Steps :
           disk'[r][Plan[k]] = IF r = "previous" /\ k = at THEN disk["live"][Plan[at]]
                               ELSE disk[r][Plan[k]]
    BY <1>2, <2>1
  <2>3. TypeOK'
    BY <1>1, <1>2, <1>3, <1>4, <2>2
  <2>4. Shape'
    BY <1>1, <1>2, <1>3, <1>4, <2>2 DEF Shape
  <2>5. StagedWhole'
    BY <1>1, <1>2, <1>3, <1>4, <2>2 DEF Shape, StagedWhole, Progress, Stg, New
  <2>6. Progress'
    BY <1>1, <1>2, <1>3, <1>4, <2>2 DEF Shape, StagedWhole, Progress, Live, Stg, New
  <2>7. ActivatedIsWhole'
    BY <1>1, <1>2, <1>3, <1>4, <2>2 DEF ActivatedIsWhole, Progress, Shape, Live, New
  <2>8. (Good => AtRest)'
    BY <1>1, <1>2, <1>3, <1>4, <2>2
       DEF Good, Shape, StagedWhole, AtRest, Underway, Progress, LiveIsOld, LiveIsNew, Safe,
           Live, Prev, Stg, Was, New
  <2>9. (Good => Underway)'
    BY <1>1, <1>2, <1>3, <1>4, <2>2
       DEF Good, Shape, AtRest, Underway, Progress, LiveIsOld, LiveIsNew, Safe, Live, Prev, Stg,
           Was, New
  <2> QED
    BY <2>3, <2>4, <2>5, <2>6, <2>7, <2>8, <2>9
<1>5. CASE app = "stage"
  <2>1. disk' = [disk EXCEPT !["live"][Plan[at]] = disk["staged"][Plan[at]]]
    BY <1>2, <1>5 DEF EndCopy, From, Dest, Part
  <2>2. /\ disk' \in [Places -> [Parts -> Held]]
        /\ \A r \in Places, k \in Steps :
           disk'[r][Plan[k]] = IF r = "live" /\ k = at THEN disk["staged"][Plan[at]]
                               ELSE disk[r][Plan[k]]
    BY <1>2, <2>1
  <2>3. TypeOK'
    BY <1>1, <1>2, <1>3, <1>5, <2>2
  <2>4. Shape'
    BY <1>1, <1>2, <1>3, <1>5, <2>2 DEF Shape
  <2>5. StagedWhole'
    BY <1>1, <1>2, <1>3, <1>5, <2>2 DEF Shape, StagedWhole, Progress, Stg, New
  <2>6. Progress'
    BY <1>1, <1>2, <1>3, <1>5, <2>2 DEF Shape, StagedWhole, Progress, Live, Stg, New
  <2>7. ActivatedIsWhole'
    BY <1>1, <1>2, <1>3, <1>5, <2>2 DEF ActivatedIsWhole, Progress, Shape, Live, New
  <2>8. (Good => AtRest)'
    BY <1>1, <1>2, <1>3, <1>5, <2>2
       DEF Good, Shape, StagedWhole, AtRest, Underway, Progress, LiveIsOld, LiveIsNew, Safe,
           Live, Prev, Stg, Was, New
  <2>9. (Good => Underway)'
    BY <1>1, <1>2, <1>3, <1>5, <2>2
       DEF Good, Shape, AtRest, Underway, Progress, LiveIsOld, LiveIsNew, Safe, Live, Prev, Stg,
           Was, New
  <2> QED
    BY <2>3, <2>4, <2>5, <2>6, <2>7, <2>8, <2>9
<1>6. CASE app = "back"
  <2>1. disk' = [disk EXCEPT !["live"][Plan[at]] = disk["previous"][Plan[at]]]
    BY <1>2, <1>6 DEF EndCopy, From, Dest, Part
  <2>2. /\ disk' \in [Places -> [Parts -> Held]]
        /\ \A r \in Places, k \in Steps :
           disk'[r][Plan[k]] = IF r = "live" /\ k = at THEN disk["previous"][Plan[at]]
                               ELSE disk[r][Plan[k]]
    BY <1>2, <2>1
  <2>3. TypeOK'
    BY <1>1, <1>2, <1>3, <1>6, <2>2
  <2>4. Shape'
    BY <1>1, <1>2, <1>3, <1>6, <2>2 DEF Shape
  <2>5. StagedWhole'
    BY <1>1, <1>2, <1>3, <1>6, <2>2 DEF Shape, StagedWhole, Progress, Stg, New
  <2>6. Progress'
    BY <1>1, <1>2, <1>3, <1>6, <2>2 DEF Shape, StagedWhole, Progress, Live, Stg, New
  <2>7. ActivatedIsWhole'
    BY <1>1, <1>2, <1>3, <1>6, <2>2 DEF ActivatedIsWhole, Progress, Shape, Live, New
  <2>8. (Good => AtRest)'
    BY <1>1, <1>2, <1>3, <1>6, <2>2
       DEF Good, Shape, StagedWhole, AtRest, Underway, Progress, LiveIsOld, LiveIsNew, Safe,
           Live, Prev, Stg, Was, New
  <2>9. (Good => Underway)'
    BY <1>1, <1>2, <1>3, <1>6, <2>2
       DEF Good, Shape, AtRest, Underway, Progress, LiveIsOld, LiveIsNew, Safe, Live, Prev, Stg,
           Was, New
  <2> QED
    BY <2>3, <2>4, <2>5, <2>6, <2>7, <2>8, <2>9
<1> QED
  BY <1>2, <1>3, <1>4, <1>5, <1>6

\* A copy that fails ends the swap, or the rollback.
LEMMA CopyFailsIInv ==
  ASSUME IInv, CopyFails
  PROVE  IInv'
<1> USE PlanFacts, PlanIsOneToOne DEF IInv, Steps, TypeOK, Held, Places, NoJournal
<1>1. UNCHANGED <<journal, before, archive, swaps, crashes>>
  BY DEF CopyFails, bounds, Asked, To
<1>2. app \in {"aside", "stage", "back"} /\ at \in Steps
  BY DEF CopyFails, Moves
<1>3. faults' \in Nat /\ faults' # 0
  BY DEF CopyFails, Fault
<1>4. \/ app \in {"aside", "stage"} /\ app' = "clear" /\ at' = 4 /\ spoiled' = spoiled
      \/ app = "back" /\ app' = "running" /\ at' = 0 /\ spoiled' = TRUE
  BY <1>2 DEF CopyFails, Fails, To
<1>5. moving' = "no"
  BY DEF CopyFails, Fails, To
<1>6. moving = "copying"
  BY DEF CopyFails
<1>7. CASE app = "aside"
  <2>1. disk' = [disk EXCEPT !["previous"][Plan[at]] = "none"]
    BY <1>2, <1>7 DEF CopyFails, From, Dest, Part
  <2>2. /\ disk' \in [Places -> [Parts -> Held]]
        /\ \A r \in Places, k \in Steps :
           disk'[r][Plan[k]] = IF r = "previous" /\ k = at THEN "none" ELSE disk[r][Plan[k]]
    BY <1>2, <2>1
  <2>3. TypeOK'
    BY <1>1, <1>2, <1>3, <1>4, <1>5, <1>6, <1>7, <2>2
  <2>4. Shape'
    BY <1>1, <1>2, <1>3, <1>4, <1>5, <1>6, <1>7, <2>2 DEF Shape
  <2>5. StagedWhole'
    BY <1>1, <1>2, <1>3, <1>4, <1>5, <1>6, <1>7, <2>2 DEF Shape, StagedWhole, Progress, Stg, New
  <2>6. Progress'
    BY <1>1, <1>2, <1>3, <1>4, <1>5, <1>6, <1>7, <2>2
       DEF Shape, StagedWhole, Progress, Live, Stg, New
  <2>7. ActivatedIsWhole'
    BY <1>1, <1>2, <1>3, <1>4, <1>5, <1>6, <1>7, <2>2
       DEF ActivatedIsWhole, Progress, Shape, Live, New
  <2>8. (Good => AtRest)'
    BY <1>1, <1>2, <1>3, <1>4, <1>5, <1>6, <1>7, <2>2
       DEF Good, Shape, StagedWhole, AtRest, Underway, Progress, LiveIsOld, LiveIsNew, Safe,
           Live, Prev, Stg, Was, New
  <2>9. (Good => Underway)'
    BY <1>1, <1>2, <1>3, <1>4, <1>5, <1>6, <1>7, <2>2
       DEF Good, Shape, AtRest, Underway, Progress, LiveIsOld, LiveIsNew, Safe, Live, Prev, Stg,
           Was, New
  <2> QED
    BY <2>3, <2>4, <2>5, <2>6, <2>7, <2>8, <2>9
<1>8. CASE app = "stage"
  <2>1. disk' = [disk EXCEPT !["live"][Plan[at]] = "none"]
    BY <1>2, <1>8 DEF CopyFails, From, Dest, Part
  <2>2. /\ disk' \in [Places -> [Parts -> Held]]
        /\ \A r \in Places, k \in Steps :
           disk'[r][Plan[k]] = IF r = "live" /\ k = at THEN "none" ELSE disk[r][Plan[k]]
    BY <1>2, <2>1
  <2>3. TypeOK'
    BY <1>1, <1>2, <1>3, <1>4, <1>5, <1>6, <1>8, <2>2
  <2>4. Shape'
    BY <1>1, <1>2, <1>3, <1>4, <1>5, <1>6, <1>8, <2>2 DEF Shape
  <2>5. StagedWhole'
    BY <1>1, <1>2, <1>3, <1>4, <1>5, <1>6, <1>8, <2>2 DEF Shape, StagedWhole, Progress, Stg, New
  <2>6. Progress'
    BY <1>1, <1>2, <1>3, <1>4, <1>5, <1>6, <1>8, <2>2
       DEF Shape, StagedWhole, Progress, Live, Stg, New
  <2>7. ActivatedIsWhole'
    BY <1>1, <1>2, <1>3, <1>4, <1>5, <1>6, <1>8, <2>2
       DEF ActivatedIsWhole, Progress, Shape, Live, New
  <2>8. (Good => AtRest)'
    BY <1>1, <1>2, <1>3, <1>4, <1>5, <1>6, <1>8, <2>2
       DEF Good, Shape, StagedWhole, AtRest, Underway, Progress, LiveIsOld, LiveIsNew, Safe,
           Live, Prev, Stg, Was, New
  <2>9. (Good => Underway)'
    BY <1>1, <1>2, <1>3, <1>4, <1>5, <1>6, <1>8, <2>2
       DEF Good, Shape, AtRest, Underway, Progress, LiveIsOld, LiveIsNew, Safe, Live, Prev, Stg,
           Was, New
  <2> QED
    BY <2>3, <2>4, <2>5, <2>6, <2>7, <2>8, <2>9
<1>9. CASE app = "back"
  <2>1. disk' = [disk EXCEPT !["live"][Plan[at]] = "none"]
    BY <1>2, <1>9 DEF CopyFails, From, Dest, Part
  <2>2. /\ disk' \in [Places -> [Parts -> Held]]
        /\ \A r \in Places, k \in Steps :
           disk'[r][Plan[k]] = IF r = "live" /\ k = at THEN "none" ELSE disk[r][Plan[k]]
    BY <1>2, <2>1
  <2>3. TypeOK'
    BY <1>1, <1>2, <1>3, <1>4, <1>5, <1>6, <1>9, <2>2
  <2>4. Shape'
    BY <1>1, <1>2, <1>3, <1>4, <1>5, <1>6, <1>9, <2>2 DEF Shape
  <2>5. StagedWhole'
    BY <1>1, <1>2, <1>3, <1>4, <1>5, <1>6, <1>9, <2>2 DEF Shape, StagedWhole, Progress, Stg, New
  <2>6. Progress'
    BY <1>1, <1>2, <1>3, <1>4, <1>5, <1>6, <1>9, <2>2
       DEF Shape, StagedWhole, Progress, Live, Stg, New
  <2>7. ActivatedIsWhole'
    BY <1>1, <1>2, <1>3, <1>4, <1>5, <1>6, <1>9, <2>2
       DEF ActivatedIsWhole, Progress, Shape, Live, New
  <2>8. (Good => AtRest)'
    BY <1>1, <1>2, <1>3, <1>4, <1>5, <1>6, <1>9, <2>2
       DEF Good, Shape, StagedWhole, AtRest, Underway, Progress, LiveIsOld, LiveIsNew, Safe,
           Live, Prev, Stg, Was, New
  <2>9. (Good => Underway)'
    BY <1>1, <1>2, <1>3, <1>4, <1>5, <1>6, <1>9, <2>2
       DEF Good, Shape, AtRest, Underway, Progress, LiveIsOld, LiveIsNew, Safe, Live, Prev, Stg,
           Was, New
  <2> QED
    BY <2>3, <2>4, <2>5, <2>6, <2>7, <2>8, <2>9
<1> QED
  BY <1>2, <1>3, <1>4, <1>5, <1>6, <1>7, <1>8, <1>9

\* A folder that was copied is removed file by file.
LEMMA StartRemovalIInv ==
  ASSUME IInv, StartRemoval
  PROVE  IInv'
<1> USE PlanFacts, PlanIsOneToOne DEF IInv, Steps, TypeOK, Held, Places, NoJournal
<1>1. UNCHANGED <<journal, app, at, moving, before, archive, spoiled, swaps, crashes, faults>>
  BY DEF StartRemoval, bounds, Asked, To
<1>2. app \in {"aside", "stage", "back"} /\ at \in Steps
  BY DEF StartRemoval, Moves
<1>3. moving = "removing" /\ Plan[at] \in Media
  BY DEF StartRemoval, Part
<1>4. at > 1
  BY <1>2, <1>3 DEF Media
<1>5. CASE app = "aside"
  <2>1. disk' = [disk EXCEPT !["live"][Plan[at]] = "part"]
    BY <1>2, <1>5 DEF StartRemoval, From, Dest, Part
  <2>2. /\ disk' \in [Places -> [Parts -> Held]]
        /\ \A r \in Places, k \in Steps :
           disk'[r][Plan[k]] = IF r = "live" /\ k = at THEN "part" ELSE disk[r][Plan[k]]
    BY <1>2, <2>1
  <2>3. TypeOK'
    BY <1>1, <1>2, <1>3, <1>4, <1>5, <2>2
  <2>4. Shape'
    BY <1>1, <1>2, <1>3, <1>4, <1>5, <2>2 DEF Shape
  <2>5. StagedWhole'
    BY <1>1, <1>2, <1>3, <1>4, <1>5, <2>2 DEF Shape, StagedWhole, Progress, Stg, New
  <2>6. Progress'
    BY <1>1, <1>2, <1>3, <1>4, <1>5, <2>2 DEF Shape, StagedWhole, Progress, Live, Stg, New
  <2>7. ActivatedIsWhole'
    BY <1>1, <1>2, <1>3, <1>4, <1>5, <2>2 DEF ActivatedIsWhole, Progress, Shape, Live, New
  <2>8. (Good => AtRest)'
    BY <1>1, <1>2, <1>3, <1>4, <1>5, <2>2
       DEF Good, Shape, StagedWhole, AtRest, Underway, Progress, LiveIsOld, LiveIsNew, Safe,
           Live, Prev, Stg, Was, New
  <2>9. (Good => Underway)'
    BY <1>1, <1>2, <1>3, <1>4, <1>5, <2>2
       DEF Good, Shape, AtRest, Underway, Progress, LiveIsOld, LiveIsNew, Safe, Live, Prev, Stg,
           Was, New
  <2> QED
    BY <2>3, <2>4, <2>5, <2>6, <2>7, <2>8, <2>9
<1>6. CASE app = "stage"
  <2>1. disk' = [disk EXCEPT !["staged"][Plan[at]] = "part"]
    BY <1>2, <1>6 DEF StartRemoval, From, Dest, Part
  <2>2. /\ disk' \in [Places -> [Parts -> Held]]
        /\ \A r \in Places, k \in Steps :
           disk'[r][Plan[k]] = IF r = "staged" /\ k = at THEN "part" ELSE disk[r][Plan[k]]
    BY <1>2, <2>1
  <2>3. TypeOK'
    BY <1>1, <1>2, <1>3, <1>4, <1>6, <2>2
  <2>4. Shape'
    BY <1>1, <1>2, <1>3, <1>4, <1>6, <2>2 DEF Shape
  <2>5. StagedWhole'
    BY <1>1, <1>2, <1>3, <1>4, <1>6, <2>2 DEF Shape, StagedWhole, Progress, Stg, New
  <2>6. Progress'
    BY <1>1, <1>2, <1>3, <1>4, <1>6, <2>2 DEF Shape, StagedWhole, Progress, Live, Stg, New
  <2>7. ActivatedIsWhole'
    BY <1>1, <1>2, <1>3, <1>4, <1>6, <2>2 DEF ActivatedIsWhole, Progress, Shape, Live, New
  <2>8. (Good => AtRest)'
    BY <1>1, <1>2, <1>3, <1>4, <1>6, <2>2
       DEF Good, Shape, StagedWhole, AtRest, Underway, Progress, LiveIsOld, LiveIsNew, Safe,
           Live, Prev, Stg, Was, New
  <2>9. (Good => Underway)'
    BY <1>1, <1>2, <1>3, <1>4, <1>6, <2>2
       DEF Good, Shape, AtRest, Underway, Progress, LiveIsOld, LiveIsNew, Safe, Live, Prev, Stg,
           Was, New
  <2> QED
    BY <2>3, <2>4, <2>5, <2>6, <2>7, <2>8, <2>9
<1>7. CASE app = "back"
  <2>1. disk' = [disk EXCEPT !["previous"][Plan[at]] = "part"]
    BY <1>2, <1>7 DEF StartRemoval, From, Dest, Part
  <2>2. /\ disk' \in [Places -> [Parts -> Held]]
        /\ \A r \in Places, k \in Steps :
           disk'[r][Plan[k]] = IF r = "previous" /\ k = at THEN "part" ELSE disk[r][Plan[k]]
    BY <1>2, <2>1
  <2>3. TypeOK'
    BY <1>1, <1>2, <1>3, <1>4, <1>7, <2>2
  <2>4. Shape'
    BY <1>1, <1>2, <1>3, <1>4, <1>7, <2>2 DEF Shape
  <2>5. StagedWhole'
    BY <1>1, <1>2, <1>3, <1>4, <1>7, <2>2 DEF Shape, StagedWhole, Progress, Stg, New
  <2>6. Progress'
    BY <1>1, <1>2, <1>3, <1>4, <1>7, <2>2 DEF Shape, StagedWhole, Progress, Live, Stg, New
  <2>7. ActivatedIsWhole'
    BY <1>1, <1>2, <1>3, <1>4, <1>7, <2>2 DEF ActivatedIsWhole, Progress, Shape, Live, New
  <2>8. (Good => AtRest)'
    BY <1>1, <1>2, <1>3, <1>4, <1>7, <2>2
       DEF Good, Shape, StagedWhole, AtRest, Underway, Progress, LiveIsOld, LiveIsNew, Safe,
           Live, Prev, Stg, Was, New
  <2>9. (Good => Underway)'
    BY <1>1, <1>2, <1>3, <1>4, <1>7, <2>2
       DEF Good, Shape, AtRest, Underway, Progress, LiveIsOld, LiveIsNew, Safe, Live, Prev, Stg,
           Was, New
  <2> QED
    BY <2>3, <2>4, <2>5, <2>6, <2>7, <2>8, <2>9
<1> QED
  BY <1>2, <1>3, <1>4, <1>5, <1>6, <1>7

\* What was copied is gone from where it was.
LEMMA EndRemovalIInv ==
  ASSUME IInv, EndRemoval
  PROVE  IInv'
<1> USE PlanFacts, PlanIsOneToOne DEF IInv, Steps, TypeOK, Held, Places, NoJournal
<1>1. UNCHANGED <<journal, before, archive, spoiled, swaps, crashes, faults>>
  BY DEF EndRemoval, bounds, Asked, To
<1>2. app \in {"aside", "stage", "back"} /\ at \in Steps
  BY DEF EndRemoval, Moves
<1>3. moving = "removing"
  BY DEF EndRemoval
<1>4. CASE app = "aside"
  <2>1. disk' = [disk EXCEPT !["live"][Plan[at]] = "none"]
    BY <1>2, <1>4 DEF EndRemoval, From, Dest, Part
  <2>2. /\ disk' \in [Places -> [Parts -> Held]]
        /\ \A r \in Places, k \in Steps :
           disk'[r][Plan[k]] = IF r = "live" /\ k = at THEN "none" ELSE disk[r][Plan[k]]
    BY <1>2, <2>1
  <2>3. app' = "stage" /\ at' = at /\ moving' = "no"
    BY <1>2, <1>4 DEF EndRemoval, Onward, To
  <2>4. TypeOK'
    BY <1>1, <1>2, <1>3, <1>4, <2>2, <2>3
  <2>5. Shape'
    BY <1>1, <1>2, <1>3, <1>4, <2>2, <2>3 DEF Shape
  <2>6. StagedWhole'
    BY <1>1, <1>2, <1>3, <1>4, <2>2, <2>3 DEF Shape, StagedWhole, Progress, Stg, New
  <2>7. Progress'
    BY <1>1, <1>2, <1>3, <1>4, <2>2, <2>3 DEF Shape, StagedWhole, Progress, Live, Stg, New
  <2>8. ActivatedIsWhole'
    BY <1>1, <1>2, <1>3, <1>4, <2>2, <2>3 DEF ActivatedIsWhole, Progress, Shape, Live, New
  <2>9. (Good => AtRest)'
    BY <1>1, <1>2, <1>3, <1>4, <2>2, <2>3
       DEF Good, Shape, StagedWhole, AtRest, Underway, Progress, LiveIsOld, LiveIsNew, Safe,
           Live, Prev, Stg, Was, New
  <2>10. (Good => Underway)'
    BY <1>1, <1>2, <1>3, <1>4, <2>2, <2>3
       DEF Good, Shape, AtRest, Underway, Progress, LiveIsOld, LiveIsNew, Safe, Live, Prev, Stg,
           Was, New
  <2> QED
    BY <2>4, <2>5, <2>6, <2>7, <2>8, <2>9, <2>10
<1>5. CASE app = "stage"
  <2>1. disk' = [disk EXCEPT !["staged"][Plan[at]] = "none"]
    BY <1>2, <1>5 DEF EndRemoval, From, Dest, Part
  <2>2. /\ disk' \in [Places -> [Parts -> Held]]
        /\ \A r \in Places, k \in Steps :
           disk'[r][Plan[k]] = IF r = "staged" /\ k = at THEN "none" ELSE disk[r][Plan[k]]
    BY <1>2, <2>1
  <2>3. app' = "aside" /\ at' = at + 1 /\ moving' = "no"
    BY <1>2, <1>5 DEF EndRemoval, Onward, To
  <2>4. TypeOK'
    BY <1>1, <1>2, <1>3, <1>5, <2>2, <2>3
  <2>5. Shape'
    BY <1>1, <1>2, <1>3, <1>5, <2>2, <2>3 DEF Shape
  <2>6. StagedWhole'
    BY <1>1, <1>2, <1>3, <1>5, <2>2, <2>3 DEF Shape, StagedWhole, Progress, Stg, New
  <2>7. Progress'
    BY <1>1, <1>2, <1>3, <1>5, <2>2, <2>3 DEF Shape, StagedWhole, Progress, Live, Stg, New
  <2>8. ActivatedIsWhole'
    BY <1>1, <1>2, <1>3, <1>5, <2>2, <2>3 DEF ActivatedIsWhole, Progress, Shape, Live, New
  <2>9. (Good => AtRest)'
    BY <1>1, <1>2, <1>3, <1>5, <2>2, <2>3
       DEF Good, Shape, StagedWhole, AtRest, Underway, Progress, LiveIsOld, LiveIsNew, Safe,
           Live, Prev, Stg, Was, New
  <2>10. (Good => Underway)'
    BY <1>1, <1>2, <1>3, <1>5, <2>2, <2>3
       DEF Good, Shape, AtRest, Underway, Progress, LiveIsOld, LiveIsNew, Safe, Live, Prev, Stg,
           Was, New
  <2> QED
    BY <2>4, <2>5, <2>6, <2>7, <2>8, <2>9, <2>10
<1>6. CASE app = "back"
  <2>1. disk' = [disk EXCEPT !["previous"][Plan[at]] = "none"]
    BY <1>2, <1>6 DEF EndRemoval, From, Dest, Part
  <2>2. /\ disk' \in [Places -> [Parts -> Held]]
        /\ \A r \in Places, k \in Steps :
           disk'[r][Plan[k]] = IF r = "previous" /\ k = at THEN "none" ELSE disk[r][Plan[k]]
    BY <1>2, <2>1
  <2>3. app' = "clear" /\ at' = at - 1 /\ moving' = "no"
    BY <1>2, <1>6 DEF EndRemoval, Onward, To
  <2>4. TypeOK'
    BY <1>1, <1>2, <1>3, <1>6, <2>2, <2>3
  <2>5. Shape'
    BY <1>1, <1>2, <1>3, <1>6, <2>2, <2>3 DEF Shape
  <2>6. StagedWhole'
    BY <1>1, <1>2, <1>3, <1>6, <2>2, <2>3 DEF Shape, StagedWhole, Progress, Stg, New
  <2>7. Progress'
    BY <1>1, <1>2, <1>3, <1>6, <2>2, <2>3 DEF Shape, StagedWhole, Progress, Live, Stg, New
  <2>8. ActivatedIsWhole'
    BY <1>1, <1>2, <1>3, <1>6, <2>2, <2>3 DEF ActivatedIsWhole, Progress, Shape, Live, New
  <2>9. (Good => AtRest)'
    BY <1>1, <1>2, <1>3, <1>6, <2>2, <2>3
       DEF Good, Shape, StagedWhole, AtRest, Underway, Progress, LiveIsOld, LiveIsNew, Safe,
           Live, Prev, Stg, Was, New
  <2>10. (Good => Underway)'
    BY <1>1, <1>2, <1>3, <1>6, <2>2, <2>3
       DEF Good, Shape, AtRest, Underway, Progress, LiveIsOld, LiveIsNew, Safe, Live, Prev, Stg,
           Was, New
  <2> QED
    BY <2>4, <2>5, <2>6, <2>7, <2>8, <2>9, <2>10
<1> QED
  BY <1>2, <1>3, <1>4, <1>5, <1>6

\* A removal that fails ends the swap, or the rollback.
LEMMA RemovalFailsIInv ==
  ASSUME IInv, RemovalFails
  PROVE  IInv'
<1> USE PlanFacts, PlanIsOneToOne DEF IInv, Steps, TypeOK, Held, Places, NoJournal
<1>1. UNCHANGED <<disk, journal, before, archive, swaps, crashes>>
  BY DEF RemovalFails, bounds, Asked, To
<1>2. app \in {"aside", "stage", "back"} /\ at \in Steps
  BY DEF RemovalFails, Moves
<1>3. faults' \in Nat /\ faults' # 0 /\ moving' = "no"
  BY DEF RemovalFails, Fault, Fails, To
<1>4. \/ app \in {"aside", "stage"} /\ app' = "clear" /\ at' = 4 /\ spoiled' = spoiled
      \/ app \notin {"aside", "stage"} /\ app' = "running" /\ at' = 0 /\ spoiled' = TRUE
  BY DEF RemovalFails, Fails, To
<1>5. spoiled' \in BOOLEAN
  BY DEF RemovalFails, Fails
<1>6. TypeOK'
  BY <1>1, <1>2, <1>3, <1>4, <1>5
<1>7. Shape'
  BY <1>1, <1>2, <1>3, <1>4, <1>5 DEF Shape
<1>8. StagedWhole'
  BY <1>1, <1>2, <1>3, <1>4, <1>5 DEF Shape, StagedWhole, Progress, Stg, New
<1>9. Progress'
  BY <1>1, <1>2, <1>3, <1>4, <1>5 DEF Shape, StagedWhole, Progress, Live, Stg, New
<1>10. ActivatedIsWhole'
  BY <1>1, <1>2, <1>3, <1>4, <1>5 DEF ActivatedIsWhole, Progress, Shape, Live, New
<1>11. (Good => AtRest)'
  BY <1>1, <1>2, <1>3, <1>4, <1>5
     DEF Good, Shape, StagedWhole, AtRest, Underway, Progress, LiveIsOld, LiveIsNew, Safe, Live,
         Prev, Stg, Was, New
<1>12. (Good => Underway)'
  BY <1>1, <1>2, <1>3, <1>4, <1>5
     DEF Good, Shape, AtRest, Underway, Progress, LiveIsOld, LiveIsNew, Safe, Live, Prev, Stg,
         Was, New
<1> QED
  BY <1>6, <1>7, <1>8, <1>9, <1>10, <1>11, <1>12

\* The swap begins with the checked store staged, and so with the whole archive.
LEMMA ActivateRestoreIInv ==
  ASSUME IInv, ActivateRestore
  PROVE  IInv'
<1> USE PlanFacts, PlanIsOneToOne DEF IInv, Steps, TypeOK, Held, Places, NoJournal
<1>1. UNCHANGED <<disk, archive, spoiled, crashes, faults>>
  BY DEF ActivateRestore, bounds, Asked, To
<1>2. swaps' \in Nat /\ app = "running" /\ journal.state = "none"
  BY DEF ActivateRestore, Asked
<1>3. app' = "aside" /\ at' = 1 /\ moving' = "no"
  BY DEF ActivateRestore, To
<1>4. before' = disk["live"] /\ disk["staged"]["db"] # "none"
  BY DEF ActivateRestore
<1>5. journal' = [state |-> "swapping", existed |-> {p \in Parts : before'[p] # "none"}]
  BY <1>4 DEF ActivateRestore
<1>6. TypeOK'
  BY <1>1, <1>2, <1>3, <1>4, <1>5
<1>7. Shape'
  BY <1>1, <1>2, <1>3, <1>4, <1>5 DEF Shape
<1>8. StagedWhole'
  BY <1>1, <1>2, <1>3, <1>4, <1>5 DEF Shape, StagedWhole, Progress, Stg, New
<1>9. Progress'
  BY <1>1, <1>2, <1>3, <1>4, <1>5 DEF Shape, StagedWhole, Progress, Live, Stg, New
<1>10. ActivatedIsWhole'
  BY <1>1, <1>2, <1>3, <1>4, <1>5 DEF ActivatedIsWhole, Progress, Shape, Live, New
<1>11. (Good => AtRest)'
  BY <1>1, <1>2, <1>3, <1>4, <1>5
     DEF Good, Shape, StagedWhole, AtRest, Underway, Progress, LiveIsOld, LiveIsNew, Safe, Live,
         Prev, Stg, Was, New
<1>12. (Good => Underway)'
  BY <1>1, <1>2, <1>3, <1>4, <1>5
     DEF Good, Shape, AtRest, Underway, Progress, LiveIsOld, LiveIsNew, Safe, Live, Prev, Stg,
         Was, New
<1> QED
  BY <1>6, <1>7, <1>8, <1>9, <1>10, <1>11, <1>12

\* Going back begins with the previous profile whole aside.
LEMMA UndoIInv ==
  ASSUME IInv, UndoProfileRestore
  PROVE  IInv'
<1> USE PlanFacts, PlanIsOneToOne DEF IInv, Steps, TypeOK, Held, Places, NoJournal
<1>1. UNCHANGED <<disk, journal, before, archive, spoiled, crashes, faults>>
  BY DEF UndoProfileRestore, bounds, Asked, To
<1>2. swaps' \in Nat /\ app = "running" /\ journal.state = "activated"
  BY DEF UndoProfileRestore, Asked
<1>3. app' = "clear" /\ at' = 4 /\ moving' = "no"
  BY DEF UndoProfileRestore, To
<1>4. TypeOK'
  BY <1>1, <1>2, <1>3
<1>5. Shape'
  BY <1>1, <1>2, <1>3 DEF Shape
<1>6. StagedWhole'
  BY <1>1, <1>2, <1>3 DEF Shape, StagedWhole, Progress, Stg, New
<1>7. Progress'
  BY <1>1, <1>2, <1>3 DEF Shape, StagedWhole, Progress, Live, Stg, New
<1>8. ActivatedIsWhole'
  BY <1>1, <1>2, <1>3 DEF ActivatedIsWhole, Progress, Shape, Live, New
<1>9. (Good => AtRest)'
  BY <1>1, <1>2, <1>3
     DEF Good, Shape, StagedWhole, AtRest, Underway, Progress, LiveIsOld, LiveIsNew, Safe, Live,
         Prev, Stg, Was, New
<1>10. (Good => Underway)'
  BY <1>1, <1>2, <1>3
     DEF Good, Shape, AtRest, Underway, Progress, LiveIsOld, LiveIsNew, Safe, Live, Prev, Stg,
         Was, New
<1> QED
  BY <1>4, <1>5, <1>6, <1>7, <1>8, <1>9, <1>10

\* Keeping begins with the new profile whole in its place.
LEMMA KeepIInv ==
  ASSUME IInv, KeepRestore
  PROVE  IInv'
<1> USE PlanFacts, PlanIsOneToOne DEF IInv, Steps, TypeOK, Held, Places, NoJournal
<1>1. UNCHANGED <<disk, journal, before, archive, spoiled, crashes, faults>>
  BY DEF KeepRestore, bounds, Asked, To
<1>2. swaps' \in Nat /\ app = "running" /\ journal.state = "activated"
  BY DEF KeepRestore, Asked
<1>3. app' = "forget" /\ at' = 1 /\ moving' = "no"
  BY DEF KeepRestore, To
<1>4. TypeOK'
  BY <1>1, <1>2, <1>3
<1>5. Shape'
  BY <1>1, <1>2, <1>3 DEF Shape
<1>6. StagedWhole'
  BY <1>1, <1>2, <1>3 DEF Shape, StagedWhole, Progress, Stg, New
<1>7. Progress'
  BY <1>1, <1>2, <1>3 DEF Shape, StagedWhole, Progress, Live, Stg, New
<1>8. ActivatedIsWhole'
  BY <1>1, <1>2, <1>3 DEF ActivatedIsWhole, Progress, Shape, Live, New
<1>9. (Good => AtRest)'
  BY <1>1, <1>2, <1>3
     DEF Good, Shape, StagedWhole, AtRest, Underway, Progress, LiveIsOld, LiveIsNew, Safe, Live,
         Prev, Stg, Was, New
<1>10. (Good => Underway)'
  BY <1>1, <1>2, <1>3
     DEF Good, Shape, AtRest, Underway, Progress, LiveIsOld, LiveIsNew, Safe, Live, Prev, Stg,
         Was, New
<1> QED
  BY <1>4, <1>5, <1>6, <1>7, <1>8, <1>9, <1>10

\* After the last move every part is the archive's.
LEMMA MarkActivatedIInv ==
  ASSUME IInv, MarkActivated
  PROVE  IInv'
<1> USE PlanFacts, PlanIsOneToOne DEF IInv, Steps, TypeOK, Held, Places, NoJournal
<1>1. UNCHANGED <<before, archive, spoiled, swaps, crashes, faults>>
  BY DEF MarkActivated, bounds, Asked, To
<1>2. app = "aside" /\ at = 5
  BY DEF MarkActivated
<1>3. app' = "opening" /\ at' = 0 /\ moving' = "no"
  BY DEF MarkActivated, To
<1>4. journal' = [journal EXCEPT !.state = "activated"]
  BY DEF MarkActivated
<1>5. disk' = [disk EXCEPT !["staged"] = [p \in Parts |-> "none"]]
  BY DEF MarkActivated, Profile
<1>6. /\ disk' \in [Places -> [Parts -> Held]]
      /\ disk'["live"] = disk["live"] /\ disk'["previous"] = disk["previous"]
      /\ \A k \in Steps : disk'["staged"][Plan[k]] = "none"
  BY <1>5
<1>7. TypeOK'
  BY <1>1, <1>2, <1>3, <1>4, <1>5, <1>6
<1>8. Shape'
  BY <1>1, <1>2, <1>3, <1>4, <1>5, <1>6 DEF Shape
<1>9. StagedWhole'
  BY <1>1, <1>2, <1>3, <1>4, <1>5, <1>6 DEF Shape, StagedWhole, Progress, Stg, New
<1>10. Progress'
  BY <1>1, <1>2, <1>3, <1>4, <1>5, <1>6 DEF Shape, StagedWhole, Progress, Live, Stg, New
<1>11. ActivatedIsWhole'
  BY <1>1, <1>2, <1>3, <1>4, <1>5, <1>6 DEF ActivatedIsWhole, Progress, Shape, Live, New
<1>12. (Good => AtRest)'
  BY <1>1, <1>2, <1>3, <1>4, <1>5, <1>6
     DEF Good, Shape, StagedWhole, AtRest, Underway, Progress, LiveIsOld, LiveIsNew, Safe, Live,
         Prev, Stg, Was, New
<1>13. (Good => Underway)'
  BY <1>1, <1>2, <1>3, <1>4, <1>5, <1>6
     DEF Good, Shape, AtRest, Underway, Progress, LiveIsOld, LiveIsNew, Safe, Live, Prev, Stg,
         Was, New
<1> QED
  BY <1>7, <1>8, <1>9, <1>10, <1>11, <1>12, <1>13

\* A journal that cannot be written ends the swap.
LEMMA MarkFailsIInv ==
  ASSUME IInv, MarkFails
  PROVE  IInv'
<1> USE PlanFacts, PlanIsOneToOne DEF IInv, Steps, TypeOK, Held, Places, NoJournal
<1>1. UNCHANGED <<disk, journal, before, archive, spoiled, swaps, crashes>>
  BY DEF MarkFails, bounds, Asked, To
<1>2. faults' \in Nat /\ faults' # 0
  BY DEF MarkFails, Fault
<1>3. app' = "clear" /\ at' = 4 /\ moving' = "no"
  BY DEF MarkFails, To
<1>4. app = "aside"
  BY DEF MarkFails
<1>5. TypeOK'
  BY <1>1, <1>2, <1>3, <1>4
<1>6. Shape'
  BY <1>1, <1>2, <1>3, <1>4 DEF Shape
<1>7. StagedWhole'
  BY <1>1, <1>2, <1>3, <1>4 DEF Shape, StagedWhole, Progress, Stg, New
<1>8. Progress'
  BY <1>1, <1>2, <1>3, <1>4 DEF Shape, StagedWhole, Progress, Live, Stg, New
<1>9. ActivatedIsWhole'
  BY <1>1, <1>2, <1>3, <1>4 DEF ActivatedIsWhole, Progress, Shape, Live, New
<1>10. (Good => AtRest)'
  BY <1>1, <1>2, <1>3, <1>4
     DEF Good, Shape, StagedWhole, AtRest, Underway, Progress, LiveIsOld, LiveIsNew, Safe, Live,
         Prev, Stg, Was, New
<1>11. (Good => Underway)'
  BY <1>1, <1>2, <1>3, <1>4
     DEF Good, Shape, AtRest, Underway, Progress, LiveIsOld, LiveIsNew, Safe, Live, Prev, Stg,
         Was, New
<1> QED
  BY <1>5, <1>6, <1>7, <1>8, <1>9, <1>10, <1>11

\* The core answers on the new profile.
LEMMA CoreOpensIInv ==
  ASSUME IInv, CoreOpens
  PROVE  IInv'
<1> USE PlanFacts, PlanIsOneToOne DEF IInv, Steps, TypeOK, Held, Places, NoJournal
<1>1. UNCHANGED <<disk, journal, before, archive, spoiled, swaps, crashes, faults>>
  BY DEF CoreOpens, bounds, Asked, To
<1>2. app = "opening"
  BY DEF CoreOpens
<1>3. app' = "running" /\ at' = 0 /\ moving' = "no"
  BY DEF CoreOpens, To
<1>4. TypeOK'
  BY <1>1, <1>2, <1>3
<1>5. Shape'
  BY <1>1, <1>2, <1>3 DEF Shape
<1>6. StagedWhole'
  BY <1>1, <1>2, <1>3 DEF Shape, StagedWhole, Progress, Stg, New
<1>7. Progress'
  BY <1>1, <1>2, <1>3 DEF Shape, StagedWhole, Progress, Live, Stg, New
<1>8. ActivatedIsWhole'
  BY <1>1, <1>2, <1>3 DEF ActivatedIsWhole, Progress, Shape, Live, New
<1>9. (Good => AtRest)'
  BY <1>1, <1>2, <1>3
     DEF Good, Shape, StagedWhole, AtRest, Underway, Progress, LiveIsOld, LiveIsNew, Safe, Live,
         Prev, Stg, Was, New
<1>10. (Good => Underway)'
  BY <1>1, <1>2, <1>3
     DEF Good, Shape, AtRest, Underway, Progress, LiveIsOld, LiveIsNew, Safe, Live, Prev, Stg,
         Was, New
<1> QED
  BY <1>4, <1>5, <1>6, <1>7, <1>8, <1>9, <1>10

\* It does not, and the previous profile is whole aside.
LEMMA CoreDoesNotOpenIInv ==
  ASSUME IInv, CoreDoesNotOpen
  PROVE  IInv'
<1> USE PlanFacts, PlanIsOneToOne DEF IInv, Steps, TypeOK, Held, Places, NoJournal
<1>1. UNCHANGED <<disk, journal, before, archive, spoiled, swaps, crashes, faults>>
  BY DEF CoreDoesNotOpen, bounds, Asked, To
<1>2. app = "opening"
  BY DEF CoreDoesNotOpen
<1>3. app' = "clear" /\ at' = 4 /\ moving' = "no"
  BY DEF CoreDoesNotOpen, To
<1>4. TypeOK'
  BY <1>1, <1>2, <1>3
<1>5. Shape'
  BY <1>1, <1>2, <1>3 DEF Shape
<1>6. StagedWhole'
  BY <1>1, <1>2, <1>3 DEF Shape, StagedWhole, Progress, Stg, New
<1>7. Progress'
  BY <1>1, <1>2, <1>3 DEF Shape, StagedWhole, Progress, Live, Stg, New
<1>8. ActivatedIsWhole'
  BY <1>1, <1>2, <1>3 DEF ActivatedIsWhole, Progress, Shape, Live, New
<1>9. (Good => AtRest)'
  BY <1>1, <1>2, <1>3
     DEF Good, Shape, StagedWhole, AtRest, Underway, Progress, LiveIsOld, LiveIsNew, Safe, Live,
         Prev, Stg, Was, New
<1>10. (Good => Underway)'
  BY <1>1, <1>2, <1>3
     DEF Good, Shape, AtRest, Underway, Progress, LiveIsOld, LiveIsNew, Safe, Live, Prev, Stg,
         Was, New
<1> QED
  BY <1>4, <1>5, <1>6, <1>7, <1>8, <1>9, <1>10

\* A part that was moved aside makes room for itself; one that was not stays.
LEMMA ClearLiveIInv ==
  ASSUME IInv, ClearLive
  PROVE  IInv'
<1> USE PlanFacts, PlanIsOneToOne DEF IInv, Steps, TypeOK, Held, Places, NoJournal
<1>1. UNCHANGED <<journal, before, archive, spoiled, swaps, crashes, faults>>
  BY DEF ClearLive, bounds, Asked, To
<1>2. app = "clear" /\ at \in Steps
  BY DEF ClearLive
<1>3. CASE Plan[at] \in journal.existed /\ disk["previous"][Plan[at]] = "none"
  <2>1. disk' = disk
    BY <1>3 DEF ClearLive, Part, Has
  <2>2. app' = "clear" /\ at' = at - 1 /\ moving' = "no"
    BY <1>3 DEF ClearLive, Part, Has, To
  <2>3. TypeOK'
    BY <1>1, <1>2, <1>3, <2>1, <2>2
  <2>4. Shape'
    BY <1>1, <1>2, <1>3, <2>1, <2>2 DEF Shape
  <2>5. StagedWhole'
    BY <1>1, <1>2, <1>3, <2>1, <2>2 DEF Shape, StagedWhole, Progress, Stg, New
  <2>6. Progress'
    BY <1>1, <1>2, <1>3, <2>1, <2>2 DEF Shape, StagedWhole, Progress, Live, Stg, New
  <2>7. ActivatedIsWhole'
    BY <1>1, <1>2, <1>3, <2>1, <2>2 DEF ActivatedIsWhole, Progress, Shape, Live, New
  <2>8. (Good => AtRest)'
    BY <1>1, <1>2, <1>3, <2>1, <2>2
       DEF Good, Shape, StagedWhole, AtRest, Underway, Progress, LiveIsOld, LiveIsNew, Safe,
           Live, Prev, Stg, Was, New
  <2>9. (Good => Underway)'
    BY <1>1, <1>2, <1>3, <2>1, <2>2
       DEF Good, Shape, AtRest, Underway, Progress, LiveIsOld, LiveIsNew, Safe, Live, Prev, Stg,
           Was, New
  <2> QED
    BY <2>3, <2>4, <2>5, <2>6, <2>7, <2>8, <2>9
<1>4. CASE Plan[at] \in journal.existed /\ disk["previous"][Plan[at]] # "none"
  <2>1. disk' = [disk EXCEPT !["live"][Plan[at]] = "none"]
    BY <1>4 DEF ClearLive, Part, Has
  <2>2. /\ disk' \in [Places -> [Parts -> Held]]
        /\ \A r \in Places, k \in Steps :
           disk'[r][Plan[k]] = IF r = "live" /\ k = at THEN "none" ELSE disk[r][Plan[k]]
    BY <1>2, <2>1
  <2>3. app' = "back" /\ at' = at /\ moving' = "no"
    BY <1>4 DEF ClearLive, Part, Has, To
  <2>4. TypeOK'
    BY <1>1, <1>2, <1>4, <2>2, <2>3
  <2>5. Shape'
    BY <1>1, <1>2, <1>4, <2>2, <2>3 DEF Shape
  <2>6. StagedWhole'
    BY <1>1, <1>2, <1>4, <2>2, <2>3 DEF Shape, StagedWhole, Progress, Stg, New
  <2>7. Progress'
    BY <1>1, <1>2, <1>4, <2>2, <2>3 DEF Shape, StagedWhole, Progress, Live, Stg, New
  <2>8. ActivatedIsWhole'
    BY <1>1, <1>2, <1>4, <2>2, <2>3 DEF ActivatedIsWhole, Progress, Shape, Live, New
  <2>9. (Good => AtRest)'
    BY <1>1, <1>2, <1>4, <2>2, <2>3
       DEF Good, Shape, StagedWhole, AtRest, Underway, Progress, LiveIsOld, LiveIsNew, Safe,
           Live, Prev, Stg, Was, New
  <2>10. (Good => Underway)'
    BY <1>1, <1>2, <1>4, <2>2, <2>3
       DEF Good, Shape, AtRest, Underway, Progress, LiveIsOld, LiveIsNew, Safe, Live, Prev, Stg,
           Was, New
  <2> QED
    BY <2>4, <2>5, <2>6, <2>7, <2>8, <2>9, <2>10
<1>5. CASE Plan[at] \notin journal.existed
  <2>1. disk' = [disk EXCEPT !["live"][Plan[at]] = "none"]
    BY <1>5 DEF ClearLive, Part, Has
  <2>2. /\ disk' \in [Places -> [Parts -> Held]]
        /\ \A r \in Places, k \in Steps :
           disk'[r][Plan[k]] = IF r = "live" /\ k = at THEN "none" ELSE disk[r][Plan[k]]
    BY <1>2, <2>1
  <2>3. app' = "clear" /\ at' = at - 1 /\ moving' = "no"
    BY <1>5 DEF ClearLive, Part, Has, To
  <2>4. before[Plan[at]] = "none"
    BY <1>2, <1>5 DEF Shape
  <2>5. TypeOK'
    BY <1>1, <1>2, <1>5, <2>2, <2>3, <2>4
  <2>6. Shape'
    BY <1>1, <1>2, <1>5, <2>2, <2>3, <2>4 DEF Shape
  <2>7. StagedWhole'
    BY <1>1, <1>2, <1>5, <2>2, <2>3, <2>4 DEF Shape, StagedWhole, Progress, Stg, New
  <2>8. Progress'
    BY <1>1, <1>2, <1>5, <2>2, <2>3, <2>4 DEF Shape, StagedWhole, Progress, Live, Stg, New
  <2>9. ActivatedIsWhole'
    BY <1>1, <1>2, <1>5, <2>2, <2>3, <2>4 DEF ActivatedIsWhole, Progress, Shape, Live, New
  <2>10. (Good => AtRest)'
    BY <1>1, <1>2, <1>5, <2>2, <2>3, <2>4
       DEF Good, Shape, StagedWhole, AtRest, Underway, Progress, LiveIsOld, LiveIsNew, Safe,
           Live, Prev, Stg, Was, New
  <2>11. (Good => Underway)'
    BY <1>1, <1>2, <1>5, <2>2, <2>3, <2>4
       DEF Good, Shape, AtRest, Underway, Progress, LiveIsOld, LiveIsNew, Safe, Live, Prev, Stg,
           Was, New
  <2> QED
    BY <2>5, <2>6, <2>7, <2>8, <2>9, <2>10, <2>11
<1> QED
  BY <1>2, <1>3, <1>4, <1>5

\* A rollback that fails is left where it is.
LEMMA ClearFailsIInv ==
  ASSUME IInv, ClearFails
  PROVE  IInv'
<1> USE PlanFacts, PlanIsOneToOne DEF IInv, Steps, TypeOK, Held, Places, NoJournal
<1>1. UNCHANGED <<disk, journal, before, archive, swaps, crashes>>
  BY DEF ClearFails, bounds, Asked, To
<1>2. app = "clear" /\ faults' \in Nat /\ faults' # 0
  BY DEF ClearFails, Fault
<1>3. app' = "running" /\ at' = 0 /\ moving' = "no" /\ spoiled' = TRUE
  BY <1>2 DEF ClearFails, Fails, To
<1>4. TypeOK'
  BY <1>1, <1>2, <1>3
<1>5. Shape'
  BY <1>1, <1>2, <1>3 DEF Shape
<1>6. StagedWhole'
  BY <1>1, <1>2, <1>3 DEF Shape, StagedWhole, Progress, Stg, New
<1>7. Progress'
  BY <1>1, <1>2, <1>3 DEF Shape, StagedWhole, Progress, Live, Stg, New
<1>8. ActivatedIsWhole'
  BY <1>1, <1>2, <1>3 DEF ActivatedIsWhole, Progress, Shape, Live, New
<1>9. (Good => AtRest)'
  BY <1>1, <1>2, <1>3
     DEF Good, Shape, StagedWhole, AtRest, Underway, Progress, LiveIsOld, LiveIsNew, Safe, Live,
         Prev, Stg, Was, New
<1>10. (Good => Underway)'
  BY <1>1, <1>2, <1>3
     DEF Good, Shape, AtRest, Underway, Progress, LiveIsOld, LiveIsNew, Safe, Live, Prev, Stg,
         Was, New
<1> QED
  BY <1>4, <1>5, <1>6, <1>7, <1>8, <1>9, <1>10

\* And so is one whose journal cannot be removed.
LEMMA RolledBackFailsIInv ==
  ASSUME IInv, RolledBackFails
  PROVE  IInv'
<1> USE PlanFacts, PlanIsOneToOne DEF IInv, Steps, TypeOK, Held, Places, NoJournal
<1>1. UNCHANGED <<disk, journal, before, archive, swaps, crashes>>
  BY DEF RolledBackFails, bounds, Asked, To
<1>2. app = "clear" /\ faults' \in Nat /\ faults' # 0
  BY DEF RolledBackFails, Fault
<1>3. app' = "running" /\ at' = 0 /\ moving' = "no" /\ spoiled' = TRUE
  BY <1>2 DEF RolledBackFails, Fails, To
<1>4. TypeOK'
  BY <1>1, <1>2, <1>3
<1>5. Shape'
  BY <1>1, <1>2, <1>3 DEF Shape
<1>6. StagedWhole'
  BY <1>1, <1>2, <1>3 DEF Shape, StagedWhole, Progress, Stg, New
<1>7. Progress'
  BY <1>1, <1>2, <1>3 DEF Shape, StagedWhole, Progress, Live, Stg, New
<1>8. ActivatedIsWhole'
  BY <1>1, <1>2, <1>3 DEF ActivatedIsWhole, Progress, Shape, Live, New
<1>9. (Good => AtRest)'
  BY <1>1, <1>2, <1>3
     DEF Good, Shape, StagedWhole, AtRest, Underway, Progress, LiveIsOld, LiveIsNew, Safe, Live,
         Prev, Stg, Was, New
<1>10. (Good => Underway)'
  BY <1>1, <1>2, <1>3
     DEF Good, Shape, AtRest, Underway, Progress, LiveIsOld, LiveIsNew, Safe, Live, Prev, Stg,
         Was, New
<1> QED
  BY <1>4, <1>5, <1>6, <1>7, <1>8, <1>9, <1>10

\* A rollback that comes to its end leaves the profile as it was.
LEMMA RolledBackIInv ==
  ASSUME IInv, RolledBack
  PROVE  IInv'
<1> USE PlanFacts, PlanIsOneToOne DEF IInv, Steps, TypeOK, Held, Places, NoJournal
<1>1. UNCHANGED <<before, archive, spoiled, swaps, crashes, faults>>
  BY DEF RolledBack, bounds, Asked, To
<1>2. app = "clear" /\ at = 0
  BY DEF RolledBack
<1>3. app' = "running" /\ at' = 0 /\ moving' = "no"
  BY DEF RolledBack, To
<1>4. journal' = NoJournal
  BY DEF RolledBack
<1>5. disk' = [disk EXCEPT !["previous"] = [p \in Parts |-> "none"]]
  BY DEF RolledBack, Profile
<1>6. /\ disk' \in [Places -> [Parts -> Held]]
      /\ disk'["live"] = disk["live"] /\ disk'["staged"] = disk["staged"]
      /\ \A k \in Steps : disk'["previous"][Plan[k]] = "none"
  BY <1>5
<1>7. TypeOK'
  BY <1>1, <1>2, <1>3, <1>4, <1>5, <1>6
<1>8. Shape'
  BY <1>1, <1>2, <1>3, <1>4, <1>5, <1>6 DEF Shape
<1>9. StagedWhole'
  BY <1>1, <1>2, <1>3, <1>4, <1>5, <1>6 DEF Shape, StagedWhole, Progress, Stg, New
<1>10. Progress'
  BY <1>1, <1>2, <1>3, <1>4, <1>5, <1>6 DEF Shape, StagedWhole, Progress, Live, Stg, New
<1>11. ActivatedIsWhole'
  BY <1>1, <1>2, <1>3, <1>4, <1>5, <1>6 DEF ActivatedIsWhole, Progress, Shape, Live, New
<1>12. (Good => AtRest)'
  BY <1>1, <1>2, <1>3, <1>4, <1>5, <1>6
     DEF Good, Shape, StagedWhole, AtRest, Underway, Progress, LiveIsOld, LiveIsNew, Safe, Live,
         Prev, Stg, Was, New
<1>13. (Good => Underway)'
  BY <1>1, <1>2, <1>3, <1>4, <1>5, <1>6
     DEF Good, Shape, AtRest, Underway, Progress, LiveIsOld, LiveIsNew, Safe, Live, Prev, Stg,
         Was, New
<1> QED
  BY <1>7, <1>8, <1>9, <1>10, <1>11, <1>12, <1>13

\* Keeping removes the previous profile only.
LEMMA ForgetIInv ==
  ASSUME IInv, Forget
  PROVE  IInv'
<1> USE PlanFacts, PlanIsOneToOne DEF IInv, Steps, TypeOK, Held, Places, NoJournal
<1>1. UNCHANGED <<journal, before, archive, spoiled, swaps, crashes, faults>>
  BY DEF Forget, bounds, Asked, To
<1>2. app = "forget" /\ at \in Steps
  BY DEF Forget
<1>3. app' = "forget" /\ at' = at + 1 /\ moving' = "no"
  BY DEF Forget, To
<1>4. disk' = [disk EXCEPT !["previous"][Plan[at]] = "none"]
  BY DEF Forget, Part
<1>5. /\ disk' \in [Places -> [Parts -> Held]]
      /\ \A r \in Places, k \in Steps :
           disk'[r][Plan[k]] = IF r = "previous" /\ k = at THEN "none" ELSE disk[r][Plan[k]]
  BY <1>2, <1>4
<1>6. TypeOK'
  BY <1>1, <1>2, <1>3, <1>4, <1>5
<1>7. Shape'
  BY <1>1, <1>2, <1>3, <1>4, <1>5 DEF Shape
<1>8. StagedWhole'
  BY <1>1, <1>2, <1>3, <1>4, <1>5 DEF Shape, StagedWhole, Progress, Stg, New
<1>9. Progress'
  BY <1>1, <1>2, <1>3, <1>4, <1>5 DEF Shape, StagedWhole, Progress, Live, Stg, New
<1>10. ActivatedIsWhole'
  BY <1>1, <1>2, <1>3, <1>4, <1>5 DEF ActivatedIsWhole, Progress, Shape, Live, New
<1>11. (Good => AtRest)'
  BY <1>1, <1>2, <1>3, <1>4, <1>5
     DEF Good, Shape, StagedWhole, AtRest, Underway, Progress, LiveIsOld, LiveIsNew, Safe, Live,
         Prev, Stg, Was, New
<1>12. (Good => Underway)'
  BY <1>1, <1>2, <1>3, <1>4, <1>5
     DEF Good, Shape, AtRest, Underway, Progress, LiveIsOld, LiveIsNew, Safe, Live, Prev, Stg,
         Was, New
<1> QED
  BY <1>6, <1>7, <1>8, <1>9, <1>10, <1>11, <1>12

\* Then the journal.
LEMMA KeptIInv ==
  ASSUME IInv, Kept
  PROVE  IInv'
<1> USE PlanFacts, PlanIsOneToOne DEF IInv, Steps, TypeOK, Held, Places, NoJournal
<1>1. UNCHANGED <<disk, before, archive, spoiled, swaps, crashes, faults>>
  BY DEF Kept, bounds, Asked, To
<1>2. app = "forget" /\ at = 5
  BY DEF Kept
<1>3. app' = "running" /\ at' = 0 /\ moving' = "no"
  BY DEF Kept, To
<1>4. journal' = NoJournal
  BY DEF Kept
<1>5. TypeOK'
  BY <1>1, <1>2, <1>3, <1>4
<1>6. Shape'
  BY <1>1, <1>2, <1>3, <1>4 DEF Shape
<1>7. StagedWhole'
  BY <1>1, <1>2, <1>3, <1>4 DEF Shape, StagedWhole, Progress, Stg, New
<1>8. Progress'
  BY <1>1, <1>2, <1>3, <1>4 DEF Shape, StagedWhole, Progress, Live, Stg, New
<1>9. ActivatedIsWhole'
  BY <1>1, <1>2, <1>3, <1>4 DEF ActivatedIsWhole, Progress, Shape, Live, New
<1>10. (Good => AtRest)'
  BY <1>1, <1>2, <1>3, <1>4
     DEF Good, Shape, StagedWhole, AtRest, Underway, Progress, LiveIsOld, LiveIsNew, Safe, Live,
         Prev, Stg, Was, New
<1>11. (Good => Underway)'
  BY <1>1, <1>2, <1>3, <1>4
     DEF Good, Shape, AtRest, Underway, Progress, LiveIsOld, LiveIsNew, Safe, Live, Prev, Stg,
         Was, New
<1> QED
  BY <1>5, <1>6, <1>7, <1>8, <1>9, <1>10, <1>11

\* The core makes a store if there is none, and writes its log.
LEMMA CoreWritesIInv ==
  ASSUME IInv, CoreWrites
  PROVE  IInv'
<1> USE PlanFacts, PlanIsOneToOne DEF IInv, Steps, TypeOK, Held, Places, NoJournal
<1>1. UNCHANGED <<journal, app, at, moving, before, archive, spoiled, swaps, crashes, faults>>
  BY DEF CoreWrites, bounds, Asked, To
<1>2. app \in {"running", "opening"}
  BY DEF CoreWrites
<1>3. PICK db, log \in Held :
        /\ db = IF disk["live"]["db"] = "none" THEN "empty" ELSE disk["live"]["db"]
        /\ log \in {"none", db}
        /\ disk' = [disk EXCEPT !["live"]["db"] = db, !["live"]["wal"] = log]
  BY DEF CoreWrites
<1>4. disk' = [disk EXCEPT !["live"] = [[disk["live"] EXCEPT !["db"] = db] EXCEPT !["wal"] = log]]
  BY <1>3
<1>5. /\ disk'["previous"] = disk["previous"] /\ disk'["staged"] = disk["staged"]
      /\ disk'["live"] = [[disk["live"] EXCEPT !["db"] = db] EXCEPT !["wal"] = log]
  BY <1>4
<1>6. disk' \in [Places -> [Parts -> Held]]
  BY <1>4
<1>7. /\ disk'["live"][Plan[1]] = db /\ disk'["live"][Plan[2]] = log
      /\ disk'["live"][Plan[3]] = disk["live"][Plan[3]]
      /\ disk'["live"][Plan[4]] = disk["live"][Plan[4]]
  BY <1>5
<1>8. TypeOK'
  BY <1>1, <1>2, <1>3, <1>4, <1>5, <1>6, <1>7
<1>9. Shape'
  BY <1>1, <1>2, <1>3, <1>4, <1>5, <1>6, <1>7 DEF Shape
<1>10. StagedWhole'
  BY <1>1, <1>2, <1>3, <1>4, <1>5, <1>6, <1>7 DEF Shape, StagedWhole, Progress, Stg, New
<1>11. Progress'
  BY <1>1, <1>2, <1>3, <1>4, <1>5, <1>6, <1>7 DEF Shape, StagedWhole, Progress, Live, Stg, New
<1>12. ActivatedIsWhole'
  BY <1>1, <1>2, <1>3, <1>4, <1>5, <1>6, <1>7 DEF ActivatedIsWhole, Progress, Shape, Live, New
<1>13. (Good => AtRest)'
  BY <1>1, <1>2, <1>3, <1>4, <1>5, <1>6, <1>7
     DEF Good, Shape, StagedWhole, AtRest, Underway, Progress, LiveIsOld, LiveIsNew, Safe, Live,
         Prev, Stg, Was, New
<1>14. (Good => Underway)'
  BY <1>1, <1>2, <1>3, <1>4, <1>5, <1>6, <1>7
     DEF Good, Shape, AtRest, Underway, Progress, LiveIsOld, LiveIsNew, Safe, Live, Prev, Stg,
         Was, New
<1> QED
  BY <1>8, <1>9, <1>10, <1>11, <1>12, <1>13, <1>14

\* A crash in a swap is not the end of it; one in going back or keeping is on record.
LEMMA CrashIInv ==
  ASSUME IInv, Crash
  PROVE  IInv'
<1> USE PlanFacts, PlanIsOneToOne DEF IInv, Steps, TypeOK, Held, Places, NoJournal
<1>1. UNCHANGED <<disk, journal, before, archive, swaps, faults>>
  BY DEF Crash, bounds, Asked, To
<1>2. crashes' \in Nat
  BY DEF Crash
<1>3. app' = "off" /\ at' = 0 /\ moving' = "no"
  BY DEF Crash, To
<1>4. spoiled' \in BOOLEAN
  BY DEF Crash
<1>5. ~spoiled' => ~spoiled /\ (journal.state = "activated" => app \notin {"clear", "back", "forget"})
  BY DEF Crash
<1>6. TypeOK'
  BY <1>1, <1>2, <1>3, <1>4, <1>5
<1>7. Shape'
  BY <1>1, <1>2, <1>3, <1>4, <1>5 DEF Shape
<1>8. StagedWhole'
  BY <1>1, <1>2, <1>3, <1>4, <1>5 DEF Shape, StagedWhole, Progress, Stg, New
<1>9. Progress'
  BY <1>1, <1>2, <1>3, <1>4, <1>5 DEF Shape, StagedWhole, Progress, Live, Stg, New
<1>10. ActivatedIsWhole'
  BY <1>1, <1>2, <1>3, <1>4, <1>5 DEF ActivatedIsWhole, Progress, Shape, Live, New
<1>11. (Good => AtRest)'
  BY <1>1, <1>2, <1>3, <1>4, <1>5
     DEF Good, Shape, StagedWhole, AtRest, Underway, Progress, LiveIsOld, LiveIsNew, Safe, Live,
         Prev, Stg, Was, New
<1>12. (Good => Underway)'
  BY <1>1, <1>2, <1>3, <1>4, <1>5
     DEF Good, Shape, AtRest, Underway, Progress, LiveIsOld, LiveIsNew, Safe, Live, Prev, Stg,
         Was, New
<1> QED
  BY <1>6, <1>7, <1>8, <1>9, <1>10, <1>11, <1>12

\* The next start rolls a swap back, and leaves the rest.
LEMMA StartupIInv ==
  ASSUME IInv, Startup
  PROVE  IInv'
<1> USE PlanFacts, PlanIsOneToOne DEF IInv, Steps, TypeOK, Held, Places, NoJournal
<1>1. UNCHANGED <<disk, journal, before, archive, spoiled, swaps, crashes, faults>>
  BY DEF Startup, bounds, Asked, To
<1>2. app = "off" /\ moving' = "no"
  BY DEF Startup, To
<1>3. \/ journal.state = "swapping" /\ app' = "clear" /\ at' = 4
      \/ journal.state # "swapping" /\ app' = "running" /\ at' = 0
  BY DEF Startup, To
<1>4. TypeOK'
  BY <1>1, <1>2, <1>3
<1>5. Shape'
  BY <1>1, <1>2, <1>3 DEF Shape
<1>6. StagedWhole'
  BY <1>1, <1>2, <1>3 DEF Shape, StagedWhole, Progress, Stg, New
<1>7. Progress'
  BY <1>1, <1>2, <1>3 DEF Shape, StagedWhole, Progress, Live, Stg, New
<1>8. ActivatedIsWhole'
  BY <1>1, <1>2, <1>3 DEF ActivatedIsWhole, Progress, Shape, Live, New
<1>9. (Good => AtRest)'
  BY <1>1, <1>2, <1>3
     DEF Good, Shape, StagedWhole, AtRest, Underway, Progress, LiveIsOld, LiveIsNew, Safe, Live,
         Prev, Stg, Was, New
<1>10. (Good => Underway)'
  BY <1>1, <1>2, <1>3
     DEF Good, Shape, AtRest, Underway, Progress, LiveIsOld, LiveIsNew, Safe, Live, Prev, Stg,
         Was, New
<1> QED
  BY <1>4, <1>5, <1>6, <1>7, <1>8, <1>9, <1>10

-----------------------------------------------------------------------------
(* The theorems.                                                           *)

\* A profile in use and an archive in the staging folder.
LEMMA InitIInv == Init => IInv
<1> SUFFICES ASSUME Init PROVE IInv
  OBVIOUS
<1> USE RestoreBounds, PlanFacts, PlanIsOneToOne DEF Steps, NoJournal
<1>1. PICK S \in SUBSET (Parts \ {"db"}), T \in SUBSET Media :
        /\ before = [p \in Parts |-> IF p \in {"db"} \cup S THEN "old" ELSE "none"]
        /\ archive = [p \in Parts |-> IF p \in {"db"} \cup T THEN "new" ELSE "none"]
  BY DEF Init, Profile
<1>2. /\ disk \in [Places -> [Parts -> Held]]
      /\ disk["live"] = before /\ disk["staged"] = archive
      /\ disk["previous"] = [p \in Parts |-> "none"]
  <2>1. disk = [q \in Places |-> CASE q = "live" -> before [] q = "staged" -> archive
                                   [] OTHER -> [p \in Parts |-> "none"]]
    BY DEF Init, Profile
  <2>2. before \in [Parts -> Held] /\ archive \in [Parts -> Held]
    BY <1>1 DEF Held
  <2>3. [p \in Parts |-> "none"] \in [Parts -> Held]
    BY DEF Held
  <2>4. /\ disk["live"] = before /\ disk["staged"] = archive
        /\ disk["previous"] = [p \in Parts |-> "none"]
    BY <2>1 DEF Places
  <2> QED
    BY <2>1, <2>2, <2>3, <2>4 DEF Places
<1>3. journal = NoJournal /\ app = "running" /\ at = 0 /\ moving = "no" /\ spoiled = FALSE
  BY DEF Init
<1>4. swaps = 0 /\ crashes = 0 /\ faults = 0
  BY DEF Init
<1>5. TypeOK
  <2>1. before \in [Parts -> Held] /\ archive \in [Parts -> Held]
    BY <1>1 DEF Held
  <2>2. journal \in [state : {"none", "swapping", "activated"}, existed : SUBSET Parts]
    BY <1>3
  <2>3. /\ app \in {"off", "running", "opening", "aside", "stage", "clear", "back", "forget"}
        /\ at \in 0 .. Len(Plan) + 1
        /\ app = "clear" => at <= Len(Plan)
        /\ app \in {"stage", "back"} => at \in DOMAIN Plan
        /\ moving \in {"no", "copying", "removing"}
    BY <1>3
  <2>4. spoiled \in BOOLEAN
    BY <1>3
  <2>5. swaps \in Nat /\ crashes \in Nat /\ faults \in Nat
    BY <1>4
  <2> QED
    BY <1>2, <2>1, <2>2, <2>3, <2>4, <2>5, Zenon DEF TypeOK
<1>6. Shape /\ StagedWhole /\ Progress /\ ActivatedIsWhole
  BY <1>1, <1>2, <1>3 DEF Shape, StagedWhole, Progress, ActivatedIsWhole, Stg, New, Media
<1>7. AtRest
  BY <1>1, <1>2, <1>3 DEF AtRest, LiveIsOld, Live, Was, Prev
<1>8. Underway
  BY <1>3 DEF Underway
<1> QED
  BY <1>5, <1>6, <1>7, <1>8 DEF IInv

\* Every step keeps the invariant.
LEMMA NextIInv == IInv /\ [Next]_vars => IInv'
<1> SUFFICES ASSUME IInv, [Next]_vars PROVE IInv'
  OBVIOUS
<1>1. CASE UNCHANGED vars
  <2>1. UNCHANGED <<disk, journal, app, at, moving, before, archive, spoiled, swaps, crashes, faults>>
    BY <1>1 DEF vars, bounds
  <2> QED
    BY <2>1 DEF IInv, TypeOK, Shape, StagedWhole, Progress, ActivatedIsWhole, Good, AtRest, Underway,
                LiveIsOld, LiveIsNew, Safe, Live, Prev, Stg, Was, New
<1>2. CASE ActivateRestore \/ UndoProfileRestore \/ KeepRestore
  BY <1>2, ActivateRestoreIInv, UndoIInv, KeepIInv
<1>3. CASE Working
  BY <1>3, SkipIInv, RenameIInv, StartCopyIInv, EndCopyIInv, StartRemovalIInv, EndRemovalIInv,
     MarkActivatedIInv, CoreOpensIInv, CoreDoesNotOpenIInv, ClearLiveIInv, RolledBackIInv, ForgetIInv,
     KeptIInv DEF Working
<1>4. CASE Failing
  BY <1>4, CopyFailsIInv, RemovalFailsIInv, MarkFailsIInv, ClearFailsIInv, RolledBackFailsIInv
     DEF Failing
<1>5. CASE CoreWrites \/ Crash \/ Startup
  BY <1>5, CoreWritesIInv, CrashIInv, StartupIInv
<1> QED
  BY <1>1, <1>2, <1>3, <1>4, <1>5 DEF Next

\* The inductive invariant holds throughout.
THEOREM RestoreInvariant == Spec => []IInv
BY InitIInv, NextIInv, PTL DEF Spec

\* The folders, the journal and the desktop keep their types.
THEOREM RestoreTypeCorrect == Spec => []TypeOK
<1>1. IInv => TypeOK
  BY DEF IInv
<1> QED
  BY <1>1, RestoreInvariant, PTL

\* While file operations work, the core never runs on half of each profile, wherever and
\* however often a swap is cut short (activateRestore, recoverInterruptedRestore).
THEOREM RestoreCoreSeesOneProfile == Spec => []CoreSeesOneProfile
<1>1. IInv => CoreSeesOneProfile
  <2> SUFFICES ASSUME IInv, app \in {"running", "opening"}, ~spoiled, faults = 0
               PROVE  Whole(disk["live"])
    BY DEF CoreSeesOneProfile
  <2> USE PlanFacts DEF Steps
  <2>1. AtRest /\ Shape /\ TypeOK
    BY DEF IInv, Good
  <2>2. LiveIsOld \/ LiveIsNew
    BY <2>1 DEF AtRest, Shape, TypeOK
  <2>3. before["db"] = "old" /\ archive["db"] = "new"
    BY <2>1 DEF AtRest, Shape
  <2>4. CASE LiveIsOld
    <3>1. /\ disk["live"]["db"] = before["db"] /\ disk["live"]["wal"] \in {"none", "old"}
          /\ disk["live"]["avatars"] = before["avatars"]
          /\ disk["live"]["wallpapers"] = before["wallpapers"]
      BY <2>4 DEF LiveIsOld, Live, Was
    <3> QED
      BY <2>3, <3>1 DEF Whole, Media
  <2>5. CASE LiveIsNew
    <3>1. /\ disk["live"]["db"] = archive["db"] /\ disk["live"]["wal"] \in {"none", "new"}
          /\ disk["live"]["avatars"] = archive["avatars"]
          /\ disk["live"]["wallpapers"] = archive["wallpapers"]
      BY <2>5 DEF LiveIsNew, Live, New
    <3> QED
      BY <2>3, <3>1 DEF Whole, Media
  <2> QED
    BY <2>2, <2>4, <2>5
<1> QED
  BY <1>1, RestoreInvariant, PTL

\* Until it is given up, every part of the previous profile is in its place or aside, at
\* every step of a swap, of its rollback and of going back.
THEOREM RestorePreviousIsSafe == Spec => []PreviousIsSafe
<1>1. IInv => PreviousIsSafe
  <2> SUFFICES ASSUME IInv, journal.state # "none", app # "forget", ~spoiled, faults = 0,
                      NEW p \in journal.existed
               PROVE  before[p] \in {disk["live"][p], disk["previous"][p]}
    BY DEF PreviousIsSafe
  <2>1. AtRest /\ Underway /\ Shape /\ TypeOK
    BY DEF IInv, Good
  <2>2. PICK k \in Steps : p = Plan[k]
    BY <2>1, PlanIsOneToOne DEF TypeOK
  <2>3. Safe(k)
    BY <2>1 DEF AtRest, Underway, Shape, TypeOK, Safe, Steps
  <2> QED
    BY <2>2, <2>3 DEF Safe, Live, Prev, Was
<1> QED
  BY <1>1, RestoreInvariant, PTL

\* A profile that is opened after a swap is all of what the archive held, whatever failed
\* before and however often.
THEOREM RestoreActivatedIsWhole == Spec => []ActivatedIsWhole
<1>1. IInv => ActivatedIsWhole
  BY DEF IInv
<1> QED
  BY <1>1, RestoreInvariant, PTL

=============================================================================
