---------------------------- MODULE Mailings_proofs ----------------------------
(***************************************************************************)
(* Theorems about a mailing, for any number of recipients, requests,       *)
(* crashes and store faults.  They rest on one inductive invariant, whose  *)
(* heart is a balance for each message: the deliveries it had, those that  *)
(* may still come, and the one its record would allow, are never more than *)
(* one and one for each record that startup forgot.                        *)
(***************************************************************************)
EXTENDS Mailings, WellFoundedInduction, TLAPS

-----------------------------------------------------------------------------
(* The inductive invariant.                                                *)

\* What the runner has been told, by where it is; a process that is down has none.
Shape ==
  /\ ~up => runner = NoRunner
  /\ runner.pc = "wire" => runner.said \in {"travelling", "taken"}
  /\ runner.pc = "mark" => runner.said \in {"ok", "refused", "deferred", "lost"}
  /\ runner.pc = "settle" => runner.said \in {"accepted", "rejected", "uncertain", "deferred"}

\* The runner's message is its own: marked so in the list until it is settled, and
\* in its record while it is being sent.
Hold ==
  /\ runner.pc \in {"send", "wire", "mark", "file", "settle"} =>
       item[runner.at] \in {"sending", "deleted"}
  /\ runner.pc \in {"wire", "mark"} => attempt[runner.at] = "sending"
  /\ runner.pc = "file" => attempt[runner.at] = "accepted"

\* What the runner, the records and the list say the server took, it took.
Heard ==
  /\ \/ runner.pc = "wire" /\ runner.said = "taken"
     \/ runner.pc = "mark" /\ runner.said = "ok"
     \/ runner.pc = "settle" /\ runner.said = "accepted"
     => delivered[runner.at] > 0
  /\ \A k \in Items : attempt[k] \in {"accepted", "archived"} => delivered[k] > 0

One(b) == IF b THEN 1 ELSE 0

\* The runner's message may still reach the server by this try, or was refused and
\* may be tried again once the record says so.
Owes(k) ==
  /\ runner.at = k
  /\ \/ runner.pc = "wire" /\ runner.said = "travelling"
     \/ runner.pc = "mark" /\ runner.said \in {"refused", "deferred"}

Balance ==
  \A k \in Items :
    delivered[k] + One(k \in adrift) + One(Owes(k)) + One(~may_have_gone(attempt[k]))
      <= 1 + forgotten[k]

\* With a working store, and no record of it forgotten, the record of a message that
\* waits, is refused or called off allows a send; and so does that of the message the
\* runner has claimed or is about to settle as refused.
Clean ==
  \A k \in Items :
    faults = 0 /\ forgotten[k] = 0 =>
      /\ item[k] \in {"pending", "rejected", "cancelled"} => ~may_have_gone(attempt[k])
      /\ runner.pc = "send" /\ runner.at = k => ~may_have_gone(attempt[k])
      /\ runner.pc = "settle" /\ runner.said \in {"rejected", "deferred"} /\ runner.at = k =>
           ~may_have_gone(attempt[k])

IInv == TypeOK /\ Shape /\ Hold /\ Heard /\ AcceptedWent /\ Balance /\ Clean

-----------------------------------------------------------------------------
(* Facts about the operators.                                              *)

\* claim_next's first pending message is one: a set of numbers has a least one.
LEMMA FirstIsIn == ASSUME NEW S \in SUBSET Items, S # {} PROVE First(S) \in S
<1> S \subseteq Nat
  BY DEF Items
<1>1. PICK x \in S : \A y \in S : ~ (<<y, x>> \in OpToRel(<, Nat))
  BY NatLessThanWellFounded, WFMin
<1>2. ASSUME NEW y \in S PROVE x <= y
  <2>1. ~ (<<y, x>> \in {ss \in Nat \X Nat : ss[1] < ss[2]})
    BY <1>1, Zenon DEF OpToRel
  <2>2. <<y, x>> \in Nat \X Nat /\ x \in Nat /\ y \in Nat
    OBVIOUS
  <2>3. ~ (y < x)
    BY <2>1, <2>2
  <2> QED
    BY <2>2, <2>3
<1> QED
  BY <1>2 DEF First

\* The mailing before it is created.
LEMMA InitIInv == Init => IInv
<1> USE RecipientsAssumption, MailingBounds
<1>1. Init => TypeOK
  BY DEF Init, TypeOK, BatchState, ItemState, AttemptState, Runner, NoRunner, Items
<1>2. Init => Shape /\ Hold /\ Heard
  BY DEF Init, Shape, Hold, Heard, NoRunner
<1>3. Init => AcceptedWent /\ Balance /\ Clean
  BY DEF Init, AcceptedWent, Balance, Clean, One, Owes, NoRunner, may_have_gone
<1> QED
  BY <1>1, <1>2, <1>3 DEF IInv

-----------------------------------------------------------------------------
(* One lemma per action.                                                   *)

\* The mailing is created.
LEMMA MergeStartIInv ==
  ASSUME IInv, MergeStart
  PROVE  IInv'
<1> USE DEF IInv, TypeOK, Shape, Runner, NoRunner, BatchState, ItemState, AttemptState
<1>1. UNCHANGED <<item, attempt, unfiled, up, runner, adrift, delivered, forgotten, requests,
                  crashes, faults>>
  BY DEF MergeStart, store, process, server, bounds, Asked
<1>2. batch' \in BatchState /\ spawning' \in Nat
  BY DEF MergeStart
<1>3. TypeOK'
  BY <1>1, <1>2
<1>4. Shape'
  BY <1>1, <1>2 DEF Shape
<1>5. Hold'
  BY <1>1, <1>2 DEF Hold
<1>6. Heard'
  BY <1>1, <1>2 DEF Heard, Hold
<1>7. AcceptedWent'
  BY <1>1, <1>2 DEF AcceptedWent, Heard
<1>8. Balance'
  BY <1>1, <1>2 DEF Balance, Hold, Owes, One, may_have_gone
<1>9. Clean'
  BY <1>1, <1>2 DEF Clean, Hold, may_have_gone
<1> QED
  BY <1>3, <1>4, <1>5, <1>6, <1>7, <1>8, <1>9

\* A request calls off what waits; what the runner holds is not pending.
LEMMA MergeCancelIInv ==
  ASSUME IInv, MergeCancel
  PROVE  IInv'
<1> USE DEF IInv, TypeOK, Shape, Runner, NoRunner, BatchState, ItemState, AttemptState
<1>1. UNCHANGED <<attempt, unfiled, up, spawning, runner, adrift, delivered, forgotten,
                  crashes, faults>>
  BY DEF MergeCancel, store, process, server, bounds, Asked
<1>2. batch' \in BatchState /\ requests' \in Nat
  BY DEF MergeCancel, Asked
<1>3. item' = [k \in Items |-> IF item[k] = "pending" THEN "cancelled" ELSE item[k]]
  BY DEF MergeCancel
<1>4. TypeOK'
  BY <1>1, <1>2, <1>3
<1>5. Shape'
  BY <1>1, <1>2, <1>3 DEF Shape
<1>6. Hold'
  BY <1>1, <1>2, <1>3 DEF Hold
<1>7. Heard'
  BY <1>1, <1>2, <1>3 DEF Heard, Hold
<1>8. AcceptedWent'
  BY <1>1, <1>2, <1>3 DEF AcceptedWent, Heard
<1>9. Balance'
  BY <1>1, <1>2, <1>3 DEF Balance, Hold, Owes, One, may_have_gone
<1>10. Clean'
  BY <1>1, <1>2, <1>3 DEF Clean, Hold, may_have_gone
<1> QED
  BY <1>4, <1>5, <1>6, <1>7, <1>8, <1>9, <1>10

\* Carrying on retries only what was refused.
LEMMA MergeResumeIInv ==
  ASSUME IInv, NEW retry_rejected \in BOOLEAN, MergeResume(retry_rejected)
  PROVE  IInv'
<1> USE DEF IInv, TypeOK, Shape, Runner, NoRunner, BatchState, ItemState, AttemptState
<1>1. UNCHANGED <<attempt, unfiled, up, runner, adrift, delivered, forgotten, crashes, faults>>
  BY DEF MergeResume, store, process, server, bounds, Asked
<1>2. batch' \in BatchState /\ requests' \in Nat /\ spawning' \in Nat
  BY DEF MergeResume, Asked
<1>3. item' = [k \in Items |->
        IF retry_rejected /\ item[k] = "rejected" THEN "pending" ELSE item[k]]
  BY DEF MergeResume
<1>4. TypeOK'
  BY <1>1, <1>2, <1>3
<1>5. Shape'
  BY <1>1, <1>2, <1>3 DEF Shape
<1>6. Hold'
  BY <1>1, <1>2, <1>3 DEF Hold
<1>7. Heard'
  BY <1>1, <1>2, <1>3 DEF Heard, Hold
<1>8. AcceptedWent'
  BY <1>1, <1>2, <1>3 DEF AcceptedWent, Heard
<1>9. Balance'
  BY <1>1, <1>2, <1>3 DEF Balance, Hold, Owes, One, may_have_gone
<1>10. Clean'
  BY <1>1, <1>2, <1>3 DEF Clean, Hold, may_have_gone
<1> QED
  BY <1>4, <1>5, <1>6, <1>7, <1>8, <1>9, <1>10

\* A request that fails half-way has written the mailing's state only.
LEMMA RequestFailsIInv ==
  ASSUME IInv, RequestFails
  PROVE  IInv'
<1> USE DEF IInv, TypeOK, Shape, Runner, NoRunner, BatchState, ItemState, AttemptState
<1>1. UNCHANGED <<item, attempt, unfiled, up, spawning, runner, adrift, delivered, forgotten,
                  crashes>>
  BY DEF RequestFails, store, process, server, bounds, Asked
<1>2. batch' \in BatchState /\ requests' \in Nat /\ faults' \in Nat /\ faults' # 0
  BY DEF RequestFails, Asked, Fault
<1>3. TypeOK'
  BY <1>1, <1>2
<1>4. Shape'
  BY <1>1, <1>2 DEF Shape
<1>5. Hold'
  BY <1>1, <1>2 DEF Hold
<1>6. Heard'
  BY <1>1, <1>2 DEF Heard, Hold
<1>7. AcceptedWent'
  BY <1>1, <1>2 DEF AcceptedWent, Heard
<1>8. Balance'
  BY <1>1, <1>2 DEF Balance, Hold, Owes, One, may_have_gone
<1>9. Clean'
  BY <1>1, <1>2 DEF Clean, Hold, may_have_gone
<1> QED
  BY <1>3, <1>4, <1>5, <1>6, <1>7, <1>8, <1>9

\* A runner begins with nothing claimed.
LEMMA SpawnMergeIInv ==
  ASSUME IInv, SpawnMerge
  PROVE  IInv'
<1> USE DEF IInv, TypeOK, Shape, Runner, NoRunner, BatchState, ItemState, AttemptState
<1>1. UNCHANGED <<batch, item, attempt, unfiled, up, adrift, delivered, forgotten, requests,
                  crashes, faults>>
  BY DEF SpawnMerge, store, process, server, bounds, Asked
<1>2. spawning' \in Nat /\ up
  BY DEF SpawnMerge
<1>3. runner' = [pc |-> "claim", at |-> 0, said |-> "nothing"] \/ runner' = runner
  BY DEF SpawnMerge
<1>4. TypeOK'
  BY <1>1, <1>2, <1>3
<1>5. Shape'
  BY <1>1, <1>2, <1>3 DEF Shape
<1>6. Hold'
  BY <1>1, <1>2, <1>3 DEF Hold
<1>7. Heard'
  BY <1>1, <1>2, <1>3 DEF Heard, Hold
<1>8. AcceptedWent'
  BY <1>1, <1>2, <1>3 DEF AcceptedWent, Heard
<1>9. Balance'
  BY <1>1, <1>2, <1>3 DEF Balance, Hold, Owes, One, may_have_gone
<1>10. Clean'
  BY <1>1, <1>2, <1>3 DEF Clean, Hold, may_have_gone
<1> QED
  BY <1>4, <1>5, <1>6, <1>7, <1>8, <1>9, <1>10

\* Messages that go with their account say nothing.
LEMMA RemoveAccountIInv ==
  ASSUME IInv, RemoveAccount
  PROVE  IInv'
<1> USE DEF IInv, TypeOK, Shape, Runner, NoRunner, BatchState, ItemState, AttemptState
<1>1. UNCHANGED <<attempt, unfiled, up, spawning, runner, adrift, delivered, forgotten,
                  crashes, faults>>
  BY DEF RemoveAccount, store, process, server, bounds, Asked
<1>2. batch' \in BatchState /\ requests' \in Nat /\ item' = [k \in Items |-> "deleted"]
  BY DEF RemoveAccount, Asked
<1>3. TypeOK'
  BY <1>1, <1>2
<1>4. Shape'
  BY <1>1, <1>2 DEF Shape
<1>5. Hold'
  BY <1>1, <1>2 DEF Hold
<1>6. Heard'
  BY <1>1, <1>2 DEF Heard, Hold
<1>7. AcceptedWent'
  BY <1>1, <1>2 DEF AcceptedWent, Heard
<1>8. Balance'
  BY <1>1, <1>2 DEF Balance, Hold, Owes, One, may_have_gone
<1>9. Clean'
  BY <1>1, <1>2 DEF Clean, Hold, may_have_gone
<1> QED
  BY <1>3, <1>4, <1>5, <1>6, <1>7, <1>8, <1>9

\* The message claimed was pending, so its record allows a send.
LEMMA ClaimNextIInv ==
  ASSUME IInv, ClaimNext
  PROVE  IInv'
<1> USE DEF IInv, TypeOK, Shape, Runner, NoRunner, BatchState, ItemState, AttemptState
<1>1. UNCHANGED <<batch, attempt, unfiled, up, spawning, adrift, delivered, forgotten,
                  requests, crashes, faults>>
  BY DEF ClaimNext, store, process, server, bounds, Asked
<1>2. up /\ runner.pc = "claim" /\ First(Pending) \in Pending
  BY FirstIsIn DEF ClaimNext, At, Pending
<1>3. PICK f \in Items :
        /\ item[f] = "pending" /\ item' = [item EXCEPT ![f] = "sending"]
        /\ runner' = [pc |-> "send", at |-> f, said |-> "nothing"]
  BY <1>2 DEF ClaimNext, Pending
<1>4. TypeOK'
  BY <1>1, <1>2, <1>3
<1>5. Shape'
  BY <1>1, <1>2, <1>3 DEF Shape
<1>6. Hold'
  BY <1>1, <1>2, <1>3 DEF Hold
<1>7. Heard'
  BY <1>1, <1>2, <1>3 DEF Heard, Hold
<1>8. AcceptedWent'
  BY <1>1, <1>2, <1>3 DEF AcceptedWent, Heard
<1>9. Balance'
  BY <1>1, <1>2, <1>3 DEF Balance, Hold, Owes, One, may_have_gone
<1>10. Clean'
  BY <1>1, <1>2, <1>3 DEF Clean, Hold, may_have_gone
<1> QED
  BY <1>4, <1>5, <1>6, <1>7, <1>8, <1>9, <1>10

\* With nothing to claim the runner leaves its loop.
LEMMA ClaimDoneIInv ==
  ASSUME IInv, ClaimDone \/ ClaimNothing
  PROVE  IInv'
<1> USE DEF IInv, TypeOK, Shape, Runner, NoRunner, BatchState, ItemState, AttemptState
<1>1. UNCHANGED <<item, attempt, unfiled, up, spawning, adrift, delivered, forgotten, requests,
                  crashes, faults>>
  BY DEF ClaimDone, ClaimNothing, store, process, server, bounds, Asked
<1>2. batch' \in BatchState /\ up
  BY DEF ClaimDone, ClaimNothing, At, store
<1>3. runner' = [pc |-> "leaving", at |-> 0, said |-> "nothing"]
  BY DEF ClaimDone, ClaimNothing
<1>4. TypeOK'
  BY <1>1, <1>2, <1>3
<1>5. Shape'
  BY <1>1, <1>2, <1>3 DEF Shape
<1>6. Hold'
  BY <1>1, <1>2, <1>3 DEF Hold
<1>7. Heard'
  BY <1>1, <1>2, <1>3 DEF Heard, Hold
<1>8. AcceptedWent'
  BY <1>1, <1>2, <1>3 DEF AcceptedWent, Heard
<1>9. Balance'
  BY <1>1, <1>2, <1>3 DEF Balance, Hold, Owes, One, may_have_gone
<1>10. Clean'
  BY <1>1, <1>2, <1>3 DEF Clean, Hold, may_have_gone
<1> QED
  BY <1>4, <1>5, <1>6, <1>7, <1>8, <1>9, <1>10

\* A claim may be written and lost.
LEMMA ClaimFailsIInv ==
  ASSUME IInv, ClaimFails
  PROVE  IInv'
<1> USE DEF IInv, TypeOK, Shape, Runner, NoRunner, BatchState, ItemState, AttemptState
<1>1. UNCHANGED <<batch, attempt, unfiled, up, spawning, adrift, delivered, forgotten,
                  requests, crashes>>
  BY DEF ClaimFails, store, process, server, bounds, Asked
<1>2. up /\ runner.pc = "claim" /\ faults' \in Nat /\ faults' # 0
  BY DEF ClaimFails, At, Fault
<1>3. item' = item \/ \E f \in Items : item' = [item EXCEPT ![f] = "sending"]
  BY FirstIsIn DEF ClaimFails, Pending
<1>4. runner' = [pc |-> "leaving", at |-> 0, said |-> "nothing"]
  BY DEF ClaimFails
<1>5. TypeOK'
  BY <1>1, <1>2, <1>3, <1>4
<1>6. Shape'
  BY <1>1, <1>2, <1>3, <1>4 DEF Shape
<1>7. Hold'
  BY <1>1, <1>2, <1>3, <1>4 DEF Hold
<1>8. Heard'
  BY <1>1, <1>2, <1>3, <1>4 DEF Heard, Hold
<1>9. AcceptedWent'
  BY <1>1, <1>2, <1>3, <1>4 DEF AcceptedWent, Heard
<1>10. Balance'
  BY <1>1, <1>2, <1>3, <1>4 DEF Balance, Hold, Owes, One, may_have_gone
<1>11. Clean'
  BY <1>1, <1>2, <1>3, <1>4 DEF Clean, Hold, may_have_gone
<1> QED
  BY <1>5, <1>6, <1>7, <1>8, <1>9, <1>10, <1>11

\* The runner leaves merge_running.
LEMMA LeaveIInv ==
  ASSUME IInv, Leave
  PROVE  IInv'
<1> USE DEF IInv, TypeOK, Shape, Runner, NoRunner, BatchState, ItemState, AttemptState
<1>1. UNCHANGED <<batch, item, attempt, unfiled, up, spawning, adrift, delivered, forgotten,
                  requests, crashes, faults>>
  BY DEF Leave, store, process, server, bounds, Asked
<1>2. runner' = NoRunner
  BY DEF Leave
<1>3. TypeOK'
  BY <1>1, <1>2
<1>4. Shape'
  BY <1>1, <1>2 DEF Shape
<1>5. Hold'
  BY <1>1, <1>2 DEF Hold
<1>6. Heard'
  BY <1>1, <1>2 DEF Heard, Hold
<1>7. AcceptedWent'
  BY <1>1, <1>2 DEF AcceptedWent, Heard
<1>8. Balance'
  BY <1>1, <1>2 DEF Balance, Hold, Owes, One, may_have_gone
<1>9. Clean'
  BY <1>1, <1>2 DEF Clean, Hold, may_have_gone
<1> QED
  BY <1>3, <1>4, <1>5, <1>6, <1>7, <1>8, <1>9

\* The one send its record allowed is on its way.
LEMMA BeginIInv ==
  ASSUME IInv, Begin
  PROVE  IInv'
<1> USE DEF IInv, TypeOK, Shape, Runner, NoRunner, BatchState, ItemState, AttemptState
<1>1. UNCHANGED <<batch, item, up, spawning, adrift, delivered, forgotten, requests, crashes,
                  faults>>
  BY DEF Begin, store, process, server, bounds, Asked
<1>2. up /\ runner.pc = "send" /\ runner.at \in Items /\ ~may_have_gone(attempt[runner.at])
  BY DEF Begin, At
<1>3. attempt' = [attempt EXCEPT ![runner.at] = "sending"] /\ unfiled' \subseteq Items
  BY DEF Begin
<1>4. runner' = [pc |-> "wire", at |-> runner.at, said |-> "travelling"]
  BY DEF Begin, Go
<1>5. TypeOK'
  BY <1>1, <1>2, <1>3, <1>4
<1>6. Shape'
  BY <1>1, <1>2, <1>3, <1>4 DEF Shape
<1>7. Hold'
  BY <1>1, <1>2, <1>3, <1>4 DEF Hold
<1>8. Heard'
  BY <1>1, <1>2, <1>3, <1>4 DEF Heard, Hold
<1>9. AcceptedWent'
  BY <1>1, <1>2, <1>3, <1>4 DEF AcceptedWent, Heard
<1>10. Balance'
  BY <1>1, <1>2, <1>3, <1>4 DEF Balance, Hold, Owes, One, may_have_gone
<1>11. Clean'
  BY <1>1, <1>2, <1>3, <1>4 DEF Clean, Hold, may_have_gone
<1> QED
  BY <1>5, <1>6, <1>7, <1>8, <1>9, <1>10, <1>11

\* An earlier attempt settles the message only as far as its record knows.
LEMMA AlreadyAttemptedIInv ==
  ASSUME IInv, AlreadyAttempted
  PROVE  IInv'
<1> USE DEF IInv, TypeOK, Shape, Runner, NoRunner, BatchState, ItemState, AttemptState
<1>1. UNCHANGED <<batch, item, attempt, unfiled, up, spawning, adrift, delivered, forgotten,
                  requests, crashes, faults>>
  BY DEF AlreadyAttempted, store, process, server, bounds, Asked
<1>2. up /\ runner.pc = "send" /\ runner.at \in Items
  BY DEF AlreadyAttempted, At
<1>3. PICK said \in {"accepted", "uncertain"} :
        /\ runner' = [pc |-> "settle", at |-> runner.at, said |-> said]
        /\ said = "accepted" => attempt[runner.at] \in {"accepted", "archived"}
  BY DEF AlreadyAttempted, Go, merge_outcome, scheduled_outcome_of
<1>4. TypeOK'
  BY <1>1, <1>2, <1>3
<1>5. Shape'
  BY <1>1, <1>2, <1>3 DEF Shape
<1>6. Hold'
  BY <1>1, <1>2, <1>3 DEF Hold
<1>7. Heard'
  BY <1>1, <1>2, <1>3 DEF Heard, Hold
<1>8. AcceptedWent'
  BY <1>1, <1>2, <1>3 DEF AcceptedWent, Heard
<1>9. Balance'
  BY <1>1, <1>2, <1>3 DEF Balance, Hold, Owes, One, may_have_gone
<1>10. Clean'
  BY <1>1, <1>2, <1>3 DEF Clean, Hold, may_have_gone
<1> QED
  BY <1>4, <1>5, <1>6, <1>7, <1>8, <1>9, <1>10

\* A send that is refused beforehand leaves the record as it was.
LEMMA GuardRefusesIInv ==
  ASSUME IInv, GuardRefuses
  PROVE  IInv'
<1> USE DEF IInv, TypeOK, Shape, Runner, NoRunner, BatchState, ItemState, AttemptState
<1>1. UNCHANGED <<batch, item, attempt, unfiled, up, spawning, adrift, delivered, forgotten,
                  requests, crashes, faults>>
  BY DEF GuardRefuses, store, process, server, bounds, Asked
<1>2. up /\ runner.pc = "send" /\ runner.at \in Items
  BY DEF GuardRefuses, At
<1>3. runner' = [pc |-> "settle", at |-> runner.at, said |-> "rejected"]
  BY DEF GuardRefuses, Go
<1>4. TypeOK'
  BY <1>1, <1>2, <1>3
<1>5. Shape'
  BY <1>1, <1>2, <1>3 DEF Shape
<1>6. Hold'
  BY <1>1, <1>2, <1>3 DEF Hold
<1>7. Heard'
  BY <1>1, <1>2, <1>3 DEF Heard, Hold
<1>8. AcceptedWent'
  BY <1>1, <1>2, <1>3 DEF AcceptedWent, Heard
<1>9. Balance'
  BY <1>1, <1>2, <1>3 DEF Balance, Hold, Owes, One, may_have_gone
<1>10. Clean'
  BY <1>1, <1>2, <1>3 DEF Clean, Hold, may_have_gone
<1> QED
  BY <1>4, <1>5, <1>6, <1>7, <1>8, <1>9, <1>10

\* A refusal gives the send back.
LEMMA RefuseIInv ==
  ASSUME IInv, Refuse
  PROVE  IInv'
<1> USE DEF IInv, TypeOK, Shape, Runner, NoRunner, BatchState, ItemState, AttemptState
<1>1. UNCHANGED <<batch, item, attempt, unfiled, up, spawning, adrift, delivered, forgotten,
                  requests, crashes, faults>>
  BY DEF Refuse, store, process, server, bounds, Asked
<1>2. up /\ runner.pc = "wire" /\ runner.said = "travelling" /\ runner.at \in Items
  BY DEF Refuse, At
<1>3. PICK said \in {"refused", "deferred"} :
        runner' = [pc |-> "mark", at |-> runner.at, said |-> said]
  BY DEF Refuse, Go
<1>4. TypeOK'
  BY <1>1, <1>2, <1>3
<1>5. Shape'
  BY <1>1, <1>2, <1>3 DEF Shape
<1>6. Hold'
  BY <1>1, <1>2, <1>3 DEF Hold
<1>7. Heard'
  BY <1>1, <1>2, <1>3 DEF Heard, Hold
<1>8. AcceptedWent'
  BY <1>1, <1>2, <1>3 DEF AcceptedWent, Heard
<1>9. Balance'
  BY <1>1, <1>2, <1>3 DEF Balance, Hold, Owes, One, may_have_gone
<1>10. Clean'
  BY <1>1, <1>2, <1>3 DEF Clean, Hold, may_have_gone
<1> QED
  BY <1>4, <1>5, <1>6, <1>7, <1>8, <1>9, <1>10

\* The server takes what was on its way.
LEMMA ServerTakesIInv ==
  ASSUME IInv, ServerTakes
  PROVE  IInv'
<1> USE DEF IInv, TypeOK, Shape, Runner, NoRunner, BatchState, ItemState, AttemptState
<1>1. UNCHANGED <<batch, item, attempt, unfiled, up, spawning, adrift, forgotten, requests,
                  crashes, faults>>
  BY DEF ServerTakes, store, process, server, bounds, Asked
<1>2. up /\ runner.pc = "wire" /\ runner.said = "travelling" /\ runner.at \in Items
  BY DEF ServerTakes, At
<1>3. delivered' = [delivered EXCEPT ![runner.at] = @ + 1]
  BY DEF ServerTakes
<1>4. runner' = [pc |-> "wire", at |-> runner.at, said |-> "taken"]
  BY DEF ServerTakes, Go
<1>5. TypeOK'
  BY <1>1, <1>2, <1>3, <1>4
<1>6. Shape'
  BY <1>1, <1>2, <1>3, <1>4 DEF Shape
<1>7. Hold'
  BY <1>1, <1>2, <1>3, <1>4 DEF Hold
<1>8. Heard'
  BY <1>1, <1>2, <1>3, <1>4 DEF Heard, Hold
<1>9. AcceptedWent'
  BY <1>1, <1>2, <1>3, <1>4 DEF AcceptedWent, Heard
<1>10. Balance'
  BY <1>1, <1>2, <1>3, <1>4 DEF Balance, Hold, Owes, One, may_have_gone
<1>11. Clean'
  BY <1>1, <1>2, <1>3, <1>4 DEF Clean, Hold, may_have_gone
<1> QED
  BY <1>5, <1>6, <1>7, <1>8, <1>9, <1>10, <1>11

\* A yes is heard of what the server took.
LEMMA ReplyArrivesIInv ==
  ASSUME IInv, ReplyArrives
  PROVE  IInv'
<1> USE DEF IInv, TypeOK, Shape, Runner, NoRunner, BatchState, ItemState, AttemptState
<1>1. UNCHANGED <<batch, item, attempt, unfiled, up, spawning, adrift, delivered, forgotten,
                  requests, crashes, faults>>
  BY DEF ReplyArrives, store, process, server, bounds, Asked
<1>2. up /\ runner.pc = "wire" /\ runner.said = "taken" /\ runner.at \in Items
  BY DEF ReplyArrives, At
<1>3. runner' = [pc |-> "mark", at |-> runner.at, said |-> "ok"]
  BY DEF ReplyArrives, Go
<1>4. TypeOK'
  BY <1>1, <1>2, <1>3
<1>5. Shape'
  BY <1>1, <1>2, <1>3 DEF Shape
<1>6. Hold'
  BY <1>1, <1>2, <1>3 DEF Hold
<1>7. Heard'
  BY <1>1, <1>2, <1>3 DEF Heard, Hold
<1>8. AcceptedWent'
  BY <1>1, <1>2, <1>3 DEF AcceptedWent, Heard
<1>9. Balance'
  BY <1>1, <1>2, <1>3 DEF Balance, Hold, Owes, One, may_have_gone
<1>10. Clean'
  BY <1>1, <1>2, <1>3 DEF Clean, Hold, may_have_gone
<1> QED
  BY <1>4, <1>5, <1>6, <1>7, <1>8, <1>9, <1>10

\* A message whose reply is lost may still reach the server.
LEMMA ReplyLostIInv ==
  ASSUME IInv, ReplyLost
  PROVE  IInv'
<1> USE DEF IInv, TypeOK, Shape, Runner, NoRunner, BatchState, ItemState, AttemptState
<1>1. UNCHANGED <<batch, item, attempt, unfiled, up, spawning, delivered, forgotten, requests,
                  crashes, faults>>
  BY DEF ReplyLost, store, process, server, bounds, Asked
<1>2. up /\ runner.pc = "wire" /\ runner.at \in Items
  BY DEF ReplyLost, At
<1>3. adrift' = IF runner.said = "travelling" THEN adrift \cup {runner.at} ELSE adrift
  BY DEF ReplyLost
<1>4. runner' = [pc |-> "mark", at |-> runner.at, said |-> "lost"]
  BY DEF ReplyLost, Go
<1>5. TypeOK'
  BY <1>1, <1>2, <1>3, <1>4
<1>6. Shape'
  BY <1>1, <1>2, <1>3, <1>4 DEF Shape
<1>7. Hold'
  BY <1>1, <1>2, <1>3, <1>4 DEF Hold
<1>8. Heard'
  BY <1>1, <1>2, <1>3, <1>4 DEF Heard, Hold
<1>9. AcceptedWent'
  BY <1>1, <1>2, <1>3, <1>4 DEF AcceptedWent, Heard
<1>10. Balance'
  BY <1>1, <1>2, <1>3, <1>4 DEF Balance, Hold, Owes, One, may_have_gone
<1>11. Clean'
  BY <1>1, <1>2, <1>3, <1>4 DEF Clean, Hold, may_have_gone
<1> QED
  BY <1>5, <1>6, <1>7, <1>8, <1>9, <1>10, <1>11

\* It does.
LEMMA DriftsInIInv ==
  ASSUME IInv, NEW k \in Items, DriftsIn(k)
  PROVE  IInv'
<1> USE DEF IInv, TypeOK, Shape, Runner, NoRunner, BatchState, ItemState, AttemptState
<1>1. UNCHANGED <<batch, item, attempt, unfiled, up, spawning, runner, forgotten, requests,
                  crashes, faults>>
  BY DEF DriftsIn, store, process, server, bounds, Asked
<1>2. k \in adrift /\ adrift' = adrift \ {k} /\ delivered' = [delivered EXCEPT ![k] = @ + 1]
  BY DEF DriftsIn
<1>3. TypeOK'
  BY <1>1, <1>2
<1>4. Shape'
  BY <1>1, <1>2 DEF Shape
<1>5. Hold'
  BY <1>1, <1>2 DEF Hold
<1>6. Heard'
  BY <1>1, <1>2 DEF Heard, Hold
<1>7. AcceptedWent'
  BY <1>1, <1>2 DEF AcceptedWent, Heard
<1>8. Balance'
  BY <1>1, <1>2 DEF Balance, Hold, Owes, One, may_have_gone
<1>9. Clean'
  BY <1>1, <1>2 DEF Clean, Hold, may_have_gone
<1> QED
  BY <1>3, <1>4, <1>5, <1>6, <1>7, <1>8, <1>9

\* The record says what the runner heard.
LEMMA MarkAcceptedIInv ==
  ASSUME IInv, MarkAccepted
  PROVE  IInv'
<1> USE DEF IInv, TypeOK, Shape, Runner, NoRunner, BatchState, ItemState, AttemptState
<1>1. UNCHANGED <<batch, item, unfiled, up, spawning, adrift, delivered, forgotten, requests,
                  crashes, faults>>
  BY DEF MarkAccepted, store, process, server, bounds, Asked
<1>2. up /\ runner.pc = "mark" /\ runner.said = "ok" /\ runner.at \in Items
  BY DEF MarkAccepted, At
<1>3. attempt' = [attempt EXCEPT ![runner.at] = "accepted"]
  BY DEF MarkAccepted
<1>4. runner' = [pc |-> "file", at |-> runner.at, said |-> "nothing"]
  BY DEF MarkAccepted, Go
<1>5. TypeOK'
  BY <1>1, <1>2, <1>3, <1>4
<1>6. Shape'
  BY <1>1, <1>2, <1>3, <1>4 DEF Shape
<1>7. Hold'
  BY <1>1, <1>2, <1>3, <1>4 DEF Hold
<1>8. Heard'
  BY <1>1, <1>2, <1>3, <1>4 DEF Heard, Hold
<1>9. AcceptedWent'
  BY <1>1, <1>2, <1>3, <1>4 DEF AcceptedWent, Heard
<1>10. Balance'
  BY <1>1, <1>2, <1>3, <1>4 DEF Balance, Hold, Owes, One, may_have_gone
<1>11. Clean'
  BY <1>1, <1>2, <1>3, <1>4 DEF Clean, Hold, may_have_gone
<1> QED
  BY <1>5, <1>6, <1>7, <1>8, <1>9, <1>10, <1>11

\* A lost reply leaves a record in doubt, which allows no other send.
LEMMA MarkUncertainIInv ==
  ASSUME IInv, MarkUncertain
  PROVE  IInv'
<1> USE DEF IInv, TypeOK, Shape, Runner, NoRunner, BatchState, ItemState, AttemptState
<1>1. UNCHANGED <<batch, item, unfiled, up, spawning, adrift, delivered, forgotten, requests,
                  crashes, faults>>
  BY DEF MarkUncertain, store, process, server, bounds, Asked
<1>2. up /\ runner.pc = "mark" /\ runner.at \in Items
  BY DEF MarkUncertain, At
<1>3. attempt' = [attempt EXCEPT ![runner.at] = "uncertain"]
  BY DEF MarkUncertain
<1>4. runner' = [pc |-> "settle", at |-> runner.at, said |-> "uncertain"]
  BY DEF MarkUncertain, Go
<1>5. TypeOK'
  BY <1>1, <1>2, <1>3, <1>4
<1>6. Shape'
  BY <1>1, <1>2, <1>3, <1>4 DEF Shape
<1>7. Hold'
  BY <1>1, <1>2, <1>3, <1>4 DEF Hold
<1>8. Heard'
  BY <1>1, <1>2, <1>3, <1>4 DEF Heard, Hold
<1>9. AcceptedWent'
  BY <1>1, <1>2, <1>3, <1>4 DEF AcceptedWent, Heard
<1>10. Balance'
  BY <1>1, <1>2, <1>3, <1>4 DEF Balance, Hold, Owes, One, may_have_gone
<1>11. Clean'
  BY <1>1, <1>2, <1>3, <1>4 DEF Clean, Hold, may_have_gone
<1> QED
  BY <1>5, <1>6, <1>7, <1>8, <1>9, <1>10, <1>11

\* The send that a refusal gave back is allowed again.
LEMMA MarkRejectedIInv ==
  ASSUME IInv, MarkRejected
  PROVE  IInv'
<1> USE DEF IInv, TypeOK, Shape, Runner, NoRunner, BatchState, ItemState, AttemptState
<1>1. UNCHANGED <<batch, item, unfiled, up, spawning, adrift, delivered, forgotten, requests,
                  crashes, faults>>
  BY DEF MarkRejected, store, process, server, bounds, Asked
<1>2. up /\ runner.pc = "mark" /\ runner.said \in {"refused", "deferred"} /\ runner.at \in Items
  BY DEF MarkRejected, At
<1>3. attempt' = [attempt EXCEPT ![runner.at] = "rejected"]
  BY DEF MarkRejected
<1>4. PICK said \in {"rejected", "deferred"} :
        runner' = [pc |-> "settle", at |-> runner.at, said |-> said]
  BY DEF MarkRejected, Go
<1>5. TypeOK'
  BY <1>1, <1>2, <1>3, <1>4
<1>6. Shape'
  BY <1>1, <1>2, <1>3, <1>4 DEF Shape
<1>7. Hold'
  BY <1>1, <1>2, <1>3, <1>4 DEF Hold
<1>8. Heard'
  BY <1>1, <1>2, <1>3, <1>4 DEF Heard, Hold
<1>9. AcceptedWent'
  BY <1>1, <1>2, <1>3, <1>4 DEF AcceptedWent, Heard
<1>10. Balance'
  BY <1>1, <1>2, <1>3, <1>4 DEF Balance, Hold, Owes, One, may_have_gone
<1>11. Clean'
  BY <1>1, <1>2, <1>3, <1>4 DEF Clean, Hold, may_have_gone
<1> QED
  BY <1>5, <1>6, <1>7, <1>8, <1>9, <1>10, <1>11

\* The copy in Sent is filed or not.
LEMMA FileIInv ==
  ASSUME IInv, File
  PROVE  IInv'
<1> USE DEF IInv, TypeOK, Shape, Runner, NoRunner, BatchState, ItemState, AttemptState
<1>1. UNCHANGED <<batch, item, up, spawning, adrift, delivered, forgotten, requests, crashes,
                  faults>>
  BY DEF File, store, process, server, bounds, Asked
<1>2. up /\ runner.pc = "file" /\ runner.at \in Items
  BY DEF File, At
<1>3. /\ attempt' = attempt \/ attempt' = [attempt EXCEPT ![runner.at] = "archived"]
      /\ unfiled' \subseteq Items
  BY <1>2 DEF File
<1>4. runner' = [pc |-> "settle", at |-> runner.at, said |-> "accepted"]
  BY DEF File, Go
<1>5. TypeOK'
  BY <1>1, <1>2, <1>3, <1>4
<1>6. Shape'
  BY <1>1, <1>2, <1>3, <1>4 DEF Shape
<1>7. Hold'
  BY <1>1, <1>2, <1>3, <1>4 DEF Hold
<1>8. Heard'
  BY <1>1, <1>2, <1>3, <1>4 DEF Heard, Hold
<1>9. AcceptedWent'
  BY <1>1, <1>2, <1>3, <1>4 DEF AcceptedWent, Heard
<1>10. Balance'
  BY <1>1, <1>2, <1>3, <1>4 DEF Balance, Hold, Owes, One, may_have_gone
<1>11. Clean'
  BY <1>1, <1>2, <1>3, <1>4 DEF Clean, Hold, may_have_gone
<1> QED
  BY <1>5, <1>6, <1>7, <1>8, <1>9, <1>10, <1>11

\* A store that fails inside perform_send leaves the record where it was.
LEMMA SendFailsIInv ==
  ASSUME IInv, SendFails
  PROVE  IInv'
<1> USE DEF IInv, TypeOK, Shape, Runner, NoRunner, BatchState, ItemState, AttemptState
<1>1. UNCHANGED <<batch, item, attempt, unfiled, up, spawning, adrift, delivered, forgotten,
                  requests, crashes>>
  BY DEF SendFails, store, process, server, bounds, Asked
<1>2. up /\ runner.pc \in {"send", "mark", "file"} /\ runner.at \in Items
  BY DEF SendFails, At
<1>3. faults' \in Nat /\ faults' # 0
  BY DEF SendFails, Fault
<1>4. runner' = [pc |-> "settle", at |-> runner.at, said |-> "rejected"]
  BY DEF SendFails, Go
<1>5. TypeOK'
  BY <1>1, <1>2, <1>3, <1>4
<1>6. Shape'
  BY <1>1, <1>2, <1>3, <1>4 DEF Shape
<1>7. Hold'
  BY <1>1, <1>2, <1>3, <1>4 DEF Hold
<1>8. Heard'
  BY <1>1, <1>2, <1>3, <1>4 DEF Heard, Hold
<1>9. AcceptedWent'
  BY <1>1, <1>2, <1>3, <1>4 DEF AcceptedWent, Heard
<1>10. Balance'
  BY <1>1, <1>2, <1>3, <1>4 DEF Balance, Hold, Owes, One, may_have_gone
<1>11. Clean'
  BY <1>1, <1>2, <1>3, <1>4 DEF Clean, Hold, may_have_gone
<1> QED
  BY <1>5, <1>6, <1>7, <1>8, <1>9, <1>10, <1>11

\* The list gets the outcome.
LEMMA SettleIInv ==
  ASSUME IInv, Settle
  PROVE  IInv'
<1> USE DEF IInv, TypeOK, Shape, Runner, NoRunner, BatchState, ItemState, AttemptState
<1>1. UNCHANGED <<attempt, unfiled, up, spawning, adrift, delivered, forgotten, requests,
                  crashes, faults>>
  BY DEF Settle, store, process, server, bounds, Asked
<1>2. up /\ runner.pc = "settle" /\ runner.at \in Items /\ batch' \in BatchState
  BY DEF Settle, At
<1>3. item' = [item EXCEPT ![runner.at] =
        IF @ = "deleted" THEN @ ELSE IF runner.said = "deferred" THEN "pending" ELSE runner.said]
  BY DEF Settle
<1>4. runner' = [pc |-> "sleep", at |-> runner.at, said |-> "nothing"]
  BY DEF Settle, Go
<1>5. TypeOK'
  BY <1>1, <1>2, <1>3, <1>4
<1>6. Shape'
  BY <1>1, <1>2, <1>3, <1>4 DEF Shape
<1>7. Hold'
  BY <1>1, <1>2, <1>3, <1>4 DEF Hold
<1>8. Heard'
  BY <1>1, <1>2, <1>3, <1>4 DEF Heard, Hold
<1>9. AcceptedWent'
  BY <1>1, <1>2, <1>3, <1>4 DEF AcceptedWent, Heard
<1>10. Balance'
  BY <1>1, <1>2, <1>3, <1>4 DEF Balance, Hold, Owes, One, may_have_gone
<1>11. Clean'
  BY <1>1, <1>2, <1>3, <1>4 DEF Clean, Hold, may_have_gone
<1> QED
  BY <1>5, <1>6, <1>7, <1>8, <1>9, <1>10, <1>11

\* Or does not.
LEMMA SettleFailsIInv ==
  ASSUME IInv, SettleFails
  PROVE  IInv'
<1> USE DEF IInv, TypeOK, Shape, Runner, NoRunner, BatchState, ItemState, AttemptState
<1>1. UNCHANGED <<batch, attempt, unfiled, up, spawning, adrift, delivered, forgotten,
                  requests, crashes>>
  BY DEF SettleFails, store, process, server, bounds, Asked
<1>2. up /\ runner.pc = "settle" /\ runner.at \in Items /\ faults' \in Nat /\ faults' # 0
  BY DEF SettleFails, At, Fault
<1>3. item' = item \/ item' = [item EXCEPT ![runner.at] = "pending"]
  BY DEF SettleFails
<1>4. runner' = [pc |-> "sleep", at |-> runner.at, said |-> "nothing"]
  BY DEF SettleFails, Go
<1>5. TypeOK'
  BY <1>1, <1>2, <1>3, <1>4
<1>6. Shape'
  BY <1>1, <1>2, <1>3, <1>4 DEF Shape
<1>7. Hold'
  BY <1>1, <1>2, <1>3, <1>4 DEF Hold
<1>8. Heard'
  BY <1>1, <1>2, <1>3, <1>4 DEF Heard, Hold
<1>9. AcceptedWent'
  BY <1>1, <1>2, <1>3, <1>4 DEF AcceptedWent, Heard
<1>10. Balance'
  BY <1>1, <1>2, <1>3, <1>4 DEF Balance, Hold, Owes, One, may_have_gone
<1>11. Clean'
  BY <1>1, <1>2, <1>3, <1>4 DEF Clean, Hold, may_have_gone
<1> QED
  BY <1>5, <1>6, <1>7, <1>8, <1>9, <1>10, <1>11

\* The runner claims again.
LEMMA WakeIInv ==
  ASSUME IInv, Wake
  PROVE  IInv'
<1> USE DEF IInv, TypeOK, Shape, Runner, NoRunner, BatchState, ItemState, AttemptState
<1>1. UNCHANGED <<batch, item, attempt, unfiled, up, spawning, adrift, delivered, forgotten,
                  requests, crashes, faults>>
  BY DEF Wake, store, process, server, bounds, Asked
<1>2. up
  BY DEF Wake, At
<1>3. runner' = [pc |-> "claim", at |-> 0, said |-> "nothing"]
  BY DEF Wake
<1>4. TypeOK'
  BY <1>1, <1>2, <1>3
<1>5. Shape'
  BY <1>1, <1>2, <1>3 DEF Shape
<1>6. Hold'
  BY <1>1, <1>2, <1>3 DEF Hold
<1>7. Heard'
  BY <1>1, <1>2, <1>3 DEF Heard, Hold
<1>8. AcceptedWent'
  BY <1>1, <1>2, <1>3 DEF AcceptedWent, Heard
<1>9. Balance'
  BY <1>1, <1>2, <1>3 DEF Balance, Hold, Owes, One, may_have_gone
<1>10. Clean'
  BY <1>1, <1>2, <1>3 DEF Clean, Hold, may_have_gone
<1> QED
  BY <1>4, <1>5, <1>6, <1>7, <1>8, <1>9, <1>10

\* What was on its way when the process ended may still arrive.
LEMMA CrashIInv ==
  ASSUME IInv, Crash
  PROVE  IInv'
<1> USE DEF IInv, TypeOK, Shape, Runner, NoRunner, BatchState, ItemState, AttemptState
<1>1. UNCHANGED <<batch, item, attempt, unfiled, delivered, forgotten, requests, faults>>
  BY DEF Crash, store, process, server, bounds, Asked
<1>2. up' = FALSE /\ spawning' \in Nat /\ runner' = NoRunner /\ crashes' \in Nat
  BY DEF Crash
<1>3. adrift' = IF runner.pc = "wire" /\ runner.said = "travelling"
                THEN adrift \cup {runner.at} ELSE adrift
  BY DEF Crash
<1>4. TypeOK'
  BY <1>1, <1>2, <1>3
<1>5. Shape'
  BY <1>1, <1>2, <1>3 DEF Shape
<1>6. Hold'
  BY <1>1, <1>2, <1>3 DEF Hold
<1>7. Heard'
  BY <1>1, <1>2, <1>3 DEF Heard, Hold
<1>8. AcceptedWent'
  BY <1>1, <1>2, <1>3 DEF AcceptedWent, Heard
<1>9. Balance'
  BY <1>1, <1>2, <1>3 DEF Balance, Hold, Owes, One, may_have_gone
<1>10. Clean'
  BY <1>1, <1>2, <1>3 DEF Clean, Hold, may_have_gone
<1> QED
  BY <1>4, <1>5, <1>6, <1>7, <1>8, <1>9, <1>10

\* What startup does to the records: an interrupted one is in doubt, or stays as it is,
\* and one that is pruned is forgotten or allowed a send before.
LEMMA ReconcileLeaves ==
  ASSUME TypeOK, NEW P \in SUBSET Items, NEW marked \in BOOLEAN, Reconcile(P, marked)
  PROVE  /\ attempt' \in [Items -> AttemptState] /\ unfiled' \subseteq Items
         /\ forgotten' \in [Items -> Nat]
         /\ \A k \in Items :
              /\ attempt'[k] \in {"accepted", "archived"} => attempt'[k] = attempt[k]
              /\ forgotten[k] <= forgotten'[k]
              /\ \/ /\ forgotten'[k] = forgotten[k]
                    /\ may_have_gone(attempt'[k]) <=> may_have_gone(attempt[k])
                 \/ /\ forgotten'[k] = forgotten[k] + 1
                    /\ may_have_gone(attempt[k])
<1> USE DEF TypeOK, Reconcile
<1>1. attempt' \in [Items -> AttemptState]
  BY DEF AttemptState, mark_interrupted_uncertain
<1>2. unfiled' \subseteq Items /\ forgotten' \in [Items -> Nat]
  OBVIOUS
<1>3. ASSUME NEW k \in Items
      PROVE  /\ attempt'[k] \in {"accepted", "archived"} => attempt'[k] = attempt[k]
             /\ forgotten[k] <= forgotten'[k]
             /\ \/ /\ forgotten'[k] = forgotten[k]
                   /\ may_have_gone(attempt'[k]) <=> may_have_gone(attempt[k])
                \/ /\ forgotten'[k] = forgotten[k] + 1
                   /\ may_have_gone(attempt[k])
  <2>1. attempt'[k] = IF k \in P THEN "none"
                      ELSE IF marked THEN mark_interrupted_uncertain(attempt[k]) ELSE attempt[k]
    OBVIOUS
  <2>2. /\ forgotten'[k] =
             IF k \in P /\ may_have_gone(attempt[k]) THEN forgotten[k] + 1 ELSE forgotten[k]
        /\ forgotten[k] \in Nat
    OBVIOUS
  <2> QED
    BY <2>1, <2>2 DEF may_have_gone, mark_interrupted_uncertain
<1> QED
  BY <1>1, <1>2, <1>3

\* What recover makes of a message follows its record.
LEMMA RecoveredFollows ==
  ASSUME NEW a \in AttemptState
  PROVE  /\ recovered(a) \in {"accepted", "rejected", "pending", "uncertain"}
         /\ recovered(a) = "accepted" => a \in {"accepted", "archived"}
         /\ recovered(a) \in {"pending", "rejected"} => ~may_have_gone(a)
BY DEF recovered, AttemptState, may_have_gone

\* The next start settles what was on its way from its record.
LEMMA StartupIInv ==
  ASSUME IInv, Startup
  PROVE  IInv'
<1> USE DEF IInv, TypeOK, Shape, Runner, NoRunner, BatchState, ItemState, AttemptState
<1>1. UNCHANGED <<spawning, runner, adrift, delivered, requests, crashes, faults>>
  BY DEF Startup, store, process, server, bounds, Asked
<1>2. ~up /\ up' = TRUE /\ runner = NoRunner /\ batch' \in BatchState
  BY DEF Startup
<1>3. PICK P \in SUBSET Items : \E marked \in BOOLEAN : Reconcile(P, marked)
  BY DEF Startup
<1>4. /\ attempt' \in [Items -> AttemptState] /\ unfiled' \subseteq Items
      /\ forgotten' \in [Items -> Nat]
      /\ \A k \in Items :
           /\ attempt'[k] \in {"accepted", "archived"} => attempt'[k] = attempt[k]
           /\ forgotten[k] <= forgotten'[k]
           /\ \/ /\ forgotten'[k] = forgotten[k]
                 /\ may_have_gone(attempt'[k]) <=> may_have_gone(attempt[k])
              \/ forgotten'[k] = forgotten[k] + 1 /\ may_have_gone(attempt[k])
  BY <1>3, ReconcileLeaves
<1>5. PICK R \in SUBSET Items :
        item' = [k \in Items |-> IF k \in R THEN recovered(attempt'[k]) ELSE item[k]]
  <2>1. item' = [k \in Items |-> IF k \in {j \in Items : item[j] = "sending"}
                                  THEN recovered(attempt'[k]) ELSE item[k]]
    BY DEF Startup
  <2> QED
    BY <2>1
<1>6. TypeOK'
  BY <1>1, <1>2, <1>3, <1>4, <1>5, RecoveredFollows
<1>7. Shape'
  BY <1>1, <1>2, <1>3, <1>4, <1>5, RecoveredFollows DEF Shape
<1>8. Hold'
  BY <1>1, <1>2, <1>3, <1>4, <1>5, RecoveredFollows DEF Hold
<1>9. Heard'
  BY <1>1, <1>2, <1>3, <1>4, <1>5, RecoveredFollows DEF Heard
<1>10. AcceptedWent'
  BY <1>1, <1>2, <1>3, <1>4, <1>5, RecoveredFollows DEF AcceptedWent, Heard
<1>11. Balance'
  BY <1>1, <1>2, <1>3, <1>4, <1>5, RecoveredFollows DEF Balance, Owes, One
<1>12. Clean'
  BY <1>1, <1>2, <1>3, <1>4, <1>5, RecoveredFollows DEF Clean
<1> QED
  BY <1>6, <1>7, <1>8, <1>9, <1>10, <1>11, <1>12

\* A start whose store fails settles some of it.
LEMMA StartupFailsIInv ==
  ASSUME IInv, StartupFails
  PROVE  IInv'
<1> USE DEF IInv, TypeOK, Shape, Runner, NoRunner, BatchState, ItemState, AttemptState
<1>1. UNCHANGED <<spawning, runner, adrift, delivered, requests, crashes>>
  BY DEF StartupFails, store, process, server, bounds, Asked
<1>2. ~up /\ up' = TRUE /\ runner = NoRunner /\ batch' \in BatchState /\ faults' \in Nat /\ faults' # 0
  BY DEF StartupFails, Fault
<1>3. PICK P \in SUBSET Items : \E marked \in BOOLEAN : Reconcile(P, marked)
  BY DEF StartupFails
<1>4. /\ attempt' \in [Items -> AttemptState] /\ unfiled' \subseteq Items
      /\ forgotten' \in [Items -> Nat]
      /\ \A k \in Items :
           /\ attempt'[k] \in {"accepted", "archived"} => attempt'[k] = attempt[k]
           /\ forgotten[k] <= forgotten'[k]
           /\ \/ /\ forgotten'[k] = forgotten[k]
                 /\ may_have_gone(attempt'[k]) <=> may_have_gone(attempt[k])
              \/ forgotten'[k] = forgotten[k] + 1 /\ may_have_gone(attempt[k])
  BY <1>3, ReconcileLeaves
<1>5. PICK R \in SUBSET Items :
        item' = [k \in Items |-> IF k \in R THEN recovered(attempt'[k]) ELSE item[k]]
  <2>1. CASE item' = [k \in Items |-> IF item[k] = "sending" THEN recovered(attempt'[k]) ELSE item[k]]
    <3>1. item' = [k \in Items |-> IF k \in {j \in Items : item[j] = "sending"}
                                    THEN recovered(attempt'[k]) ELSE item[k]]
      BY <2>1
    <3> QED
      BY <3>1
  <2> QED
    BY <2>1 DEF StartupFails
<1>6. TypeOK'
  BY <1>1, <1>2, <1>3, <1>4, <1>5, RecoveredFollows
<1>7. Shape'
  BY <1>1, <1>2, <1>3, <1>4, <1>5, RecoveredFollows DEF Shape
<1>8. Hold'
  BY <1>1, <1>2, <1>3, <1>4, <1>5, RecoveredFollows DEF Hold
<1>9. Heard'
  BY <1>1, <1>2, <1>3, <1>4, <1>5, RecoveredFollows DEF Heard
<1>10. AcceptedWent'
  BY <1>1, <1>2, <1>3, <1>4, <1>5, RecoveredFollows DEF AcceptedWent, Heard
<1>11. Balance'
  BY <1>1, <1>2, <1>3, <1>4, <1>5, RecoveredFollows DEF Balance, Owes, One
<1>12. Clean'
  BY <1>1, <1>2, <1>3, <1>4, <1>5, RecoveredFollows DEF Clean
<1> QED
  BY <1>6, <1>7, <1>8, <1>9, <1>10, <1>11, <1>12

-----------------------------------------------------------------------------
(* The theorems.                                                           *)

\* Every step keeps the invariant.
LEMMA NextIInv == IInv /\ [Next]_vars => IInv'
<1> SUFFICES ASSUME IInv, [Next]_vars PROVE IInv'
  OBVIOUS
<1>1. CASE UNCHANGED vars
  <2>1. UNCHANGED <<batch, item, attempt, unfiled, up, runner, adrift, delivered, forgotten, faults,
                    spawning, requests, crashes>>
    BY <1>1 DEF vars, store, process, server, bounds
  <2> QED
    BY <2>1 DEF IInv, TypeOK, Shape, Hold, Heard, AcceptedWent, Balance, Clean, Owes
<1>2. CASE Person \/ SpawnMerge
  BY <1>2, MergeStartIInv, MergeCancelIInv, RemoveAccountIInv, MergeResumeIInv, SpawnMergeIInv
     DEF Person
<1>3. CASE RunnerStep
  BY <1>3, ClaimNextIInv, ClaimDoneIInv, LeaveIInv, BeginIInv, AlreadyAttemptedIInv,
     GuardRefusesIInv, RefuseIInv, ServerTakesIInv, ReplyArrivesIInv, ReplyLostIInv,
     MarkAcceptedIInv, MarkUncertainIInv, MarkRejectedIInv, FileIInv, SettleIInv, WakeIInv
     DEF RunnerStep
<1>4. CASE StoreFails
  BY <1>4, RequestFailsIInv, ClaimFailsIInv, SendFailsIInv, SettleFailsIInv, StartupFailsIInv
     DEF StoreFails
<1>5. CASE (\E k \in Items : DriftsIn(k)) \/ Crash \/ Startup
  BY <1>5, DriftsInIInv, CrashIInv, StartupIInv
<1> QED
  BY <1>1, <1>2, <1>3, <1>4, <1>5 DEF Next

\* The inductive invariant holds throughout.
THEOREM MailingInvariant == Spec => []IInv
BY InitIInv, NextIInv, PTL DEF Spec

\* The mailing, its runner and the counters keep their types.
THEOREM MailingTypeCorrect == Spec => []TypeOK
<1>1. IInv => TypeOK
  BY DEF IInv
<1> QED
  BY <1>1, MailingInvariant, PTL

\* No recipient gets the message twice, whatever is stopped, carried on, interrupted or
\* not written, but for records that startup forgot (merge/mod.rs, perform_send).
THEOREM MailingNobodyGetsTwo == Spec => []NobodyGetsTwo
<1>1. IInv => NobodyGetsTwo
  <2> SUFFICES ASSUME IInv, NEW k \in Items PROVE delivered[k] <= 1 + forgotten[k]
    BY DEF NobodyGetsTwo
  <2>1. delivered[k] \in Nat /\ forgotten[k] \in Nat
    BY DEF IInv, TypeOK
  <2>2. delivered[k] + One(k \in adrift) + One(Owes(k)) + One(~may_have_gone(attempt[k]))
          <= 1 + forgotten[k]
    BY DEF IInv, Balance
  <2> QED
    BY <2>1, <2>2 DEF One
<1> QED
  BY <1>1, MailingInvariant, PTL

\* A message the list shows as accepted is with the server, whichever way it was settled.
THEOREM MailingAcceptedWent == Spec => []AcceptedWent
<1>1. IInv => AcceptedWent
  BY DEF IInv
<1> QED
  BY <1>1, MailingInvariant, PTL

\* With a working store, a message that waits, is refused or called off has not gone and
\* is on no wire, as long as its record was not forgotten.
THEOREM MailingNotGone == Spec => []NotGone
<1>1. IInv => NotGone
  <2> SUFFICES ASSUME IInv, NEW k \in Items,
                      item[k] \in {"pending", "rejected", "cancelled"},
                      forgotten[k] = 0, faults = 0
               PROVE  delivered[k] = 0 /\ k \notin adrift /\ ~(runner.at = k /\ runner.pc = "wire")
    BY DEF NotGone
  <2>1. ~may_have_gone(attempt[k])
    BY DEF IInv, Clean
  <2>2. delivered[k] + One(k \in adrift) + One(Owes(k)) + 1 <= 1
    BY <2>1 DEF IInv, Balance, One
  <2>3. delivered[k] = 0 /\ k \notin adrift
    BY <2>2 DEF IInv, TypeOK, One
  <2>4. ~(runner.at = k /\ runner.pc = "wire")
    BY <2>1 DEF IInv, Hold, may_have_gone
  <2> QED
    BY <2>3, <2>4
<1> QED
  BY <1>1, MailingInvariant, PTL

=============================================================================
