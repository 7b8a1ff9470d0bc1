------------------------ MODULE OutgoingSends_proofs ------------------------
(***************************************************************************)
(* Proofs about OutgoingSends, for any messages, any number of handlers,   *)
(* any bounds.                                                             *)
(***************************************************************************)
EXTENDS OutgoingSends, FiniteSetTheorems, TLAPS

\* The steps of one worker, its faults included.
AnyWorkerStep(w) == WorkerStep(w) \/ WorkerFault(w)

\* The definitions of what one worker's step may be.
LEMMA WorkerCases ==
  ASSUME NEW w \in Workers, AnyWorkerStep(w)
  PROVE  \/ Precheck(w) \/ PrecheckFails(w) \/ BeginAttempt(w) \/ AlreadyAttempted(w)
         \/ GuardRefuses(w) \/ BeginFails(w) \/ Connect(w) \/ Refuse(w) \/ ServerTakes(w)
         \/ ReplyArrives(w) \/ ReplyLost(w) \/ MarkAccepted(w) \/ MarkUncertain(w)
         \/ MarkRejected(w) \/ MarkArchived(w) \/ MarkArchiveFailed(w) \/ MarkFails(w)
         \/ SettleSent(w) \/ SettleUncertain(w) \/ SettleFailure(w) \/ SettleNothing(w)
         \/ SettleFails(w)
  BY DEF AnyWorkerStep, WorkerStep, WorkerFault

\* There are finitely many workers.
LEMMA WorkersFinite == IsFiniteSet(Workers)
  BY WorkersAssumption, FS_AddElement DEF Workers

\* What the types say of the workers.
JobOK ==
  /\ job \in [Workers -> Job]
  /\ \A w \in Workers : job[w].pc # "idle" => job[w].id \in Ids

\* A worker goes idle.
LEMMA IdleType ==
  ASSUME TypeOK, NEW w \in Workers, job' = [job EXCEPT ![w] = Idle]
  PROVE  /\ job' \in [Workers -> Job]
         /\ \A v \in Workers : job'[v].pc # "idle" => job'[v].id \in Ids
         /\ \A v \in Workers \ {w} : job'[v] = job[v]
         /\ job'[w] = Idle
  BY DEF TypeOK, Job, Idle

\* A worker starts on a message.
LEMMA StartType ==
  ASSUME TypeOK, NEW w \in Workers, NEW i \in Ids, NEW pc \in {"precheck", "begin"},
         NEW kind \in {"now", "scheduled"}, NEW resend \in BOOLEAN,
         job' = [job EXCEPT ![w] = Start(pc, i, kind, resend)]
  PROVE  /\ job' \in [Workers -> Job]
         /\ \A v \in Workers : job'[v].pc # "idle" => job'[v].id \in Ids
         /\ \A v \in Workers \ {w} : job'[v] = job[v]
         /\ job'[w] = Start(pc, i, kind, resend)
  BY DEF TypeOK, Job, Start

-----------------------------------------------------------------------------
(* Type correctness.                                                       *)

\* A step of a worker keeps the types.
LEMMA WorkerType ==
  ASSUME TypeOK, NEW w \in Workers, AnyWorkerStep(w)
  PROVE  TypeOK'
<1> USE DEF store, process, servers, history, bounds, At, Fault
<1>1. CASE Precheck(w)
  <2>1. JobOK'
    <3> DEFINE outcome == scheduled_send_precheck(attempt[job[w].id])
    <3>1. outcome \in {"try", "sent", "in_flight", "uncertain"}
      BY DEF scheduled_send_precheck
    <3>2. \/ Go(w, "begin", "")
          \/ Go(w, "settle", outcome) /\ outcome # "try"
      BY <1>1 DEF Precheck
    <3> HIDE DEF outcome
    <3>3. At(w, "precheck")
      BY <1>1 DEF Precheck
    <3>4. CASE Go(w, "begin", "")
      BY <3>3, <3>4 DEF Go, Job, JobOK, TypeOK
    <3>5. CASE Go(w, "settle", outcome) /\ outcome # "try"
      BY <3>1, <3>3, <3>5 DEF Go, Job, JobOK, TypeOK
    <3> QED BY <3>2, <3>4, <3>5
  <2> QED BY <1>1, <2>1 DEF Precheck, TypeOK, JobOK
<1>2. CASE PrecheckFails(w)
  <2>1. JobOK'
    BY <1>2 DEF PrecheckFails, Go, Job, JobOK, TypeOK
  <2>2. faults' \in Nat
    BY <1>2 DEF PrecheckFails, TypeOK
  <2> QED BY <1>2, <2>1, <2>2 DEF PrecheckFails, TypeOK, JobOK
<1>3. CASE BeginAttempt(w)
  <2>1. JobOK'
    BY <1>3 DEF BeginAttempt, Go, Job, JobOK, TypeOK
  <2>2. attempt' \in [Ids -> AttemptState]
    BY <1>3 DEF BeginAttempt, TypeOK, AttemptState
  <2> QED BY <1>3, <2>1, <2>2 DEF BeginAttempt, TypeOK, JobOK
<1>4. CASE AlreadyAttempted(w)
  <2>1. JobOK'
    BY <1>4 DEF AlreadyAttempted, Go, Job, JobOK, TypeOK, scheduled_outcome_of, AttemptState
  <2> QED BY <1>4, <2>1 DEF AlreadyAttempted, TypeOK, JobOK
<1>5. CASE GuardRefuses(w)
  <2>1. JobOK'
    BY <1>5 DEF GuardRefuses, Go, Job, JobOK, TypeOK
  <2> QED BY <1>5, <2>1 DEF GuardRefuses, TypeOK, JobOK
<1>6. CASE BeginFails(w)
  <2>1. JobOK'
    BY <1>6 DEF BeginFails, Go, Job, JobOK, TypeOK
  <2>2. faults' \in Nat
    BY <1>6 DEF BeginFails, TypeOK
  <2> QED BY <1>6, <2>1, <2>2 DEF BeginFails, TypeOK, JobOK
<1>7. CASE Connect(w)
  <2>1. JobOK'
    BY <1>7 DEF Connect, Go, Job, JobOK, TypeOK
  <2> QED BY <1>7, <2>1 DEF Connect, TypeOK, JobOK
<1>8. CASE Refuse(w)
  <2>1. JobOK'
    BY <1>8 DEF Refuse, Go, Job, JobOK, TypeOK
  <2> QED BY <1>8, <2>1 DEF Refuse, TypeOK, JobOK
<1>9. CASE ServerTakes(w)
  <2>1. JobOK'
    BY <1>9 DEF ServerTakes, Go, Job, JobOK, TypeOK
  <2>2. delivered' \in [Ids -> Nat]
    BY <1>9 DEF ServerTakes, TypeOK
  <2> QED BY <1>9, <2>1, <2>2 DEF ServerTakes, TypeOK, JobOK
<1>10. CASE ReplyArrives(w)
  <2>1. JobOK'
    BY <1>10 DEF ReplyArrives, Go, Job, JobOK, TypeOK
  <2> QED BY <1>10, <2>1 DEF ReplyArrives, TypeOK, JobOK
<1>11. CASE ReplyLost(w)
  <2>1. JobOK'
    BY <1>11 DEF ReplyLost, Go, Job, JobOK, TypeOK
  <2>2. adrift' \in [Ids -> Nat]
    BY <1>11 DEF ReplyLost, TypeOK
  <2> QED BY <1>11, <2>1, <2>2 DEF ReplyLost, TypeOK, JobOK
<1>12. CASE MarkAccepted(w)
  <2>1. JobOK'
    BY <1>12 DEF MarkAccepted, Go, Job, JobOK, TypeOK, set_state
  <2>2. attempt' \in [Ids -> AttemptState]
    BY <1>12 DEF MarkAccepted, TypeOK, AttemptState, set_state
  <2> QED BY <1>12, <2>1, <2>2 DEF MarkAccepted, TypeOK, JobOK
<1>13. CASE MarkUncertain(w)
  <2>1. JobOK'
    BY <1>13 DEF MarkUncertain, Go, Job, JobOK, TypeOK, set_state
  <2>2. attempt' \in [Ids -> AttemptState]
    BY <1>13 DEF MarkUncertain, TypeOK, AttemptState, set_state
  <2> QED BY <1>13, <2>1, <2>2 DEF MarkUncertain, TypeOK, JobOK
<1>14. CASE MarkRejected(w)
  <2>1. JobOK'
    BY <1>14 DEF MarkRejected, Go, Job, JobOK, TypeOK, set_state
  <2>2. attempt' \in [Ids -> AttemptState]
    BY <1>14 DEF MarkRejected, TypeOK, AttemptState, set_state
  <2> QED BY <1>14, <2>1, <2>2 DEF MarkRejected, TypeOK, JobOK
<1>15. CASE MarkArchived(w)
  <2>1. JobOK'
    BY <1>15 DEF MarkArchived, Go, Job, JobOK, TypeOK, set_state
  <2>2. attempt' \in [Ids -> AttemptState]
    BY <1>15 DEF MarkArchived, TypeOK, AttemptState, set_state
  <2> QED BY <1>15, <2>1, <2>2 DEF MarkArchived, TypeOK, JobOK
<1>16. CASE MarkArchiveFailed(w)
  <2>1. JobOK'
    BY <1>16 DEF MarkArchiveFailed, Go, Job, JobOK, TypeOK
  <2> QED BY <1>16, <2>1 DEF MarkArchiveFailed, TypeOK, JobOK
<1>17. CASE MarkFails(w)
  <2>1. JobOK'
    BY <1>17 DEF MarkFails, Go, Job, JobOK, TypeOK
  <2>2. faults' \in Nat
    BY <1>17 DEF MarkFails, TypeOK
  <2> QED BY <1>17, <2>1, <2>2 DEF MarkFails, TypeOK, JobOK
<1>18. CASE SettleSent(w)
  <2>1. JobOK'
    BY <1>18, IdleType DEF SettleSent, JobOK
  <2> QED BY <1>18, <2>1 DEF SettleSent, TypeOK, JobOK
<1>19. CASE SettleUncertain(w)
  <2>1. JobOK'
    BY <1>19, IdleType DEF SettleUncertain, JobOK
  <2>2. tries' \in [Ids -> Nat]
    BY <1>19, BoundsAssumption DEF SettleUncertain, TypeOK
  <2> QED BY <1>19, <2>1, <2>2 DEF SettleUncertain, TypeOK, JobOK
<1>20. CASE SettleFailure(w)
  <2>1. JobOK'
    BY <1>20, IdleType DEF SettleFailure, JobOK
  <2>2. tries' \in [Ids -> Nat]
    BY <1>20, BoundsAssumption DEF SettleFailure, TypeOK
  <2> QED BY <1>20, <2>1, <2>2 DEF SettleFailure, TypeOK, JobOK
<1>21. CASE SettleNothing(w)
  <2>1. JobOK'
    BY <1>21, IdleType DEF SettleNothing, JobOK
  <2> QED BY <1>21, <2>1 DEF SettleNothing, TypeOK, JobOK
<1>22. CASE SettleFails(w)
  <2>1. JobOK'
    BY <1>22, IdleType DEF SettleFails, JobOK
  <2>2. faults' \in Nat
    BY <1>22 DEF SettleFails, TypeOK
  <2> QED BY <1>22, <2>1, <2>2 DEF SettleFails, TypeOK, JobOK
<1> QED
  BY <1>1, <1>2, <1>3, <1>4, <1>5, <1>6, <1>7, <1>8, <1>9, <1>10, <1>11, <1>12, <1>13, <1>14, <1>15, <1>16, <1>17, <1>18, <1>19, <1>20, <1>21, <1>22, WorkerCases


\* A person's request keeps the types.
LEMMA PersonType ==
  ASSUME TypeOK, Person
  PROVE  TypeOK'
<1> USE DEF store, process, servers, history, bounds, Asked
<1>1. ASSUME NEW i \in Ids, ScheduleSend(i) PROVE TypeOK'
  BY <1>1 DEF ScheduleSend, TypeOK
<1>2. ASSUME NEW i \in Ids, CancelScheduledSend(i) PROVE TypeOK'
  BY <1>2 DEF CancelScheduledSend, TypeOK
<1>3. ASSUME NEW i \in Ids, ResolveOutgoing(i) PROVE TypeOK'
  BY <1>3 DEF ResolveOutgoing, TypeOK, AttemptState
<1>4. ASSUME NEW i \in Ids, RemoveAccount(i) PROVE TypeOK'
  BY <1>4, BoundsAssumption DEF RemoveAccount, TypeOK
<1>5. ASSUME NEW i \in Ids, AddAccount(i) PROVE TypeOK'
  BY <1>5 DEF AddAccount, TypeOK
<1>6. ASSUME NEW c \in Callers, NEW i \in Ids, NEW resend \in BOOLEAN,
             SendScheduledNow(c, i, resend) \/ Send(c, i, resend)
      PROVE  TypeOK'
  <2>1. JobOK'
    BY <1>6, StartType DEF SendScheduledNow, Send, JobOK, Workers
  <2>2. consent' \in [Ids -> Nat]
    BY <1>6 DEF SendScheduledNow, Send, CountConsent, TypeOK
  <2> QED BY <1>6, <2>1, <2>2 DEF SendScheduledNow, Send, TypeOK, JobOK
<1> QED BY <1>1, <1>2, <1>3, <1>4, <1>5, <1>6 DEF Person

\* A step of the watch keeps the types.
LEMMA WatchType ==
  ASSUME TypeOK, WatchStep
  PROVE  TypeOK'
<1> USE DEF store, process, servers, history, bounds, At
<1>1. CASE WatchTick
  BY <1>1 DEF WatchTick, TypeOK
<1>2. ASSUME NEW i \in Ids, WatchTake(i) PROVE TypeOK'
  <2>1. JobOK'
    BY <1>2, StartType DEF WatchTake, JobOK, Workers
  <2> QED BY <1>2, <2>1 DEF WatchTake, TypeOK, JobOK
<1>3. ASSUME NEW i \in Ids, WatchUnreadable(i) PROVE TypeOK'
  BY <1>3, BoundsAssumption DEF WatchUnreadable, TypeOK
<1> QED BY <1>1, <1>2, <1>3 DEF WatchStep

\* So do the clock, the servers, and the death of the process.
LEMMA WorldType ==
  ASSUME TypeOK, World
  PROVE  TypeOK'
<1> USE DEF store, process, servers, history, bounds
<1>1. ASSUME NEW i \in Ids, HourComes(i) PROVE TypeOK'
  BY <1>1 DEF HourComes, TypeOK
<1>2. ASSUME NEW i \in Ids, DriftsIn(i) PROVE TypeOK'
  BY <1>2 DEF DriftsIn, TypeOK
<1>3. ASSUME NEW i \in Ids, DriftsAway(i) PROVE TypeOK'
  BY <1>3 DEF DriftsAway, TypeOK
<1>4. CASE Crash
  <2>1. \A i \in Ids : Cardinality(Travelling(i)) \in Nat
    BY WorkersFinite, FS_Subset, FS_CardinalityType DEF Travelling
  <2>2. adrift' \in [Ids -> Nat]
    BY <1>4, <2>1 DEF Crash, TypeOK
  <2>3. JobOK'
    BY <1>4 DEF Crash, JobOK, Job, Idle
  <2>4. crashes' \in Nat
    BY <1>4 DEF Crash, TypeOK
  <2> QED BY <1>4, <2>2, <2>3, <2>4 DEF Crash, TypeOK, JobOK
<1> QED BY <1>1, <1>2, <1>3, <1>4 DEF World

\* And both ways of starting.
LEMMA StartupType ==
  ASSUME TypeOK, Startup \/ StartupUnmarked
  PROVE  TypeOK'
<1> USE DEF store, process, servers, history, bounds, Fault
<1>1. PICK P \in SUBSET Ids :
         /\ prune_settled(P)
         /\ \/ attempt' = [i \in Ids |->
                 IF i \in P THEN "none" ELSE mark_interrupted_uncertain(attempt[i])]
            \/ attempt' = [i \in Ids |-> IF i \in P THEN "none" ELSE attempt[i]]
  BY DEF Startup, StartupUnmarked
<1>2. attempt' \in [Ids -> AttemptState]
  BY <1>1 DEF TypeOK, AttemptState, mark_interrupted_uncertain
<1>3. unfiled' \in [Ids -> BOOLEAN] /\ forgotten' \in [Ids -> Nat]
  BY <1>1 DEF prune_settled, TypeOK
<1>4. faults' \in Nat
  BY DEF Startup, StartupUnmarked, TypeOK
<1> QED BY <1>2, <1>3, <1>4 DEF Startup, StartupUnmarked, TypeOK

\* Before the first start (every variable of Init) the state is well typed.
LEMMA TypeInit == Init => TypeOK
<1> SUFFICES ASSUME Init PROVE TypeOK
  OBVIOUS
<1>1. JobOK
  BY DEF Init, JobOK, Job, Idle
<1> QED BY <1>1 DEF Init, TypeOK, AttemptState, JobOK

\* Every step of a request handler, the watch, the server, a crash or a start
\* keeps the state well typed.
LEMMA TypeStep == TypeOK /\ [Next]_vars => TypeOK'
<1> SUFFICES ASSUME TypeOK, [Next]_vars PROVE TypeOK'
  OBVIOUS
<1>1. CASE UNCHANGED vars
  BY <1>1 DEF vars, store, process, servers, history, bounds, TypeOK
<1>2. CASE Next
  BY <1>2, PersonType, WatchType, WorkerType, WorldType, StartupType
  DEF Next, AnyWorkerStep
<1> QED BY <1>1, <1>2

\* Type correctness: the two tables, the workers and the counters keep their
\* shape, and a worker that is not idle works on a message.
THEOREM TypeCorrect == Spec => []TypeOK
  BY TypeInit, TypeStep, PTL DEF Spec

-----------------------------------------------------------------------------
(* The balance of deliveries and permits.                                  *)

\* Two finite sets that differ at most in w.
LEMMA CardinalityStep ==
  ASSUME NEW A, NEW B, NEW w, IsFiniteSet(A), B \ {w} = A \ {w}
  PROVE  Cardinality(B) + (IF w \in A THEN 1 ELSE 0)
           = Cardinality(A) + (IF w \in B THEN 1 ELSE 0)
<1>1. IsFiniteSet(A \cup {w}) /\ B \subseteq A \cup {w}
  BY FS_AddElement
<1>2. IsFiniteSet(B)
  BY <1>1, FS_Subset
<1>3. Cardinality(A) \in Nat /\ Cardinality(B) \in Nat
  BY <1>2, FS_CardinalityType
<1>4. Cardinality(A \ {w}) = IF w \in A THEN Cardinality(A) - 1 ELSE Cardinality(A)
  BY FS_RemoveElement
<1>5. Cardinality(B \ {w}) = IF w \in B THEN Cardinality(B) - 1 ELSE Cardinality(B)
  BY <1>2, FS_RemoveElement
<1> QED BY <1>3, <1>4, <1>5

\* What one worker owes to message i.
Share(w, i) == IF job[w].id = i /\ Owes(job[w]) THEN 1 ELSE 0

\* Whether the record of i lets a send begin.
Free(i) == IF may_have_gone(attempt[i]) THEN 0 ELSE 1

\* An idle worker owes nothing.
LEMMA IdleOwesNothing == ~Owes(Idle)
  BY DEF Owes, Idle

\* A worker that starts owes only when it starts on a resend.
LEMMA StartOwes ==
  ASSUME NEW pc \in {"precheck", "begin"}, NEW i \in Ids, NEW kind \in {"now", "scheduled"},
         NEW resend \in BOOLEAN
  PROVE  /\ Start(pc, i, kind, resend).id = i
         /\ Start(pc, i, kind, resend).pc = pc
         /\ Start(pc, i, kind, resend).resend = resend
         /\ Owes(Start(pc, i, kind, resend)) <=> pc = "begin" /\ resend
  BY DEF Start, Owes

\* The debts are natural numbers.
LEMMA OwingFinite ==
  ASSUME NEW i \in Ids
  PROVE  IsFiniteSet(Owing(i)) /\ Cardinality(Owing(i)) \in Nat
  BY WorkersFinite, FS_Subset, FS_CardinalityType DEF Owing

\* When one worker moves, the debts change by what it owed and owes.
LEMMA OwingStep ==
  ASSUME NEW i \in Ids, NEW w \in Workers, \A v \in Workers \ {w} : job'[v] = job[v]
  PROVE  /\ Cardinality(Owing(i)') \in Nat
         /\ Cardinality(Owing(i)') + Share(w, i) = Cardinality(Owing(i)) + Share(w, i)'
<1>1. Owing(i)' \ {w} = Owing(i) \ {w}
  BY DEF Owing, Owes
<1>2. Owing(i)' \subseteq Workers
  BY DEF Owing
<1>3. (w \in Owing(i) <=> Share(w, i) = 1) /\ (w \notin Owing(i) <=> Share(w, i) = 0)
  BY DEF Owing, Share
<1>4. (w \in Owing(i)' <=> Share(w, i)' = 1) /\ (w \notin Owing(i)' <=> Share(w, i)' = 0)
  BY DEF Owing, Share
<1>5. Cardinality(Owing(i)') + (IF w \in Owing(i) THEN 1 ELSE 0)
        = Cardinality(Owing(i)) + (IF w \in Owing(i)' THEN 1 ELSE 0)
  BY <1>1, OwingFinite, CardinalityStep
<1> QED BY <1>2, <1>3, <1>4, <1>5, WorkersFinite, FS_Subset, FS_CardinalityType

\* A step in which one worker moves keeps the balance when what it adds to one
\* side it takes from the other.
LEMMA BalanceKept ==
  ASSUME TypeOK, TypeOK', Balance, NEW w \in Workers,
         \A v \in Workers \ {w} : job'[v] = job[v],
         \A i \in Ids :
           delivered'[i] + adrift'[i] + Share(w, i)' + Free(i)' + consent[i] + forgotten[i]
             <= delivered[i] + adrift[i] + Share(w, i) + Free(i) + consent'[i] + forgotten'[i]
  PROVE  Balance'
<1> SUFFICES ASSUME NEW i \in Ids
             PROVE  delivered'[i] + adrift'[i] + Cardinality(Owing(i)') + Free(i)'
                      <= 1 + consent'[i] + forgotten'[i]
  BY DEF Balance, Free
<1>1. delivered[i] + adrift[i] + Cardinality(Owing(i)) + Free(i) <= 1 + consent[i] + forgotten[i]
  BY DEF Balance, Free
<1>2. /\ Cardinality(Owing(i)') \in Nat
      /\ Cardinality(Owing(i)') + Share(w, i) = Cardinality(Owing(i)) + Share(w, i)'
  BY OwingStep
<1>3. Cardinality(Owing(i)) \in Nat
  BY OwingFinite
<1>4. Share(w, i) \in Nat /\ Share(w, i)' \in Nat /\ Free(i) \in Nat /\ Free(i)' \in Nat
  BY DEF Share, Free
<1>5. /\ delivered[i] \in Nat /\ adrift[i] \in Nat /\ consent[i] \in Nat /\ forgotten[i] \in Nat
      /\ delivered'[i] \in Nat /\ adrift'[i] \in Nat /\ consent'[i] \in Nat /\ forgotten'[i] \in Nat
  BY DEF TypeOK
<1> QED BY <1>1, <1>2, <1>3, <1>4, <1>5

\* What moving on does to the workers.
LEMMA GoMoves ==
  ASSUME TypeOK, NEW w \in Workers, \E pc, said : pc # "precheck" /\ Go(w, pc, said)
  PROVE  /\ \A v \in Workers \ {w} : job'[v] = job[v]
         /\ job'[w].id = job[w].id /\ job'[w].pc # "precheck"
  BY DEF TypeOK, Go

\* A worker's step moves only that worker, on the message it works on, and
\* changes no permit.
LEMMA WorkerMoves ==
  ASSUME TypeOK, NEW w \in Workers, AnyWorkerStep(w)
  PROVE  /\ \A v \in Workers \ {w} : job'[v] = job[v]
         /\ job'[w] = Idle \/ (job'[w].id = job[w].id /\ job'[w].pc # "precheck")
         /\ job[w].pc # "idle" /\ job[w].id \in Ids
         /\ UNCHANGED <<consent, forgotten, promised>>
<1>1. job[w].pc # "idle" /\ UNCHANGED history
  BY WorkerCases DEF Precheck, PrecheckFails, BeginAttempt, AlreadyAttempted, GuardRefuses,
       BeginFails, Connect, Refuse, ServerTakes, ReplyArrives, ReplyLost, MarkAccepted,
       MarkUncertain, MarkRejected, MarkArchived, MarkArchiveFailed, MarkFails, SettleSent,
       SettleUncertain, SettleFailure, SettleNothing, SettleFails, At
<1>2. (\E pc, said : pc # "precheck" /\ Go(w, pc, said)) \/ job' = [job EXCEPT ![w] = Idle]
  <2>1. CASE Precheck(w)
    BY <2>1, Zenon DEF Precheck
  <2>2. CASE PrecheckFails(w) \/ BeginAttempt(w) \/ AlreadyAttempted(w) \/ GuardRefuses(w) \/ BeginFails(w)
    BY <2>2, Zenon DEF PrecheckFails, BeginAttempt, AlreadyAttempted, GuardRefuses, BeginFails
  <2>3. CASE Connect(w) \/ Refuse(w) \/ ServerTakes(w) \/ ReplyArrives(w) \/ ReplyLost(w)
    BY <2>3, Zenon DEF Connect, Refuse, ServerTakes, ReplyArrives, ReplyLost
  <2>4. CASE \/ MarkAccepted(w) \/ MarkUncertain(w) \/ MarkRejected(w) \/ MarkArchived(w)
             \/ MarkArchiveFailed(w) \/ MarkFails(w)
    BY <2>4, Zenon DEF MarkAccepted, MarkUncertain, MarkRejected, MarkArchived, MarkArchiveFailed, MarkFails
  <2>5. CASE SettleSent(w) \/ SettleUncertain(w) \/ SettleFailure(w) \/ SettleNothing(w) \/ SettleFails(w)
    BY <2>5, Zenon DEF SettleSent, SettleUncertain, SettleFailure, SettleNothing, SettleFails
  <2> QED BY <2>1, <2>2, <2>3, <2>4, <2>5, WorkerCases
<1>3. job[w].id \in Ids
  BY <1>1 DEF TypeOK
<1> QED BY <1>1, <1>2, <1>3, GoMoves, IdleType DEF history

\* A worker's step keeps the balance.
LEMMA WorkerBalance ==
  ASSUME TypeOK, TypeOK', Balance, ResendSkipsPrecheck, NEW w \in Workers, AnyWorkerStep(w)
  PROVE  Balance'
<1>0. /\ \A v \in Workers \ {w} : job'[v] = job[v]
      /\ job'[w] = Idle \/ job'[w].id = job[w].id
      /\ job[w].pc # "idle" /\ job[w].id \in Ids
      /\ UNCHANGED <<consent, forgotten>>
  BY WorkerMoves
<1>i. PICK i \in Ids : i = job[w].id
  BY <1>0
<1>a. \A k \in Ids : /\ delivered[k] \in Nat /\ adrift[k] \in Nat /\ consent[k] \in Nat
                     /\ forgotten[k] \in Nat /\ Share(w, k) \in Nat /\ Free(k) \in Nat
  BY DEF TypeOK, Share, Free
<1>b. \A k \in Ids \ {i} : Share(w, k) = 0 /\ Share(w, k)' = 0
  <2>1. \A k \in Ids \ {i} : Share(w, k) = 0
    BY <1>i DEF Share
  <2>2. ASSUME NEW k \in Ids \ {i} PROVE Share(w, k)' = 0
    <3>1. CASE job'[w] = Idle
      BY <3>1, IdleOwesNothing DEF Share
    <3>2. CASE job'[w].id = job[w].id
      BY <3>2, <1>i DEF Share
    <3> QED BY <1>0, <3>1, <3>2
  <2> QED BY <2>1, <2>2
\* It is enough to look at the message the worker works on.
<1>c. ASSUME \A k \in Ids \ {i} : attempt'[k] = attempt[k] /\ delivered'[k] = delivered[k] /\ adrift'[k] = adrift[k],
             delivered'[i] + adrift'[i] + Share(w, i)' + Free(i)'
               <= delivered[i] + adrift[i] + Share(w, i) + Free(i)
      PROVE  Balance'
  <2>1. \A k \in Ids \ {i} : Free(k)' = Free(k)
    BY <1>c DEF Free
  <2>2. \A k \in Ids :
           delivered'[k] + adrift'[k] + Share(w, k)' + Free(k)'
             <= delivered[k] + adrift[k] + Share(w, k) + Free(k)
    BY <1>a, <1>b, <1>c, <2>1
  <2>3. \A k \in Ids : /\ Share(w, k)' \in Nat /\ Free(k)' \in Nat
                       /\ delivered'[k] \in Nat /\ adrift'[k] \in Nat
    BY DEF Share, Free, TypeOK
  <2>4. \A k \in Ids : consent'[k] = consent[k] /\ forgotten'[k] = forgotten[k]
    BY <1>0
  <2>5. \A k \in Ids :
           delivered'[k] + adrift'[k] + Share(w, k)' + Free(k)' + consent[k] + forgotten[k]
             <= delivered[k] + adrift[k] + Share(w, k) + Free(k) + consent'[k] + forgotten'[k]
    BY <1>a, <2>2, <2>3, <2>4
  <2> QED BY <1>0, <1>i, <2>5, BalanceKept
\* A step that leaves the record and the servers alone and takes on no debt.
<1>d. ASSUME UNCHANGED <<attempt, delivered, adrift>>, Owes(job'[w]) => Owes(job[w])
      PROVE  Balance'
  <2>1. Free(i)' = Free(i)
    BY <1>d DEF Free
  <2>2. Share(w, i)' <= Share(w, i)
    BY <1>0, <1>i, <1>d, IdleOwesNothing DEF Share
  <2>3. Share(w, i)' \in Nat
    BY DEF Share
  <2> QED BY <1>0, <1>i, <1>a, <1>c, <1>d, <2>1, <2>2, <2>3
<1> USE DEF At, store, servers
<1>1. CASE Precheck(w)
  <2>1. Owes(job'[w]) => Owes(job[w])
    <3>1. job[w].pc = "precheck" /\ ~job[w].resend
      BY <1>1 DEF Precheck, ResendSkipsPrecheck
    <3>2. Go(w, "begin", "") \/ \E said : Go(w, "settle", said)
      BY <1>1 DEF Precheck
    <3>3. /\ job'[w].pc \in {"begin", "settle"}
          /\ job'[w].resend = job[w].resend
      <4>1. CASE Go(w, "begin", "")
        BY <4>1 DEF Go, TypeOK
      <4>2. CASE \E said : Go(w, "settle", said)
        BY <4>2 DEF Go, TypeOK
      <4> QED BY <3>2, <4>1, <4>2
    <3> QED BY <3>1, <3>3 DEF Owes
  <2> QED BY <1>1, <1>d, <2>1 DEF Precheck
<1>2. CASE PrecheckFails(w)
  <2>1. Owes(job'[w]) => Owes(job[w])
    BY <1>2 DEF PrecheckFails, Go, Owes, TypeOK
  <2> QED BY <1>2, <1>d, <2>1 DEF PrecheckFails
<1>3. CASE AlreadyAttempted(w)
  <2>1. Owes(job'[w]) => Owes(job[w])
    BY <1>3 DEF AlreadyAttempted, Go, Owes, TypeOK
  <2> QED BY <1>3, <1>d, <2>1 DEF AlreadyAttempted
<1>4. CASE GuardRefuses(w)
  <2>1. Owes(job'[w]) => Owes(job[w])
    BY <1>4 DEF GuardRefuses, Go, Owes, TypeOK
  <2> QED BY <1>4, <1>d, <2>1 DEF GuardRefuses
<1>5. CASE BeginFails(w)
  <2>1. Owes(job'[w]) => Owes(job[w])
    BY <1>5 DEF BeginFails, Go, Owes, TypeOK
  <2> QED BY <1>5, <1>d, <2>1 DEF BeginFails
<1>6. CASE Connect(w)
  <2>1. Owes(job'[w]) => Owes(job[w])
    BY <1>6 DEF Connect, Go, Owes, TypeOK
  <2> QED BY <1>6, <1>d, <2>1 DEF Connect
<1>7. CASE Refuse(w)
  <2>1. Owes(job'[w]) => Owes(job[w])
    BY <1>7 DEF Refuse, Go, Owes, TypeOK
  <2> QED BY <1>7, <1>d, <2>1 DEF Refuse
<1>8. CASE ReplyArrives(w)
  <2>1. Owes(job'[w]) => Owes(job[w])
    BY <1>8 DEF ReplyArrives, Go, Owes, TypeOK
  <2> QED BY <1>8, <1>d, <2>1 DEF ReplyArrives
<1>9. CASE MarkArchiveFailed(w)
  <2>1. Owes(job'[w]) => Owes(job[w])
    BY <1>9 DEF MarkArchiveFailed, Go, Owes, TypeOK
  <2> QED BY <1>9, <1>d, <2>1 DEF MarkArchiveFailed
<1>10. CASE MarkFails(w)
  <2>1. Owes(job'[w]) => Owes(job[w])
    BY <1>10 DEF MarkFails, Go, Owes, TypeOK
  <2> QED BY <1>10, <1>d, <2>1 DEF MarkFails
<1>11. CASE SettleSent(w) \/ SettleUncertain(w) \/ SettleFailure(w) \/ SettleNothing(w) \/ SettleFails(w)
  <2>1. job' = [job EXCEPT ![w] = Idle] /\ UNCHANGED <<attempt, delivered, adrift>>
    BY <1>11 DEF SettleSent, SettleUncertain, SettleFailure, SettleNothing, SettleFails
  <2>2. ~Owes(job'[w])
    BY <2>1, IdleType DEF Owes, Idle
  <2> QED BY <1>d, <2>1, <2>2
<1>12. CASE BeginAttempt(w)
  <2>1. Share(w, i) = (IF job[w].resend THEN 1 ELSE 0) /\ Share(w, i)' = 1
    BY <1>0, <1>i, <1>12 DEF BeginAttempt, Go, Share, Owes, TypeOK
  <2>2. Free(i)' = 0 /\ (job[w].resend \/ Free(i) = 1)
    BY <1>0, <1>i, <1>12 DEF BeginAttempt, Free, may_have_gone, TypeOK
  <2>3. /\ UNCHANGED <<delivered, adrift>>
        /\ \A k \in Ids \ {i} : attempt'[k] = attempt[k]
    BY <1>i, <1>12 DEF BeginAttempt, TypeOK
  <2> QED BY <1>0, <1>i, <1>a, <1>c, <2>1, <2>2, <2>3
<1>13. CASE ServerTakes(w)
  <2>1. Share(w, i) = 1 /\ Share(w, i)' = 0
    BY <1>0, <1>i, <1>13 DEF ServerTakes, Go, Share, Owes, TypeOK
  <2>2. Free(i)' = Free(i) /\ UNCHANGED <<attempt, adrift>>
    BY <1>13 DEF ServerTakes, Free
  <2>3. /\ delivered'[i] = delivered[i] + 1
        /\ \A k \in Ids \ {i} : delivered'[k] = delivered[k]
    BY <1>0, <1>i, <1>13 DEF ServerTakes, TypeOK
  <2> QED BY <1>0, <1>i, <1>a, <1>c, <2>1, <2>2, <2>3
<1>14. CASE ReplyLost(w)
  <2>1. Share(w, i) = (IF job[w].said = "travelling" THEN 1 ELSE 0) /\ Share(w, i)' = 0
    BY <1>0, <1>i, <1>14 DEF ReplyLost, Go, Share, Owes, TypeOK
  <2>2. Free(i)' = Free(i) /\ UNCHANGED <<attempt, delivered>>
    BY <1>14 DEF ReplyLost, Free
  <2>3. /\ adrift'[i] = IF job[w].said = "travelling" THEN adrift[i] + 1 ELSE adrift[i]
        /\ \A k \in Ids \ {i} : adrift'[k] = adrift[k]
    BY <1>0, <1>i, <1>14 DEF ReplyLost, TypeOK
  <2> QED BY <1>0, <1>i, <1>a, <1>c, <2>1, <2>2, <2>3
<1>15. CASE MarkAccepted(w)
  <2>1. Share(w, i) = 0 /\ Share(w, i)' = 0
    BY <1>0, <1>i, <1>15 DEF MarkAccepted, Go, Share, Owes, TypeOK
  <2>2. /\ UNCHANGED <<delivered, adrift>>
        /\ \A k \in Ids \ {i} : attempt'[k] = attempt[k]
        /\ Free(i)' = 0 \/ Free(i)' = Free(i)
    BY <1>0, <1>i, <1>15 DEF MarkAccepted, set_state, Free, may_have_gone, TypeOK
  <2> QED BY <1>0, <1>i, <1>a, <1>c, <2>1, <2>2
<1>16. CASE MarkUncertain(w)
  <2>1. Share(w, i) = 0 /\ Share(w, i)' = 0
    BY <1>0, <1>i, <1>16 DEF MarkUncertain, Go, Share, Owes, TypeOK
  <2>2. /\ UNCHANGED <<delivered, adrift>>
        /\ \A k \in Ids \ {i} : attempt'[k] = attempt[k]
        /\ Free(i)' = 0 \/ Free(i)' = Free(i)
    BY <1>0, <1>i, <1>16 DEF MarkUncertain, set_state, Free, may_have_gone, TypeOK
  <2> QED BY <1>0, <1>i, <1>a, <1>c, <2>1, <2>2
<1>17. CASE MarkArchived(w)
  <2>1. Share(w, i) = 0 /\ Share(w, i)' = 0
    BY <1>0, <1>i, <1>17 DEF MarkArchived, Go, Share, Owes, TypeOK
  <2>2. /\ UNCHANGED <<delivered, adrift>>
        /\ \A k \in Ids \ {i} : attempt'[k] = attempt[k]
        /\ Free(i)' = 0 \/ Free(i)' = Free(i)
    BY <1>0, <1>i, <1>17 DEF MarkArchived, set_state, Free, may_have_gone, TypeOK
  <2> QED BY <1>0, <1>i, <1>a, <1>c, <2>1, <2>2
<1>18. CASE MarkRejected(w)
  <2>1. Share(w, i) = 1 /\ Share(w, i)' = 0
    BY <1>0, <1>i, <1>18 DEF MarkRejected, Go, Share, Owes, TypeOK
  <2>2. /\ UNCHANGED <<delivered, adrift>>
        /\ \A k \in Ids \ {i} : attempt'[k] = attempt[k]
    BY <1>i, <1>18 DEF MarkRejected, set_state, TypeOK
  <2>3. Free(i)' \in {0, 1}
    BY DEF Free
  <2> QED BY <1>0, <1>i, <1>a, <1>c, <2>1, <2>2, <2>3
<1> QED
  BY <1>1, <1>2, <1>3, <1>4, <1>5, <1>6, <1>7, <1>8, <1>9, <1>10, <1>11, <1>12, <1>13, <1>14, <1>15, <1>16, <1>17, <1>18, WorkerCases

\* The same for a step in which no worker moves.
LEMMA StillBalance ==
  ASSUME TypeOK, TypeOK', Balance, job' = job,
         \A i \in Ids :
           delivered'[i] + adrift'[i] + Free(i)' + consent[i] + forgotten[i]
             <= delivered[i] + adrift[i] + Free(i) + consent'[i] + forgotten'[i]
  PROVE  Balance'
<1>1. Watch \in Workers
  BY DEF Workers
<1>2. \A i \in Ids : Share(Watch, i)' = Share(Watch, i) /\ Share(Watch, i) \in Nat
  BY DEF Share
<1>3. \A i \in Ids :
        /\ delivered[i] \in Nat /\ adrift[i] \in Nat /\ consent[i] \in Nat /\ forgotten[i] \in Nat
        /\ delivered'[i] \in Nat /\ adrift'[i] \in Nat /\ consent'[i] \in Nat /\ forgotten'[i] \in Nat
        /\ Free(i) \in Nat /\ Free(i)' \in Nat
  BY DEF TypeOK, Free
<1>4. \A i \in Ids :
         delivered'[i] + adrift'[i] + Share(Watch, i)' + Free(i)' + consent[i] + forgotten[i]
           <= delivered[i] + adrift[i] + Share(Watch, i) + Free(i) + consent'[i] + forgotten'[i]
  BY <1>2, <1>3
<1> QED BY <1>1, <1>4, BalanceKept

\* A person's request keeps the balance: every permit is counted when given.
LEMMA PersonBalance ==
  ASSUME TypeOK, TypeOK', Balance, Person
  PROVE  Balance'
<1> USE DEF store, process, servers, history
<1>a. \A i \in Ids : /\ delivered[i] \in Nat /\ adrift[i] \in Nat /\ consent[i] \in Nat
                     /\ forgotten[i] \in Nat /\ Free(i) \in Nat
  BY DEF TypeOK, Free
<1>1. ASSUME NEW k \in Ids,
             ScheduleSend(k) \/ CancelScheduledSend(k) \/ RemoveAccount(k) \/ AddAccount(k)
      PROVE  Balance'
  <2>1. UNCHANGED <<attempt, job, delivered, adrift, consent, forgotten>>
    BY <1>1 DEF ScheduleSend, CancelScheduledSend, RemoveAccount, AddAccount
  <2>2. \A i \in Ids : Free(i)' = Free(i)
    BY <2>1 DEF Free
  <2> QED BY <1>a, <2>1, <2>2, StillBalance
<1>2. ASSUME NEW k \in Ids, ResolveOutgoing(k)
      PROVE  Balance'
  <2>1. /\ UNCHANGED <<job, delivered, adrift, forgotten>>
        /\ consent' = [consent EXCEPT ![k] = @ + 1]
    BY <1>2 DEF ResolveOutgoing
  <2>2. \A i \in Ids : Free(i)' = IF i = k THEN 1 ELSE Free(i)
    BY <1>2 DEF ResolveOutgoing, Free, may_have_gone, TypeOK
  <2>3. Free(k) = 0
    BY <1>2 DEF ResolveOutgoing, needs_a_person, Free, may_have_gone
  <2>4. \A i \in Ids : consent'[i] = IF i = k THEN consent[i] + 1 ELSE consent[i]
    BY <2>1 DEF TypeOK
  <2>5. ASSUME NEW i \in Ids
        PROVE  delivered'[i] + adrift'[i] + Free(i)' + consent[i] + forgotten[i]
                 <= delivered[i] + adrift[i] + Free(i) + consent'[i] + forgotten'[i]
    <3>1. Free(i)' + consent[i] <= Free(i) + consent'[i] /\ Free(i)' \in Nat /\ consent'[i] \in Nat
      BY <1>a, <2>2, <2>3, <2>4
    <3> QED BY <1>a, <2>1, <3>1
  <2> QED BY <2>1, <2>5, StillBalance
<1>3. ASSUME NEW c \in Callers, NEW k \in Ids, NEW resend \in BOOLEAN,
             SendScheduledNow(c, k, resend) \/ Send(c, k, resend)
      PROVE  Balance'
  <2>1. /\ c \in Workers
        /\ UNCHANGED <<attempt, delivered, adrift, forgotten>>
        /\ consent' = IF resend THEN [consent EXCEPT ![k] = @ + 1] ELSE consent
        /\ job[c].pc = "idle"
    BY <1>3 DEF SendScheduledNow, Send, CountConsent, Workers
  <2>2. PICK pc \in {"precheck", "begin"}, kind \in {"now", "scheduled"} :
           /\ job' = [job EXCEPT ![c] = Start(pc, k, kind, resend)]
           /\ resend => pc = "begin"
    BY <1>3 DEF SendScheduledNow, Send
  <2>3. /\ \A v \in Workers \ {c} : job'[v] = job[v]
        /\ job'[c] = Start(pc, k, kind, resend)
    BY <2>1, <2>2, StartType
  <2>4. \A i \in Ids : Share(c, i) = 0
    BY <2>1 DEF Share, Owes
  <2>5. \A i \in Ids : Share(c, i)' = IF i = k /\ resend THEN 1 ELSE 0
    <3>1. job'[c].id = k
      BY <2>3, StartOwes
    <3>2. Owes(job'[c]) <=> resend
      BY <2>2, <2>3, StartOwes
    <3> QED BY <3>1, <3>2 DEF Share
  <2>6. \A i \in Ids : Free(i)' = Free(i)
    BY <2>1 DEF Free
  <2>7. \A i \in Ids : consent'[i] = IF i = k /\ resend THEN consent[i] + 1 ELSE consent[i]
    BY <2>1 DEF TypeOK
  <2>8. \A i \in Ids :
           delivered'[i] + adrift'[i] + Share(c, i)' + Free(i)' + consent[i] + forgotten[i]
             <= delivered[i] + adrift[i] + Share(c, i) + Free(i) + consent'[i] + forgotten'[i]
    BY <1>a, <2>1, <2>4, <2>5, <2>6, <2>7
  <2> QED BY <2>1, <2>3, <2>8, BalanceKept
<1> QED BY <1>1, <1>2, <1>3 DEF Person

\* So does a step of the watch.
LEMMA WatchBalance ==
  ASSUME TypeOK, TypeOK', Balance, WatchStep
  PROVE  Balance'
<1> USE DEF store, servers, history
<1>a. \A i \in Ids : /\ delivered[i] \in Nat /\ adrift[i] \in Nat /\ consent[i] \in Nat
                     /\ forgotten[i] \in Nat /\ Free(i) \in Nat
  BY DEF TypeOK, Free
<1>b. UNCHANGED <<attempt, delivered, adrift, consent, forgotten>>
  BY DEF WatchStep, WatchTick, WatchTake, WatchUnreadable
<1>c. \A i \in Ids : Free(i)' = Free(i)
  BY <1>b DEF Free
<1>1. CASE job' = job
  BY <1>1, <1>a, <1>b, <1>c, StillBalance
<1>2. ASSUME NEW k \in Ids, WatchTake(k)
      PROVE  Balance'
  <2>1. Watch \in Workers /\ job[Watch].pc = "idle"
    BY <1>2 DEF WatchTake, At, Workers
  <2>2. /\ \A v \in Workers \ {Watch} : job'[v] = job[v]
        /\ job'[Watch] = Start("precheck", k, "scheduled", FALSE)
    BY <1>2, <2>1, StartType DEF WatchTake
  <2>3. \A i \in Ids : Share(Watch, i) = 0 /\ Share(Watch, i)' = 0
    <3>1. ~Owes(job[Watch])
      BY <2>1 DEF Owes
    <3>2. ~Owes(job'[Watch])
      <4>1. ~Owes(Start("precheck", k, "scheduled", FALSE))
        BY StartOwes
      <4> QED BY <2>2, <4>1
    <3> QED BY <3>1, <3>2 DEF Share
  <2>4. \A i \in Ids :
           delivered'[i] + adrift'[i] + Share(Watch, i)' + Free(i)' + consent[i] + forgotten[i]
             <= delivered[i] + adrift[i] + Share(Watch, i) + Free(i) + consent'[i] + forgotten'[i]
    BY <1>a, <1>b, <1>c, <2>3
  <2> QED BY <2>1, <2>2, <2>4, BalanceKept
<1> QED BY <1>1, <1>2 DEF WatchStep, WatchTick, WatchUnreadable

\* The servers and the death of the process keep it: what was owed is either
\* adrift afterwards or gone.
LEMMA WorldBalance ==
  ASSUME TypeOK, TypeOK', Balance, World
  PROVE  Balance'
<1> USE DEF store, process, servers, history
<1>a. \A i \in Ids : /\ delivered[i] \in Nat /\ adrift[i] \in Nat /\ consent[i] \in Nat
                     /\ forgotten[i] \in Nat /\ Free(i) \in Nat
  BY DEF TypeOK, Free
<1>b. UNCHANGED <<attempt, consent, forgotten>>
  BY DEF World, HourComes, DriftsIn, DriftsAway, Crash
<1>c. \A i \in Ids : Free(i)' = Free(i)
  BY <1>b DEF Free
<1>1. ASSUME NEW k \in Ids, HourComes(k) \/ DriftsIn(k) \/ DriftsAway(k)
      PROVE  Balance'
  <2>1. job' = job
    BY <1>1 DEF HourComes, DriftsIn, DriftsAway
  <2>2. \A i \in Ids : delivered'[i] + adrift'[i] <= delivered[i] + adrift[i]
    BY <1>1, <1>a DEF HourComes, DriftsIn, DriftsAway, TypeOK
  <2>3. \A i \in Ids : delivered'[i] \in Nat /\ adrift'[i] \in Nat
    BY DEF TypeOK
  <2>4. \A i \in Ids :
           delivered'[i] + adrift'[i] + Free(i)' + consent[i] + forgotten[i]
             <= delivered[i] + adrift[i] + Free(i) + consent'[i] + forgotten'[i]
    BY <1>a, <1>b, <1>c, <2>2, <2>3
  <2> QED BY <2>1, <2>4, StillBalance
<1>2. ASSUME Crash PROVE Balance'
  <2> SUFFICES ASSUME NEW i \in Ids
               PROVE  delivered'[i] + adrift'[i] + Cardinality(Owing(i)') + Free(i)'
                        <= 1 + consent'[i] + forgotten'[i]
    BY DEF Balance, Free
  <2>1. delivered[i] + adrift[i] + Cardinality(Owing(i)) + Free(i) <= 1 + consent[i] + forgotten[i]
    BY DEF Balance, Free
  <2>2. Owing(i)' = {}
    BY <1>2, IdleOwesNothing DEF Crash, Owing
  <2>3. Cardinality(Owing(i)') = 0
    BY <2>2, FS_EmptySet
  <2>4. Travelling(i) \subseteq Owing(i)
    BY DEF Travelling, Owing, Owes
  <2>5. /\ Cardinality(Travelling(i)) \in Nat /\ Cardinality(Owing(i)) \in Nat
        /\ Cardinality(Travelling(i)) <= Cardinality(Owing(i))
    BY <2>4, OwingFinite, FS_Subset, FS_CardinalityType
  <2>6. adrift'[i] = adrift[i] + Cardinality(Travelling(i)) /\ delivered'[i] = delivered[i]
    BY <1>2 DEF Crash
  <2>7. consent'[i] = consent[i] /\ forgotten'[i] = forgotten[i] /\ Free(i)' = Free(i)
    BY <1>b, <1>c
  <2> QED BY <1>a, <2>1, <2>3, <2>5, <2>6, <2>7
<1> QED BY <1>1, <1>2 DEF World

\* Startup keeps it: a record it forgets frees a send and counts as forgotten.
LEMMA StartupBalance ==
  ASSUME TypeOK, TypeOK', Balance, Startup \/ StartupUnmarked
  PROVE  Balance'
<1>1. UNCHANGED <<job, delivered, adrift, consent>>
  BY DEF Startup, StartupUnmarked, servers
<1>2. PICK P \in SUBSET Ids :
         /\ prune_settled(P)
         /\ \/ attempt' = [i \in Ids |->
                 IF i \in P THEN "none" ELSE mark_interrupted_uncertain(attempt[i])]
            \/ attempt' = [i \in Ids |-> IF i \in P THEN "none" ELSE attempt[i]]
  BY DEF Startup, StartupUnmarked
<1>3. ASSUME NEW i \in Ids
      PROVE  delivered'[i] + adrift'[i] + Free(i)' + consent[i] + forgotten[i]
               <= delivered[i] + adrift[i] + Free(i) + consent'[i] + forgotten'[i]
  <2>1. /\ delivered[i] \in Nat /\ adrift[i] \in Nat /\ consent[i] \in Nat
        /\ forgotten[i] \in Nat
    BY DEF TypeOK
  <2>2. CASE i \in P
    <3>1. /\ attempt'[i] = "none"
          /\ forgotten'[i] = IF may_have_gone(attempt[i]) THEN forgotten[i] + 1 ELSE forgotten[i]
      BY <1>2, <2>2 DEF prune_settled
    <3>2. Free(i)' = 1
      BY <3>1 DEF Free, may_have_gone
    <3> QED BY <1>1, <2>1, <3>1, <3>2 DEF Free
  <2>3. CASE i \notin P
    <3>1. /\ attempt'[i] \in {attempt[i], mark_interrupted_uncertain(attempt[i])}
          /\ forgotten'[i] = forgotten[i]
      BY <1>2, <2>3 DEF prune_settled
    <3>2. Free(i)' = Free(i) /\ Free(i) \in Nat
      BY <3>1 DEF Free, may_have_gone, mark_interrupted_uncertain
    <3> QED BY <1>1, <2>1, <3>1, <3>2
  <2> QED BY <2>2, <2>3
<1> QED BY <1>1, <1>3, StillBalance

-----------------------------------------------------------------------------
(* What the workers, the records and the rows say of a delivery is true.   *)

\* Deliveries are never undone.
LEMMA DeliveredGrows ==
  ASSUME TypeOK, Next, NEW i \in Ids
  PROVE  delivered[i] \in Nat /\ delivered'[i] \in Nat /\ delivered'[i] >= delivered[i]
<1>1. delivered[i] \in Nat
  BY DEF TypeOK
<1>2. CASE delivered' = delivered
  BY <1>1, <1>2
<1>3. ASSUME NEW k \in Ids, delivered' = [delivered EXCEPT ![k] = @ + 1]
      PROVE  delivered'[i] \in Nat /\ delivered'[i] >= delivered[i]
  BY <1>1, <1>3 DEF TypeOK
<1>4. ASSUME NEW w \in Workers, AnyWorkerStep(w)
      PROVE  delivered' = delivered \/ \E k \in Ids : delivered' = [delivered EXCEPT ![k] = @ + 1]
  <2>1. job[w].id \in Ids
    BY <1>4, WorkerMoves
  <2> QED BY <1>4, <2>1, WorkerCases
     DEF Precheck, PrecheckFails, BeginAttempt, AlreadyAttempted, GuardRefuses,
       BeginFails, Connect, Refuse, ServerTakes, ReplyArrives, ReplyLost, MarkAccepted,
       MarkUncertain, MarkRejected, MarkArchived, MarkArchiveFailed, MarkFails, SettleSent,
       SettleUncertain, SettleFailure, SettleNothing, SettleFails, servers
<1>5. CASE Person
  BY <1>2, <1>5 DEF Person, ScheduleSend, CancelScheduledSend, ResolveOutgoing, RemoveAccount,
                    AddAccount, SendScheduledNow, Send, servers
<1>6. CASE WatchStep
  BY <1>2, <1>6 DEF WatchStep, WatchTick, WatchTake, WatchUnreadable, servers
<1>7. CASE World
  BY <1>1, <1>2, <1>3, <1>7 DEF World, HourComes, DriftsIn, DriftsAway, Crash, servers
<1>8. CASE Startup \/ StartupUnmarked
  BY <1>2, <1>8 DEF Startup, StartupUnmarked, servers
<1> QED BY <1>1, <1>2, <1>3, <1>4, <1>5, <1>6, <1>7, <1>8 DEF Next, AnyWorkerStep

\* What is said of deliveries, by workers, records and rows.
Truthful == HeardYes /\ AcceptedReallyWent /\ ScheduledNotLost

\* A step of a worker keeps it true.
LEMMA WorkerTruth ==
  ASSUME TypeOK, TypeOK', Truthful, NEW w \in Workers, AnyWorkerStep(w)
  PROVE  Truthful'
<1>0. /\ \A v \in Workers \ {w} : job'[v] = job[v]
      /\ job'[w] = Idle \/ job'[w].id = job[w].id
      /\ job[w].pc # "idle" /\ job[w].id \in Ids
      /\ promised' = promised
  BY WorkerMoves
<1>i. PICK i \in Ids : i = job[w].id
  BY <1>0
<1>a. \A k \in Ids : /\ delivered[k] \in Nat /\ delivered'[k] \in Nat
                     /\ delivered'[k] >= delivered[k]
  BY DeliveredGrows DEF Next, AnyWorkerStep
<1>b. ASSUME Heard(job'[w]) => delivered'[i] > 0,
             \A k \in Ids : attempt'[k] \in {"accepted", "archived"} =>
                              attempt[k] \in {"accepted", "archived"} \/ delivered'[k] > 0,
             \A k \in filed : k \in filed' \/ delivered[k] > 0
      PROVE  Truthful'
  <2>1. AcceptedReallyWent'
    BY <1>a, <1>b DEF AcceptedReallyWent, Truthful
  <2>2. ScheduledNotLost'
    BY <1>0, <1>a, <1>b DEF ScheduledNotLost, Truthful, TypeOK
  <2>3. ~Heard(Idle)
    BY DEF Heard, Idle
  <2>4. Heard(job'[w]) => delivered'[job'[w].id] > 0
    BY <1>0, <1>i, <1>b, <2>3
  <2>5. ASSUME NEW v \in Workers \ {w}, Heard(job[v])
        PROVE  delivered'[job[v].id] > 0
    <3>1. job[v].pc # "idle"
      BY <2>5 DEF Heard
    <3>2. job[v].id \in Ids
      BY <3>1 DEF TypeOK
    <3> QED BY <1>a, <2>5, <3>2 DEF Truthful, HeardYes
  <2>6. HeardYes'
    BY <1>0, <2>4, <2>5 DEF HeardYes
  <2> QED BY <2>1, <2>2, <2>6 DEF Truthful
<1> USE DEF At, store, servers
<1>1. CASE PrecheckFails(w)
  <2>1. ~Heard(job'[w])
    BY <1>1 DEF PrecheckFails, Go, Heard, TypeOK
  <2> QED BY <1>1, <1>b, <2>1 DEF PrecheckFails, TypeOK
<1>2. CASE BeginAttempt(w)
  <2>1. ~Heard(job'[w])
    BY <1>2 DEF BeginAttempt, Go, Heard, TypeOK
  <2> QED BY <1>2, <1>b, <2>1 DEF BeginAttempt, TypeOK
<1>3. CASE GuardRefuses(w)
  <2>1. ~Heard(job'[w])
    BY <1>3 DEF GuardRefuses, Go, Heard, TypeOK
  <2> QED BY <1>3, <1>b, <2>1 DEF GuardRefuses, TypeOK
<1>4. CASE BeginFails(w)
  <2>1. ~Heard(job'[w])
    BY <1>4 DEF BeginFails, Go, Heard, TypeOK
  <2> QED BY <1>4, <1>b, <2>1 DEF BeginFails, TypeOK
<1>5. CASE Connect(w)
  <2>1. ~Heard(job'[w])
    BY <1>5 DEF Connect, Go, Heard, TypeOK
  <2> QED BY <1>5, <1>b, <2>1 DEF Connect, TypeOK
<1>6. CASE Refuse(w)
  <2>1. ~Heard(job'[w])
    BY <1>6 DEF Refuse, Go, Heard, TypeOK
  <2> QED BY <1>6, <1>b, <2>1 DEF Refuse, TypeOK
<1>7. CASE ReplyLost(w)
  <2>1. ~Heard(job'[w])
    BY <1>7 DEF ReplyLost, Go, Heard, TypeOK
  <2> QED BY <1>7, <1>b, <2>1 DEF ReplyLost, TypeOK
<1>8. CASE MarkUncertain(w)
  <2>1. ~Heard(job'[w])
    BY <1>8 DEF MarkUncertain, Go, Heard, TypeOK
  <2> QED BY <1>8, <1>b, <2>1 DEF MarkUncertain, TypeOK, set_state
<1>9. CASE MarkRejected(w)
  <2>1. ~Heard(job'[w])
    BY <1>9 DEF MarkRejected, Go, Heard, TypeOK
  <2> QED BY <1>9, <1>b, <2>1 DEF MarkRejected, TypeOK, set_state
<1>10. CASE MarkFails(w)
  <2>1. ~Heard(job'[w])
    BY <1>10 DEF MarkFails, Go, Heard, TypeOK
  <2> QED BY <1>10, <1>b, <2>1 DEF MarkFails, TypeOK
<1>11. CASE Precheck(w)
  <2>1. Heard(job'[w]) => attempt[i] \in {"accepted", "archived"}
    <3> DEFINE outcome == scheduled_send_precheck(attempt[i])
    <3>1. outcome = "sent" => attempt[i] \in {"accepted", "archived"}
      BY DEF scheduled_send_precheck
    <3>2. Go(w, "begin", "") \/ Go(w, "settle", outcome)
      BY <1>i, <1>11 DEF Precheck
    <3>3. outcome \notin {"taken", "ok"}
      BY DEF scheduled_send_precheck
    <3> HIDE DEF outcome
    <3>4. CASE Go(w, "begin", "")
      BY <3>4 DEF Go, Heard, TypeOK
    <3>5. CASE Go(w, "settle", outcome)
      BY <3>1, <3>3, <3>5 DEF Go, Heard, TypeOK
    <3> QED BY <3>2, <3>4, <3>5
  <2> QED BY <1>a, <1>b, <1>11, <2>1 DEF Precheck, Truthful, AcceptedReallyWent
<1>12. CASE AlreadyAttempted(w)
  <2>1. Heard(job'[w]) => attempt[i] \in {"accepted", "archived"}
    BY <1>i, <1>12 DEF AlreadyAttempted, Go, Heard, TypeOK, scheduled_outcome_of
  <2> QED BY <1>a, <1>b, <1>12, <2>1 DEF AlreadyAttempted, Truthful, AcceptedReallyWent
<1>13. CASE ServerTakes(w)
  <2>1. delivered'[i] > 0
    BY <1>i, <1>a, <1>13 DEF ServerTakes, TypeOK
  <2> QED BY <1>b, <1>13, <2>1 DEF ServerTakes
<1>14. CASE ReplyArrives(w)
  <2>1. Heard(job[w])
    BY <1>14 DEF ReplyArrives, Heard
  <2>2. delivered'[i] > 0
    BY <1>a, <1>i, <2>1 DEF Truthful, HeardYes
  <2> QED BY <1>b, <1>14, <2>2 DEF ReplyArrives
<1>15. CASE MarkAccepted(w)
  <2>1. Heard(job[w])
    BY <1>15 DEF MarkAccepted, Heard
  <2>2. delivered'[i] > 0
    BY <1>a, <1>i, <2>1 DEF Truthful, HeardYes
  <2> QED BY <1>b, <1>i, <1>15, <2>2 DEF MarkAccepted, set_state, TypeOK
<1>16. CASE MarkArchived(w)
  <2>1. Heard(job[w])
    BY <1>16 DEF MarkArchived, Heard
  <2>2. delivered'[i] > 0
    BY <1>a, <1>i, <2>1 DEF Truthful, HeardYes
  <2> QED BY <1>b, <1>i, <1>16, <2>2 DEF MarkArchived, set_state, TypeOK
<1>17. CASE MarkArchiveFailed(w)
  <2>1. Heard(job[w])
    BY <1>17 DEF MarkArchiveFailed, Heard
  <2>2. delivered'[i] > 0
    BY <1>a, <1>i, <2>1 DEF Truthful, HeardYes
  <2> QED BY <1>b, <1>i, <1>17, <2>2 DEF MarkArchiveFailed, set_state, TypeOK
<1>18. CASE SettleSent(w)
  <2>1. Heard(job[w])
    BY <1>18 DEF SettleSent, Heard
  <2>2. delivered[i] > 0 /\ delivered'[i] > 0
    BY <1>a, <1>i, <2>1 DEF Truthful, HeardYes
  <2> QED BY <1>b, <1>i, <1>18, <2>2 DEF SettleSent
<1>19. CASE SettleUncertain(w) \/ SettleFailure(w) \/ SettleNothing(w) \/ SettleFails(w)
  <2>1. /\ job' = [job EXCEPT ![w] = Idle]
        /\ UNCHANGED <<attempt, filed>>
    BY <1>19 DEF SettleUncertain, SettleFailure, SettleNothing, SettleFails
  <2>2. ~Heard(job'[w])
    BY <2>1, IdleType DEF Heard, Idle
  <2> QED BY <1>b, <2>1, <2>2
<1> QED
  BY <1>1, <1>2, <1>3, <1>4, <1>5, <1>6, <1>7, <1>8, <1>9, <1>10, <1>11, <1>12, <1>13, <1>14, <1>15, <1>16, <1>17, <1>18, <1>19, WorkerCases

\* Every other step keeps it true: none of them claims a delivery.
LEMMA OtherTruth ==
  ASSUME TypeOK, TypeOK', Truthful, Person \/ WatchStep \/ World \/ Startup \/ StartupUnmarked
  PROVE  Truthful'
<1> USE DEF store, process, servers, history
<1>a. \A k \in Ids : /\ delivered[k] \in Nat /\ delivered'[k] \in Nat
                     /\ delivered'[k] >= delivered[k]
  BY DeliveredGrows DEF Next
<1>b. \A v \in Workers : Heard(job[v]) => job[v].id \in Ids
  BY DEF Heard, TypeOK
<1>c. ASSUME \A v \in Workers : Heard(job'[v]) => job'[v] = job[v],
             \A k \in Ids : attempt'[k] \in {"accepted", "archived"} =>
                              attempt[k] \in {"accepted", "archived"},
             \A k \in promised' : k \in filed' \/ (k \in promised /\ (k \in filed => k \in filed'))
      PROVE  Truthful'
  <2>1. AcceptedReallyWent'
    BY <1>a, <1>c DEF AcceptedReallyWent, Truthful
  <2>2. ScheduledNotLost'
    BY <1>a, <1>c DEF ScheduledNotLost, Truthful, TypeOK
  <2>3. HeardYes'
    <3> SUFFICES ASSUME NEW v \in Workers, Heard(job'[v])
                 PROVE  delivered'[job'[v].id] > 0
      BY DEF HeardYes
    <3>1. job'[v] = job[v] /\ Heard(job[v])
      BY <1>c
    <3> QED BY <1>a, <1>b, <3>1 DEF Truthful, HeardYes
  <2> QED BY <2>1, <2>2, <2>3 DEF Truthful
\* A worker that starts has heard nothing yet.
<1>d. ASSUME NEW w \in Workers, NEW k \in Ids, NEW pc \in {"precheck", "begin"},
             NEW kind \in {"now", "scheduled"}, NEW resend \in BOOLEAN,
             job' = [job EXCEPT ![w] = Start(pc, k, kind, resend)]
      PROVE  \A v \in Workers : Heard(job'[v]) => job'[v] = job[v]
  <2>1. ~Heard(Start(pc, k, kind, resend))
    BY DEF Heard, Start
  <2> QED BY <1>d, <2>1, StartType
<1>1. ASSUME NEW k \in Ids,
             ScheduleSend(k) \/ CancelScheduledSend(k) \/ RemoveAccount(k) \/ AddAccount(k)
      PROVE  Truthful'
  BY <1>1, <1>c DEF ScheduleSend, CancelScheduledSend, RemoveAccount, AddAccount
<1>2. ASSUME NEW k \in Ids, ResolveOutgoing(k)
      PROVE  Truthful'
  BY <1>2, <1>c DEF ResolveOutgoing, TypeOK
<1>3. ASSUME NEW c \in Callers, NEW k \in Ids, NEW resend \in BOOLEAN,
             SendScheduledNow(c, k, resend) \/ Send(c, k, resend)
      PROVE  Truthful'
  <2>1. PICK pc \in {"precheck", "begin"}, kind \in {"now", "scheduled"} :
           job' = [job EXCEPT ![c] = Start(pc, k, kind, resend)]
    BY <1>3 DEF SendScheduledNow, Send
  <2>2. c \in Workers /\ UNCHANGED <<attempt, filed, promised>>
    BY <1>3 DEF SendScheduledNow, Send, Workers
  <2>3. \A v \in Workers : Heard(job'[v]) => job'[v] = job[v]
    BY <1>d, <2>1, <2>2
  <2> QED BY <1>c, <2>2, <2>3
<1>4. CASE WatchStep
  <2>1. UNCHANGED <<attempt, filed, promised>>
    BY <1>4 DEF WatchStep, WatchTick, WatchTake, WatchUnreadable
  <2>2. \A v \in Workers : Heard(job'[v]) => job'[v] = job[v]
    <3>1. CASE job' = job
      BY <3>1
    <3>2. ASSUME NEW k \in Ids, WatchTake(k)
          PROVE  \A v \in Workers : Heard(job'[v]) => job'[v] = job[v]
      BY <1>d, <3>2 DEF WatchTake, Workers
    <3> QED BY <1>4, <3>1, <3>2 DEF WatchStep, WatchTick, WatchUnreadable
  <2> QED BY <1>c, <2>1, <2>2
<1>5. CASE World
  <2>1. UNCHANGED <<attempt, filed, promised>>
    BY <1>5 DEF World, HourComes, DriftsIn, DriftsAway, Crash
  <2>2. ~Heard(Idle)
    BY DEF Heard, Idle
  <2>3. \A v \in Workers : Heard(job'[v]) => job'[v] = job[v]
    BY <1>5, <2>2 DEF World, HourComes, DriftsIn, DriftsAway, Crash
  <2> QED BY <1>c, <2>1, <2>3
<1>6. CASE Startup \/ StartupUnmarked
  <2>1. UNCHANGED <<job, filed, promised>>
    BY <1>6 DEF Startup, StartupUnmarked
  <2>2. \A k \in Ids : attempt'[k] \in {"accepted", "archived"} =>
                         attempt[k] \in {"accepted", "archived"}
    BY <1>6 DEF Startup, StartupUnmarked, mark_interrupted_uncertain
  <2> QED BY <1>c, <2>1, <2>2
<1> QED BY <1>1, <1>2, <1>3, <1>4, <1>5, <1>6 DEF Person

\* Only a send without the resend flag goes through the precheck.
LEMMA ResendStep ==
  ASSUME TypeOK, ResendSkipsPrecheck, Next
  PROVE  ResendSkipsPrecheck'
<1> USE DEF process
<1>1. ASSUME NEW w \in Workers, AnyWorkerStep(w)
      PROVE  ResendSkipsPrecheck'
  <2>1. /\ \A v \in Workers \ {w} : job'[v] = job[v]
        /\ job'[w] = Idle \/ job'[w].pc # "precheck"
    BY <1>1, WorkerMoves
  <2>2. Idle.pc # "precheck"
    BY DEF Idle
  <2> QED BY <2>1, <2>2 DEF ResendSkipsPrecheck
<1>2. ASSUME NEW w \in Workers, NEW k \in Ids, NEW pc \in {"precheck", "begin"},
             NEW kind \in {"now", "scheduled"}, NEW resend \in BOOLEAN, resend => pc = "begin",
             job' = [job EXCEPT ![w] = Start(pc, k, kind, resend)]
      PROVE  ResendSkipsPrecheck'
  <2>1. Start(pc, k, kind, resend).pc = "precheck" => ~Start(pc, k, kind, resend).resend
    BY <1>2 DEF Start
  <2> QED BY <1>2, <2>1, StartType DEF ResendSkipsPrecheck
<1>3. CASE job' = job
  BY <1>3 DEF ResendSkipsPrecheck
<1>4. CASE Person
  <2>1. ASSUME NEW c \in Callers, NEW k \in Ids, NEW resend \in BOOLEAN,
               SendScheduledNow(c, k, resend) \/ Send(c, k, resend)
        PROVE  ResendSkipsPrecheck'
    BY <1>2, <2>1 DEF SendScheduledNow, Send, Workers
  <2> QED BY <1>3, <1>4, <2>1
    DEF Person, ScheduleSend, CancelScheduledSend, ResolveOutgoing, RemoveAccount, AddAccount
<1>5. CASE WatchStep
  <2>1. ASSUME NEW k \in Ids, WatchTake(k)
        PROVE  ResendSkipsPrecheck'
    BY <1>2, <2>1 DEF WatchTake, Workers
  <2> QED BY <1>3, <1>5, <2>1 DEF WatchStep, WatchTick, WatchUnreadable
<1>6. CASE Crash
  BY <1>6 DEF Crash, ResendSkipsPrecheck, Idle
<1>7. CASE World
  BY <1>3, <1>6, <1>7 DEF World, HourComes, DriftsIn, DriftsAway
<1>8. CASE Startup \/ StartupUnmarked
  BY <1>3, <1>8 DEF Startup, StartupUnmarked
<1> QED BY <1>1, <1>4, <1>5, <1>7, <1>8 DEF Next, AnyWorkerStep

-----------------------------------------------------------------------------
(* The inductive invariant and what follows from it.                       *)

\* It holds before anything was sent.
LEMMA InductiveInit == Init => Inductive
<1> SUFFICES ASSUME Init PROVE Inductive
  OBVIOUS
<1>1. TypeOK
  BY TypeInit
<1>2. ~Owes(Idle) /\ ~Heard(Idle) /\ Idle.pc # "precheck"
  BY DEF Owes, Heard, Idle
<1>3. \A w \in Workers : job[w] = Idle
  BY DEF Init
<1>4. \A i \in Ids : Cardinality(Owing(i)) = 0
  BY <1>2, <1>3, FS_EmptySet DEF Owing
<1>5. Balance
  BY <1>4 DEF Init, Balance, may_have_gone
<1>6. HeardYes /\ ResendSkipsPrecheck
  BY <1>2, <1>3 DEF HeardYes, ResendSkipsPrecheck
<1>7. AcceptedReallyWent /\ ScheduledNotLost
  BY DEF Init, AcceptedReallyWent, ScheduledNotLost
<1> QED BY <1>1, <1>5, <1>6, <1>7 DEF Inductive

\* Every step keeps it.
LEMMA InductiveStep == Inductive /\ [Next]_vars => Inductive'
<1> SUFFICES ASSUME Inductive, [Next]_vars PROVE Inductive'
  OBVIOUS
<1>0. TypeOK /\ Balance /\ ResendSkipsPrecheck /\ Truthful
  BY DEF Inductive, Truthful
<1>1. TypeOK'
  BY <1>0, TypeStep
<1>2. CASE UNCHANGED vars
  BY <1>2 DEF vars, store, process, servers, history, bounds, Inductive, TypeOK, Balance, Owing,
              ResendSkipsPrecheck, HeardYes, AcceptedReallyWent, ScheduledNotLost
<1>3. CASE Next
  <2>1. Balance'
    BY <1>0, <1>1, <1>3, PersonBalance, WatchBalance, WorkerBalance, WorldBalance, StartupBalance
    DEF Next, AnyWorkerStep
  <2>2. Truthful'
    BY <1>0, <1>1, <1>3, WorkerTruth, OtherTruth DEF Next, AnyWorkerStep
  <2>3. ResendSkipsPrecheck'
    BY <1>0, <1>3, ResendStep
  <2> QED BY <1>1, <2>1, <2>2, <2>3 DEF Inductive, Truthful
<1> QED BY <1>2, <1>3

\* The invariant holds throughout.
THEOREM InductiveHolds == Spec => []Inductive
  BY InductiveInit, InductiveStep, PTL DEF Spec

\* What the balance says when no person stepped in and nothing was forgotten.
LEMMA BalanceImplies ==
  ASSUME TypeOK, Balance
  PROVE  NoUnaskedRepeat /\ RefusedNeverWent
<1>a. \A i \in Ids : /\ delivered[i] \in Nat /\ adrift[i] \in Nat /\ consent[i] \in Nat
                     /\ forgotten[i] \in Nat /\ Cardinality(Owing(i)) \in Nat
  BY OwingFinite DEF TypeOK
<1>b. \A i \in Ids :
        delivered[i] + adrift[i] + Cardinality(Owing(i)) + (IF may_have_gone(attempt[i]) THEN 0 ELSE 1)
          <= 1 + consent[i] + forgotten[i]
  BY DEF Balance
<1>1. NoUnaskedRepeat
  BY <1>a, <1>b DEF NoUnaskedRepeat
<1>2. ASSUME NEW i \in Ids, attempt[i] \in {"none", "rejected"}, consent[i] = 0, forgotten[i] = 0
      PROVE  delivered[i] = 0 /\ adrift[i] = 0 /\ Travelling(i) = {}
  <2>1. ~may_have_gone(attempt[i])
    BY <1>2 DEF may_have_gone
  <2>2. delivered[i] = 0 /\ adrift[i] = 0 /\ Cardinality(Owing(i)) = 0
    BY <1>a, <1>b, <1>2, <2>1
  <2>3. Owing(i) = {}
    BY <2>2, OwingFinite, FS_EmptySet
  <2>4. Travelling(i) \subseteq Owing(i)
    BY DEF Travelling, Owing, Owes
  <2> QED BY <2>2, <2>3, <2>4
<1> QED BY <1>1, <1>2 DEF RefusedNeverWent

\* No delivery without a permit, for any number of messages, workers, crashes
\* and faults (begin_attempt's check under the store's lock).
THEOREM NoRepeat == Spec => []NoUnaskedRepeat
<1>1. Inductive => NoUnaskedRepeat
  BY BalanceImplies DEF Inductive
<1> QED BY <1>1, InductiveHolds, PTL

\* A record that says "rejected", or its absence, is never wrong.
THEOREM RefusalIsTrue == Spec => []RefusedNeverWent
<1>1. Inductive => RefusedNeverWent
  BY BalanceImplies DEF Inductive
<1> QED BY <1>1, InductiveHolds, PTL

\* A record that says "accepted" or "archived" is never wrong.
THEOREM AcceptanceIsTrue == Spec => []AcceptedReallyWent
<1>1. Inductive => AcceptedReallyWent
  BY DEF Inductive
<1> QED BY <1>1, InductiveHolds, PTL

\* A message put off is in the list, or with a server, or was called off.
THEOREM NothingLost == Spec => []ScheduledNotLost
<1>1. Inductive => ScheduledNotLost
  BY DEF Inductive
<1> QED BY <1>1, InductiveHolds, PTL

-----------------------------------------------------------------------------
(* The sender implements the outbox.                                       *)

\* Steps the outbox cannot see.
LEMMA Unseen ==
  ASSUME UNCHANGED <<filed, promised, delivered, consent, forgotten>>
  PROVE  UNCHANGED OutboxView!vars
  BY DEF OutboxView!vars

\* A server takes a copy only while there is a permit left for it.
LEMMA TakeStep ==
  ASSUME Inductive, NEW i \in Ids, delivered' = [delivered EXCEPT ![i] = @ + 1],
         adrift[i] > 0 \/ Owing(i) # {},
         UNCHANGED <<filed, promised, consent, forgotten>>
  PROVE  OutboxView!Take(i)
<1>1. delivered[i] + adrift[i] + Cardinality(Owing(i)) + Free(i) <= 1 + consent[i] + forgotten[i]
  BY DEF Inductive, Balance, Free
<1>2. /\ delivered[i] \in Nat /\ consent[i] \in Nat /\ forgotten[i] \in Nat
      /\ adrift[i] \in Nat /\ Free(i) \in Nat
  BY DEF Inductive, TypeOK, Free
<1>3. Cardinality(Owing(i)) \in Nat /\ (Owing(i) # {} => Cardinality(Owing(i)) # 0)
  BY OwingFinite, FS_EmptySet
<1>4. delivered[i] < 1 + consent[i] + forgotten[i]
  BY <1>1, <1>2, <1>3
<1> QED BY <1>4 DEF OutboxView!Take

\* A step of a worker is a delivery, the end of a row, or invisible.
LEMMA WorkerRefines ==
  ASSUME Inductive, NEW w \in Workers, AnyWorkerStep(w)
  PROVE  OutboxView!Next \/ UNCHANGED OutboxView!vars
<1>0. /\ job[w].id \in Ids
      /\ UNCHANGED <<consent, forgotten, promised>>
  BY WorkerMoves DEF Inductive
<1>1. CASE ServerTakes(w)
  <2>1. w \in Owing(job[w].id)
    BY <1>1 DEF ServerTakes, At, Owing, Owes
  <2>2. OutboxView!Take(job[w].id)
    BY <1>0, <1>1, <2>1, TakeStep DEF ServerTakes, store
  <2> QED BY <1>0, <2>2 DEF OutboxView!Next
<1>2. CASE SettleSent(w)
  <2>1. Heard(job[w])
    BY <1>2 DEF SettleSent, Heard, At
  <2>2. delivered[job[w].id] > 0
    BY <2>1 DEF Inductive, HeardYes
  <2>3. OutboxView!Drop(job[w].id)
    BY <1>0, <1>2, <2>2 DEF SettleSent, servers, OutboxView!Drop
  <2> QED BY <1>0, <2>3 DEF OutboxView!Next
<1>3. CASE ~ServerTakes(w) /\ ~SettleSent(w)
  <2>1. UNCHANGED <<filed, delivered>>
    BY <1>3, WorkerCases
    DEF Precheck, PrecheckFails, BeginAttempt, AlreadyAttempted, GuardRefuses,
        BeginFails, Connect, Refuse, ReplyArrives, ReplyLost, MarkAccepted,
        MarkUncertain, MarkRejected, MarkArchived, MarkArchiveFailed, MarkFails,
        SettleUncertain, SettleFailure, SettleNothing, SettleFails, servers, store
  <2> QED BY <1>0, <2>1, Unseen
<1> QED BY <1>1, <1>2, <1>3

\* A person puts a message off, calls it off or decides about it.
LEMMA PersonRefines ==
  ASSUME Inductive, Person
  PROVE  OutboxView!Next \/ UNCHANGED OutboxView!vars
<1> USE DEF store, process, servers, history
<1>1. ASSUME NEW i \in Ids, ScheduleSend(i) PROVE OutboxView!Next
  <2>1. OutboxView!PutOff(i)
    BY <1>1 DEF ScheduleSend, OutboxView!PutOff
  <2> QED BY <2>1 DEF OutboxView!Next
<1>2. ASSUME NEW i \in Ids, CancelScheduledSend(i) PROVE OutboxView!Next
  <2>1. OutboxView!CallOff(i)
    BY <1>2 DEF CancelScheduledSend, OutboxView!CallOff
  <2> QED BY <2>1 DEF OutboxView!Next
<1>3. ASSUME NEW i \in Ids, consent' = [consent EXCEPT ![i] = @ + 1],
             UNCHANGED <<filed, promised, delivered, forgotten>>
      PROVE  OutboxView!Next
  <2>1. \A k \in Ids : 1 + consent'[k] + forgotten'[k] =
                         IF k \in {i} THEN 1 + consent[k] + forgotten[k] + 1
                                      ELSE 1 + consent[k] + forgotten[k]
    BY <1>3 DEF Inductive, TypeOK
  <2>2. OutboxView!Permit({i})
    BY <1>3, <2>1 DEF OutboxView!Permit
  <2>3. {i} \in SUBSET Ids
    OBVIOUS
  <2> QED BY <2>2, <2>3 DEF OutboxView!Next
<1>4. ASSUME NEW i \in Ids, ResolveOutgoing(i) PROVE OutboxView!Next
  BY <1>3, <1>4 DEF ResolveOutgoing
<1>5. ASSUME NEW i \in Ids, RemoveAccount(i) \/ AddAccount(i) PROVE UNCHANGED OutboxView!vars
  BY <1>5, Unseen DEF RemoveAccount, AddAccount
<1>6. ASSUME NEW c \in Callers, NEW i \in Ids, NEW resend \in BOOLEAN,
             SendScheduledNow(c, i, resend) \/ Send(c, i, resend)
      PROVE  OutboxView!Next \/ UNCHANGED OutboxView!vars
  <2>1. /\ UNCHANGED <<filed, promised, delivered, forgotten>>
        /\ consent' = IF resend THEN [consent EXCEPT ![i] = @ + 1] ELSE consent
    BY <1>6 DEF SendScheduledNow, Send, CountConsent
  <2> QED BY <1>3, <2>1, Unseen
<1> QED BY <1>1, <1>2, <1>4, <1>5, <1>6 DEF Person

\* Startup permits one more delivery of every message it forgets.
LEMMA StartupRefines ==
  ASSUME Inductive, Startup \/ StartupUnmarked
  PROVE  OutboxView!Next
<1>1. PICK P \in SUBSET Ids : prune_settled(P)
  BY DEF Startup, StartupUnmarked
<1>2. UNCHANGED <<filed, promised, delivered, consent>>
  BY DEF Startup, StartupUnmarked, servers
<1>s. PICK S \in SUBSET Ids : S = {i \in P : may_have_gone(attempt[i])}
  OBVIOUS
<1>3. \A i \in Ids : 1 + consent'[i] + forgotten'[i] =
                       IF i \in S THEN 1 + consent[i] + forgotten[i] + 1
                                  ELSE 1 + consent[i] + forgotten[i]
  BY <1>1, <1>2, <1>s DEF prune_settled, Inductive, TypeOK
<1>4. OutboxView!Permit(S)
  BY <1>2, <1>3 DEF OutboxView!Permit
<1> QED BY <1>4 DEF OutboxView!Next

\* Every step is one of the outbox's.
LEMMA StepRefines ==
  Inductive /\ [Next]_vars => [OutboxView!Next]_(OutboxView!vars)
<1> SUFFICES ASSUME Inductive, [Next]_vars
             PROVE  OutboxView!Next \/ UNCHANGED OutboxView!vars
  OBVIOUS
<1>1. CASE UNCHANGED vars
  BY <1>1, Unseen DEF vars, store, servers, history
<1>2. CASE WatchStep
  BY <1>2, Unseen DEF WatchStep, WatchTick, WatchTake, WatchUnreadable, store, servers, history
<1>3. CASE World
  <2>1. ASSUME NEW i \in Ids, DriftsIn(i) PROVE OutboxView!Next
    BY <2>1, TakeStep DEF DriftsIn, store, history, OutboxView!Next
  <2> QED BY <1>3, <2>1, Unseen DEF World, HourComes, DriftsAway, Crash, store, servers, history
<1> QED BY <1>1, <1>2, <1>3, WorkerRefines, PersonRefines, StartupRefines DEF Next, AnyWorkerStep

\* The program with its workers, crashes, lost replies and failing store is an
\* outbox: it takes nothing off the list unsent and delivers nothing twice
\* without a permit.
THEOREM Refinement == Spec => ImplementsOutbox
<1>1. Init => OutboxView!Init
  BY DEF Init, OutboxView!Init
<1>2. Inductive /\ [Next]_vars => [OutboxView!Next]_(OutboxView!vars)
  BY StepRefines
<1> QED BY <1>1, <1>2, InductiveHolds, PTL DEF Spec, ImplementsOutbox, OutboxView!Spec

-----------------------------------------------------------------------------
(***************************************************************************)
(* Whose an attempt record is: as long as no person decided about a        *)
(* message one worker at most has it in hand, so nobody settles its doubt; *)
(* and while the store works a record in flight has its worker.            *)
(***************************************************************************)

-----------------------------------------------------------------------------
(* What a worker's step does.                                              *)

\* Moving on to a step changes nothing else of the worker, and of no other.
LEMMA GoTo ==
  ASSUME TypeOK, NEW w \in Workers, NEW pc, NEW said, Go(w, pc, said)
  PROVE  /\ job'[w].pc = pc
         /\ job'[w].id = job[w].id
         /\ job'[w].resend = job[w].resend
         /\ \A v \in Workers \ {w} : job'[v] = job[v]
  BY DEF TypeOK, Go

\* An idle worker has nothing in hand and no resend.
LEMMA IdleHands == Idle.pc = "idle" /\ ~InHand(Idle) /\ ~Idle.resend
  BY DEF Idle, InHand

\* A worker that starts has nothing in hand yet.
LEMMA StartHands ==
  ASSUME NEW pc \in {"precheck", "begin"}, NEW i, NEW kind, NEW resend
  PROVE  /\ ~InHand(Start(pc, i, kind, resend))
         /\ Start(pc, i, kind, resend).id = i
         /\ Start(pc, i, kind, resend).resend = resend
<1>1. Start(pc, i, kind, resend).pc = pc
  BY DEF Start
<1>2. Start(pc, i, kind, resend).id = i
  BY DEF Start
<1>3. Start(pc, i, kind, resend).resend = resend
  BY DEF Start
<1>4. ~InHand(Start(pc, i, kind, resend))
  BY <1>1 DEF InHand
<1> QED BY <1>2, <1>3, <1>4

\* A step of perform_send that is not its first or one that writes an outcome
\* leaves the record alone, and has the message in hand only if it had.
Quiet(w) ==
  /\ UNCHANGED attempt
  /\ InHand(job'[w]) => job[w].pc \in {"connect", "transmit"} /\ job'[w].pc \in {"transmit", "mark"}

\* perform_send begins: the check and the record are one step (begin_attempt).
Begins(w) ==
  /\ job[w].pc = "begin" /\ job'[w].pc = "connect"
  /\ job[w].resend \/ ~may_have_gone(attempt[job[w].id])
  /\ attempt' = [attempt EXCEPT ![job[w].id] = "sending"]

\* An outcome is written, or an acceptance that is filed next.
Writes(w) ==
  /\ job[w].pc \in {"mark", "file"}
  /\ \/ \E s \in {"uncertain", "rejected", "archived"} :
          attempt' = set_state(job[w].id, s) /\ job'[w].pc = "settle"
     \/ attempt' = set_state(job[w].id, "accepted") /\ job[w].pc = "mark" /\ job'[w].pc = "file"

\* Every step of a worker, with the process running, is one of the three.
LEMMA WorkerKinds ==
  ASSUME TypeOK, NEW w \in Workers, AnyWorkerStep(w)
  PROVE  /\ Quiet(w) \/ Begins(w) \/ Writes(w)
         /\ up /\ up'
         /\ job'[w] = Idle \/ (job'[w].id = job[w].id /\ job'[w].resend = job[w].resend)
         /\ \A v \in Workers \ {w} : job'[v] = job[v]
         /\ UNCHANGED consent
<1>0. up /\ up' /\ UNCHANGED consent
  <2>1. up
    BY WorkerCases, Zenon
    DEF At, Precheck, PrecheckFails, BeginAttempt, AlreadyAttempted, GuardRefuses,
         BeginFails, Connect, Refuse, ServerTakes, ReplyArrives, ReplyLost, MarkAccepted,
         MarkUncertain, MarkRejected, MarkArchived, MarkArchiveFailed, MarkFails, SettleSent,
         SettleUncertain, SettleFailure, SettleNothing, SettleFails
  <2>2. up' = up
    BY WorkerCases, Zenon
    DEF Precheck, PrecheckFails, BeginAttempt, AlreadyAttempted, GuardRefuses,
         BeginFails, Connect, Refuse, ServerTakes, ReplyArrives, ReplyLost, MarkAccepted,
         MarkUncertain, MarkRejected, MarkArchived, MarkArchiveFailed, MarkFails, SettleSent,
         SettleUncertain, SettleFailure, SettleNothing, SettleFails
  <2> QED BY <2>1, <2>2, WorkerMoves
<1> USE DEF At, store
<1>1. CASE Precheck(w)
  BY <1>0, <1>1, GoTo DEF Precheck, Quiet, InHand
<1>2. CASE PrecheckFails(w) \/ AlreadyAttempted(w) \/ GuardRefuses(w) \/ BeginFails(w)
  BY <1>0, <1>2, GoTo DEF PrecheckFails, AlreadyAttempted, GuardRefuses, BeginFails, Quiet, InHand
<1>3. CASE BeginAttempt(w)
  BY <1>0, <1>3, GoTo DEF BeginAttempt, Begins
<1>4. CASE Connect(w) \/ Refuse(w) \/ ServerTakes(w) \/ ReplyArrives(w) \/ ReplyLost(w)
  BY <1>0, <1>4, GoTo DEF Connect, Refuse, ServerTakes, ReplyArrives, ReplyLost, Quiet, InHand
<1>5. CASE MarkAccepted(w) \/ MarkUncertain(w) \/ MarkRejected(w) \/ MarkArchived(w)
  BY <1>0, <1>5, GoTo DEF MarkAccepted, MarkUncertain, MarkRejected, MarkArchived, Writes
<1>6. CASE MarkArchiveFailed(w) \/ MarkFails(w)
  BY <1>0, <1>6, GoTo DEF MarkArchiveFailed, MarkFails, Quiet, InHand
<1>7. CASE SettleSent(w) \/ SettleUncertain(w) \/ SettleFailure(w) \/ SettleNothing(w) \/ SettleFails(w)
  <2>1. job' = [job EXCEPT ![w] = Idle] /\ UNCHANGED attempt
    BY <1>7, Zenon DEF SettleSent, SettleUncertain, SettleFailure, SettleNothing, SettleFails
  <2>2. job'[w] = Idle /\ \A v \in Workers \ {w} : job'[v] = job[v]
    BY <2>1, IdleType
  <2>3. Quiet(w)
    <3>1. ~InHand(job'[w])
      BY <2>2, IdleHands
    <3> QED BY <2>1, <3>1 DEF Quiet
  <2> QED BY <1>0, <2>2, <2>3
<1> QED BY <1>0, <1>1, <1>2, <1>3, <1>4, <1>5, <1>6, <1>7, WorkerCases

-----------------------------------------------------------------------------
(* One worker at most has a message in hand.                               *)

\* At first nobody works.
LEMMA SoleInit == Init => SoleWorker
<1> SUFFICES ASSUME Init PROVE SoleWorker
  OBVIOUS
<1>1. \A w \in Workers : ~InHand(job[w]) /\ ~job[w].resend
  BY DEF Init, InHand, Idle
<1>2. up
  BY DEF Init
<1> QED BY <1>1, <1>2 DEF SoleWorker

\* The record of a message in hand that nobody decided about may have gone, so
\* another worker does not begin; and a mark is the one worker's own.
LEMMA WorkerSole ==
  ASSUME TypeOK, SoleWorker, NEW w \in Workers, AnyWorkerStep(w)
  PROVE  SoleWorker'
<1>0. /\ up /\ up'
      /\ job'[w] = Idle \/ (job'[w].id = job[w].id /\ job'[w].resend = job[w].resend)
      /\ \A v \in Workers \ {w} : job'[v] = job[v]
      /\ UNCHANGED consent
      /\ Quiet(w) \/ Begins(w) \/ Writes(w)
  BY WorkerKinds
<1>1. /\ ~InHand(Idle) /\ ~Idle.resend
      /\ job[w].id \in Ids
      /\ \A i \in Ids : attempt[i] \in AttemptState
      /\ attempt \in [Ids -> AttemptState]
      /\ \A v \in Workers : InHand(job[v]) => job[v].id \in Ids
  BY WorkerMoves DEF TypeOK, Idle, InHand
<1>2. \A v \in Workers : job'[v].pc # "idle" /\ job'[v].resend => consent'[job'[v].id] > 0
  BY <1>0, <1>1, IdleHands, WorkerMoves DEF SoleWorker
<1> DEFINE Mine(v) ==
             InHand(job[v]) /\ consent[job[v].id] = 0 =>
               /\ attempt[job[v].id] = (IF job[v].pc = "file" THEN "accepted" ELSE "sending")
               /\ \A u \in Workers \ {v} : job[u].id = job[v].id => ~InHand(job[u])
<1>3. \A v \in Workers : Mine(v)
  BY DEF SoleWorker
<1>4. CASE Quiet(w)
  <2>1. InHand(job'[w]) => InHand(job[w]) /\ job'[w].id = job[w].id /\ job[w].pc # "file" /\ job'[w].pc # "file"
    BY <1>0, <1>1, <1>4 DEF Quiet, InHand
  <2>2. \A v \in Workers : Mine(v)'
    BY <1>0, <1>3, <1>4, <2>1 DEF Quiet
  <2> QED BY <1>0, <1>2, <2>2 DEF SoleWorker
<1>5. CASE Begins(w)
  <2>1. consent[job[w].id] = 0 => \A v \in Workers : job[v].id = job[w].id => ~InHand(job[v])
    BY <1>3, <1>5 DEF Begins, SoleWorker, may_have_gone
  <2>2. /\ job'[w].id = job[w].id
        /\ attempt'[job[w].id] = "sending"
        /\ \A i \in Ids \ {job[w].id} : attempt'[i] = attempt[i]
    BY <1>0, <1>1, <1>5, IdleHands DEF Begins
  <2>3. Mine(w)'
    <3>1. job'[w].pc # "file"
      BY <1>5 DEF Begins
    <3>2. consent'[job'[w].id] = 0 => \A u \in Workers \ {w} : job'[u].id = job'[w].id => ~InHand(job'[u])
      BY <1>0, <2>1, <2>2
    <3> QED BY <2>2, <3>1, <3>2
  <2>4. ASSUME NEW v \in Workers \ {w} PROVE Mine(v)'
    BY <1>0, <1>1, <1>3, <2>1, <2>2
  <2> QED BY <1>0, <1>2, <2>3, <2>4 DEF SoleWorker
<1>6. CASE Writes(w)
  <2>1. /\ InHand(job[w])
        /\ \A i \in Ids \ {job[w].id} : attempt'[i] = attempt[i]
        /\ InHand(job'[w]) => /\ job'[w].pc = "file" /\ job'[w].id = job[w].id
                              /\ attempt' = set_state(job[w].id, "accepted")
    BY <1>0, <1>1, <1>6 DEF Writes, InHand, set_state
  <2>2. ASSUME consent[job[w].id] = 0, InHand(job'[w])
        PROVE  attempt'[job[w].id] = "accepted"
    BY <1>1, <1>3, <2>1, <2>2 DEF set_state
  <2>3. \A v \in Workers : Mine(v)'
    BY <1>0, <1>1, <1>3, <2>1, <2>2
  <2> QED BY <1>0, <1>2, <2>3 DEF SoleWorker
<1> QED BY <1>0, <1>4, <1>5, <1>6

\* What a person asks for starts no send before it counts as decided, and what
\* the watch takes is never a resend.
LEMMA RequestSole ==
  ASSUME TypeOK, SoleWorker, Person \/ WatchStep
  PROVE  SoleWorker'
<1> USE DEF store, process, history
<1>1. ASSUME UNCHANGED <<attempt, job, consent, up>> PROVE SoleWorker'
  BY <1>1, Zenon DEF SoleWorker
\* A worker starts: nothing is in its hand, and no count of decisions falls.
<1>2. ASSUME NEW w \in Workers, NEW i \in Ids, NEW pc \in {"precheck", "begin"}, NEW resend \in BOOLEAN,
             NEW kind \in {"now", "scheduled"},
             up, up' = up, UNCHANGED attempt,
             job' = [job EXCEPT ![w] = Start(pc, i, kind, resend)],
             consent' = IF resend THEN [consent EXCEPT ![i] = @ + 1] ELSE consent
      PROVE  SoleWorker'
  <2>1. /\ \A v \in Workers \ {w} : job'[v] = job[v]
        /\ job'[w] = Start(pc, i, kind, resend)
    BY <1>2, StartType
  <2>2. ~InHand(job'[w]) /\ job'[w].id = i /\ job'[w].resend = resend
    BY <2>1, StartHands
  <2>3. \A k \in Ids : consent[k] \in Nat /\ consent'[k] >= consent[k]
    BY <1>2 DEF TypeOK
  <2>4. resend => consent'[i] > 0
    BY <1>2, <2>3 DEF TypeOK
  <2>5. \A v \in Workers : InHand(job[v]) \/ job[v].pc # "idle" => job[v].id \in Ids
    BY DEF TypeOK, InHand
  <2> QED BY <1>2, <2>1, <2>2, <2>3, <2>4, <2>5 DEF SoleWorker
<1>3. CASE Person
  <2>1. CASE \E i \in Ids : ScheduleSend(i) \/ CancelScheduledSend(i) \/ RemoveAccount(i) \/ AddAccount(i)
    BY <1>1, <2>1 DEF ScheduleSend, CancelScheduledSend, RemoveAccount, AddAccount
  <2>2. CASE \E i \in Ids : ResolveOutgoing(i)
    <3>1. PICK i \in Ids : ResolveOutgoing(i)
      BY <2>2
    <3>2. /\ UNCHANGED <<job, up>>
          /\ consent'[i] > 0
          /\ \A k \in Ids \ {i} : consent'[k] = consent[k] /\ attempt'[k] = attempt[k]
      BY <3>1 DEF ResolveOutgoing, TypeOK
    <3>3. \A v \in Workers : InHand(job[v]) \/ job[v].pc # "idle" => job[v].id \in Ids
      BY DEF TypeOK, InHand
    <3> QED BY <3>2, <3>3 DEF SoleWorker
  <2>3. CASE \E c \in Callers, i \in Ids, resend \in BOOLEAN :
               SendScheduledNow(c, i, resend) \/ Send(c, i, resend)
    <3>1. PICK c \in Callers, i \in Ids, resend \in BOOLEAN :
               SendScheduledNow(c, i, resend) \/ Send(c, i, resend)
      BY <2>3
    <3>2. c \in Workers /\ up
      BY <3>1, Zenon DEF Workers, SendScheduledNow, Send, Asked
    <3>3. up' = up /\ UNCHANGED attempt
      BY <3>1, Zenon DEF SendScheduledNow, Send
    <3>4. consent' = IF resend THEN [consent EXCEPT ![i] = @ + 1] ELSE consent
      BY <3>1 DEF SendScheduledNow, Send, CountConsent
    <3>5. CASE Send(c, i, resend)
      BY <1>2, <3>2, <3>3, <3>4, <3>5 DEF Send
    <3>6. CASE SendScheduledNow(c, i, resend)
      BY <1>2, <3>2, <3>3, <3>4, <3>6 DEF SendScheduledNow
    <3> QED BY <3>1, <3>5, <3>6
  <2> QED BY <1>3, <2>1, <2>2, <2>3 DEF Person
<1>4. CASE WatchStep
  <2>1. CASE WatchTick \/ \E i \in Ids : WatchUnreadable(i)
    BY <1>1, <2>1 DEF WatchTick, WatchUnreadable
  <2>2. ASSUME NEW i \in Ids, WatchTake(i) PROVE SoleWorker'
    <3>1. Watch \in Workers
      BY DEF Workers
    <3>2. up /\ up' = up
      BY <2>2, Zenon DEF WatchTake, At
    <3>3. UNCHANGED <<attempt, consent>>
      BY <2>2 DEF WatchTake
    <3>4. job' = [job EXCEPT ![Watch] = Start("precheck", i, "scheduled", FALSE)]
      BY <2>2 DEF WatchTake
    <3> QED BY <1>2, <3>1, <3>2, <3>3, <3>4
  <2> QED BY <1>4, <2>1, <2>2 DEF WatchStep
<1> QED BY <1>3, <1>4

\* A crash leaves no worker, and a start finds none: what it does to the
\* records is no one's business.
LEMMA WorldSole ==
  ASSUME TypeOK, SoleWorker, World \/ Startup \/ StartupUnmarked
  PROVE  SoleWorker'
<1>1. ASSUME \A w \in Workers : job'[w] = Idle PROVE SoleWorker'
  <2>1. \A w \in Workers : ~InHand(job'[w]) /\ ~job'[w].resend
    BY <1>1, IdleHands
  <2> QED BY <1>1, <2>1 DEF SoleWorker
<1>2. CASE Crash
  <2>1. \A w \in Workers : job'[w] = Idle
    BY <1>2 DEF Crash
  <2> QED BY <1>1, <2>1
<1>3. CASE Startup \/ StartupUnmarked
  <2>1. ~up /\ UNCHANGED job
    BY <1>3, Zenon DEF Startup, StartupUnmarked
  <2>2. \A w \in Workers : job'[w] = Idle
    BY <2>1, Zenon DEF SoleWorker
  <2> QED BY <1>1, <2>2
<1>4. CASE \E i \in Ids : HourComes(i) \/ DriftsIn(i) \/ DriftsAway(i)
  <2>1. UNCHANGED <<attempt, job, consent, up>>
    BY <1>4 DEF HourComes, DriftsIn, DriftsAway, store, process, history
  <2> QED BY <2>1, Zenon DEF SoleWorker
<1> QED BY <1>2, <1>3, <1>4 DEF World

\* Every step keeps it.
LEMMA SoleStep == TypeOK /\ SoleWorker /\ [Next]_vars => SoleWorker'
<1> SUFFICES ASSUME TypeOK, SoleWorker, [Next]_vars PROVE SoleWorker'
  OBVIOUS
<1>1. CASE UNCHANGED vars
  <2>1. UNCHANGED <<attempt, job, consent, up>>
    BY <1>1 DEF vars, store, process, history
  <2> QED BY <2>1, Zenon DEF SoleWorker
<1>2. CASE Next
  BY <1>2, WorkerSole, RequestSole, WorldSole DEF Next, AnyWorkerStep
<1> QED BY <1>1, <1>2

\* As long as no person decided about a message, one worker at most has it in
\* hand and its record is that worker's: begin_attempt's check and write under
\* one lock are enough, without any mark looking at what it overwrites.
THEOREM SoleWorkerHolds == Spec => []SoleWorker
<1>1. Init /\ []TypeOK /\ [][Next]_vars => []SoleWorker
  BY SoleInit, SoleStep, PTL
<1> QED BY <1>1, TypeCorrect, PTL DEF Spec

-----------------------------------------------------------------------------
(* Doubt is a person's to settle.                                          *)

\* What a worker's step leaves of a doubt nobody decided about.
LEMMA WorkerDoubt ==
  ASSUME TypeOK, SoleWorker, NEW w \in Workers, AnyWorkerStep(w),
         NEW i \in Ids, attempt[i] = "uncertain", consent[i] = 0
  PROVE  attempt'[i] = "uncertain"
<1>1. Quiet(w) \/ Begins(w) \/ Writes(w)
  BY WorkerKinds
<1>2. attempt \in [Ids -> AttemptState]
  BY DEF TypeOK
<1>3. CASE Quiet(w)
  BY <1>3 DEF Quiet
<1>4. CASE Begins(w)
  <2>1. job[w].id # i
    BY <1>4 DEF Begins, SoleWorker, may_have_gone
  <2> QED BY <1>2, <1>4, <2>1 DEF Begins
<1>5. CASE Writes(w)
  <2>1. InHand(job[w])
    BY <1>5 DEF Writes, InHand
  <2>2. job[w].id # i
    BY <2>1 DEF SoleWorker
  <2> QED BY <1>2, <1>5, <2>2 DEF Writes, set_state
<1> QED BY <1>1, <1>3, <1>4, <1>5

\* What every other step does to the records: a person resolves one, a start
\* forgets the settled ones and marks the interrupted ones.
LEMMA OtherRecords ==
  ASSUME TypeOK, Person \/ WatchStep \/ World \/ Startup \/ StartupUnmarked, NEW i \in Ids
  PROVE  \/ attempt'[i] = attempt[i]
         \/ attempt'[i] = "resolved" /\ needs_a_person(attempt[i], unfiled[i])
         \/ attempt'[i] = "none" /\ prunable(attempt[i], unfiled[i])
         \/ attempt'[i] = mark_interrupted_uncertain(attempt[i])
<1> USE DEF store, process, history
<1>1. CASE Person
  <2>1. CASE \E k \in Ids : ScheduleSend(k) \/ CancelScheduledSend(k) \/ RemoveAccount(k) \/ AddAccount(k)
    BY <2>1 DEF ScheduleSend, CancelScheduledSend, RemoveAccount, AddAccount
  <2>2. CASE \E k \in Ids : ResolveOutgoing(k)
    BY <2>2 DEF ResolveOutgoing, TypeOK
  <2>3. CASE \E c \in Callers, k \in Ids, resend \in BOOLEAN :
               SendScheduledNow(c, k, resend) \/ Send(c, k, resend)
    BY <2>3, Zenon DEF SendScheduledNow, Send
  <2> QED BY <1>1, <2>1, <2>2, <2>3 DEF Person
<1>2. CASE WatchStep
  BY <1>2, Zenon DEF WatchStep, WatchTick, WatchTake, WatchUnreadable
<1>3. CASE World
  BY <1>3, Zenon DEF World, Crash, HourComes, DriftsIn, DriftsAway
<1>4. CASE Startup
  BY <1>4 DEF Startup, prune_settled
<1>5. CASE StartupUnmarked
  BY <1>5 DEF StartupUnmarked, prune_settled
<1> QED BY <1>1, <1>2, <1>3, <1>4, <1>5

\* A doubt stays, or a person ends it.
DoubtStays ==
  \A i \in Ids : attempt[i] = "uncertain" /\ consent[i] = 0 =>
    attempt'[i] \in {"uncertain", "resolved"}

\* Every step respects it.
LEMMA DoubtStep == TypeOK /\ SoleWorker /\ [Next]_vars => [DoubtStays]_vars
<1> SUFFICES ASSUME TypeOK, SoleWorker, Next, NEW i \in Ids,
                    attempt[i] = "uncertain", consent[i] = 0
             PROVE  attempt'[i] \in {"uncertain", "resolved"}
  BY DEF DoubtStays
<1>1. ASSUME NEW w \in Workers, AnyWorkerStep(w) PROVE attempt'[i] = "uncertain"
  BY <1>1, WorkerDoubt
<1>2. CASE Person \/ WatchStep \/ World \/ Startup \/ StartupUnmarked
  BY <1>2, OtherRecords DEF prunable, mark_interrupted_uncertain
<1> QED BY <1>1, <1>2 DEF Next, AnyWorkerStep

\* Although every mark overwrites what it finds, a message of unknown outcome
\* keeps that record until a person resolves it or asks for a resend: the one
\* worker that could write has gone, and no other may begin.
THEOREM DoubtIsAPersons == Spec => OnlyAPersonSettlesDoubt
<1>1. []TypeOK /\ []SoleWorker /\ [][Next]_vars => [][DoubtStays]_vars
  BY DoubtStep, PTL
<1>2. Spec => [][DoubtStays]_vars
  BY <1>1, TypeCorrect, SoleWorkerHolds, PTL DEF Spec
<1> QED BY <1>2, PTL DEF OnlyAPersonSettlesDoubt, DoubtStays

-----------------------------------------------------------------------------
(* A record in flight has its worker.                                      *)

\* The worker has begun and its outcome is still to be written.
AtIt(j) == j.pc \in {"connect", "transmit", "mark"}

\* A worker that is at it stays at it, or writes how it ended, unless the store
\* fails it.
LEMMA WorkerStays ==
  ASSUME TypeOK, NEW w \in Workers, AnyWorkerStep(w), AtIt(job[w]), faults' = 0
  PROVE  \/ AtIt(job'[w]) /\ job'[w].id = job[w].id
         \/ attempt'[job[w].id] # "sending"
<1> USE DEF At, Fault, AtIt
<1>1. /\ job[w].id \in Ids
      /\ attempt \in [Ids -> AttemptState]
      /\ faults \in Nat
  BY WorkerMoves DEF TypeOK
<1>2. CASE Connect(w) \/ Refuse(w) \/ ServerTakes(w) \/ ReplyArrives(w) \/ ReplyLost(w)
  BY <1>2, GoTo DEF Connect, Refuse, ServerTakes, ReplyArrives, ReplyLost
<1>3. CASE MarkAccepted(w) \/ MarkUncertain(w) \/ MarkRejected(w) \/ MarkArchived(w)
  BY <1>1, <1>3 DEF MarkAccepted, MarkUncertain, MarkRejected, MarkArchived, set_state
<1>4. ~MarkFails(w) /\ ~MarkArchiveFailed(w)
  BY <1>1 DEF MarkFails, MarkArchiveFailed
<1>5. CASE \/ Precheck(w) \/ PrecheckFails(w) \/ BeginAttempt(w) \/ AlreadyAttempted(w)
           \/ GuardRefuses(w) \/ BeginFails(w) \/ SettleSent(w) \/ SettleUncertain(w)
           \/ SettleFailure(w) \/ SettleNothing(w) \/ SettleFails(w)
  BY <1>5 DEF Precheck, PrecheckFails, BeginAttempt, AlreadyAttempted, GuardRefuses,
       BeginFails, SettleSent, SettleUncertain, SettleFailure, SettleNothing, SettleFails
<1> QED BY <1>2, <1>3, <1>4, <1>5, WorkerCases

\* Faults are counted and never forgotten.
LEMMA FaultsGrow ==
  ASSUME TypeOK, [Next]_vars, faults' = 0
  PROVE  faults = 0 /\ ~StartupUnmarked
<1> USE DEF bounds, Fault, Asked
<1>1. faults \in Nat
  BY DEF TypeOK
<1>2. faults' = faults \/ faults' = faults + 1
  <2>1. CASE UNCHANGED vars
    BY <2>1 DEF vars
  <2>2. ASSUME NEW w \in Workers, AnyWorkerStep(w) PROVE faults' = faults \/ faults' = faults + 1
    BY <2>2, WorkerCases, Zenon
    DEF Precheck, PrecheckFails, BeginAttempt, AlreadyAttempted, GuardRefuses,
         BeginFails, Connect, Refuse, ServerTakes, ReplyArrives, ReplyLost, MarkAccepted,
         MarkUncertain, MarkRejected, MarkArchived, MarkArchiveFailed, MarkFails, SettleSent,
         SettleUncertain, SettleFailure, SettleNothing, SettleFails
  <2>3. CASE Person
    BY <2>3, Zenon DEF Person, ScheduleSend, CancelScheduledSend, ResolveOutgoing, RemoveAccount,
         AddAccount, SendScheduledNow, Send
  <2>4. CASE WatchStep \/ World
    BY <2>4, Zenon DEF WatchStep, WatchTick, WatchTake, WatchUnreadable, World, Crash, HourComes,
         DriftsIn, DriftsAway
  <2>5. CASE Startup \/ StartupUnmarked
    BY <2>5, Zenon DEF Startup, StartupUnmarked
  <2> QED BY <2>1, <2>2, <2>3, <2>4, <2>5 DEF Next, AnyWorkerStep
<1>3. StartupUnmarked => faults' = faults + 1
  BY DEF StartupUnmarked
<1> QED BY <1>1, <1>2, <1>3

\* Every step leaves a record in flight its worker, or no worker and no record.
LEMMA OwnerStep == TypeOK /\ SendingHasOwner /\ [Next]_vars => SendingHasOwner'
<1> SUFFICES ASSUME TypeOK, SendingHasOwner, [Next]_vars, up', faults' = 0,
                    NEW i \in Ids, attempt'[i] = "sending"
             PROVE  \E w \in Workers : job'[w].id = i /\ AtIt(job'[w])
  BY DEF SendingHasOwner, AtIt
<1>0. faults = 0 /\ ~StartupUnmarked
  BY FaultsGrow
<1>1. ASSUME up, attempt[i] = "sending"
      PROVE  \E w \in Workers : job[w].id = i /\ AtIt(job[w])
  BY <1>0, <1>1 DEF SendingHasOwner, AtIt
<1>2. ASSUME NEW w \in Workers, AnyWorkerStep(w)
      PROVE  \E v \in Workers : job'[v].id = i /\ AtIt(job'[v])
  <2>1. /\ Quiet(w) \/ Begins(w) \/ Writes(w)
        /\ up
        /\ \A v \in Workers \ {w} : job'[v] = job[v]
        /\ job'[w] = Idle \/ job'[w].id = job[w].id
    BY <1>2, WorkerKinds
  <2>2. attempt \in [Ids -> AttemptState]
    BY DEF TypeOK
  <2>3. CASE Begins(w) /\ job[w].id = i
    BY <2>1, <2>3, IdleHands DEF Begins, AtIt
  <2>4. CASE ~(Begins(w) /\ job[w].id = i)
    <3>1. attempt[i] = "sending"
      BY <2>1, <2>2, <2>4 DEF Quiet, Begins, Writes, set_state
    <3>2. PICK v \in Workers : job[v].id = i /\ AtIt(job[v])
      BY <1>1, <2>1, <3>1
    <3>3. CASE v # w
      BY <2>1, <3>2, <3>3
    <3>4. CASE v = w
      BY <1>2, <3>2, <3>4, WorkerStays
    <3> QED BY <3>3, <3>4
  <2> QED BY <2>3, <2>4
\* Nothing happens to the workers that are at it.
<1>3. ASSUME up, attempt[i] = "sending", \A w \in Workers : AtIt(job[w]) => job'[w] = job[w]
      PROVE  \E w \in Workers : job'[w].id = i /\ AtIt(job'[w])
  <2>1. PICK w \in Workers : job[w].id = i /\ AtIt(job[w])
    BY <1>1, <1>3
  <2> QED BY <1>3, <2>1
<1>4. CASE Person \/ WatchStep
  <2>1. attempt[i] = "sending"
    BY <1>4, OtherRecords DEF mark_interrupted_uncertain
  <2>2. up
    BY <1>4, Zenon DEF Person, WatchStep, ScheduleSend, CancelScheduledSend, ResolveOutgoing,
         RemoveAccount, AddAccount, SendScheduledNow, Send, WatchTick, WatchTake,
         WatchUnreadable, Asked, At
  <2>3. UNCHANGED job \/ \E w \in Workers : \E j : job[w].pc = "idle" /\ job' = [job EXCEPT ![w] = j]
    BY <1>4, Zenon DEF Person, WatchStep, ScheduleSend, CancelScheduledSend, ResolveOutgoing,
         RemoveAccount, AddAccount, SendScheduledNow, Send, WatchTick, WatchTake,
         WatchUnreadable, At, process, Workers
  <2>4. \A w \in Workers : AtIt(job[w]) => job'[w] = job[w]
    BY <2>3 DEF AtIt, TypeOK
  <2> QED BY <1>3, <2>1, <2>2, <2>4
<1>5. CASE Startup
  BY <1>5, OtherRecords DEF Startup, mark_interrupted_uncertain, prunable
<1>6. CASE World
  <2>1. ~Crash
    BY DEF Crash
  <2>2. UNCHANGED <<attempt, job, up>>
    BY <1>6, <2>1, Zenon DEF World, HourComes, DriftsIn, DriftsAway, store, process
  <2> QED BY <1>3, <2>2
<1>7. CASE UNCHANGED vars
  <2>1. UNCHANGED <<attempt, job, up>>
    BY <1>7, Zenon DEF vars, store, process
  <2> QED BY <1>3, <2>1
<1> QED BY <1>0, <1>2, <1>4, <1>5, <1>6, <1>7 DEF Next, AnyWorkerStep

\* While the store takes every write, a record that says "sending" in a running
\* process belongs to a worker that will still write its outcome: what
\* scheduled_send_precheck relies on when it answers that another is at it.
THEOREM OwnerHolds == Spec => []SendingHasOwner
<1>1. Init => SendingHasOwner
  BY DEF Init, SendingHasOwner
<1>2. Init /\ []TypeOK /\ [][Next]_vars => []SendingHasOwner
  BY <1>1, OwnerStep, PTL
<1> QED BY <1>2, TypeCorrect, PTL DEF Spec

=============================================================================
