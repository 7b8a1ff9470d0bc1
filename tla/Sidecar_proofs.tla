---------------------------- MODULE Sidecar_proofs ----------------------------
(***************************************************************************)
(* Theorems about the bridge's transport, for any number of callers, calls,*)
(* restores and faults.  They rest on one inductive invariant: only the    *)
(* process the bridge points at can have goroutines left, and every entry  *)
(* belongs to that process.                                                *)
(***************************************************************************)
EXTENDS Sidecar, TLAPS

-----------------------------------------------------------------------------
(* The inductive invariant.                                                *)

\* What the bridge and the goroutines keep.
Types ==
  /\ gen \in Procs /\ nextID \in Nat
  /\ pending \subseteq Ids
  /\ call \in [Everyone -> [pc : {"idle", "write", "wait", "result", "error"}, id : Nat]]
  /\ box \in [Ids -> {"none", "failed", "result"}]
  /\ failedBy \in [Ids -> Nat] /\ input \in [Ids -> Nat]
  /\ reader \in [Procs -> {"none", "run", "broken", "failing", "done"}]
  /\ waiter \in [Procs -> {"none", "run", "sweep", "done"}]
  /\ life \in [Procs -> {"none", "alive", "dead"}]
  /\ restore \in {"idle", "clear", "swap", "reopen", "probe", "back", "undo", "abandon"}
  /\ restores \in 0 .. MaxRestores

\* How many processes the bridge can have started, by where the restore is.
Generations ==
  /\ gen <= 2 * restores + 1
  /\ restore \in {"clear", "swap", "reopen"} => gen <= 2 * restores - 1
  /\ restore \in {"probe", "back", "undo", "abandon"} => gen <= 2 * restores

\* How many ids it can have used: the restore under way still has its one to come.
Numbers ==
  /\ nextID <= MaxCalls + restores
  /\ \/ restore \in {"clear", "swap", "reopen"}
     \/ restore = "probe" /\ call[Restorer].pc = "idle"
     => nextID + 1 <= MaxCalls + restores

\* The goroutines of the processes before this one have ended, and the ones after it
\* have not begun.
OneProcess ==
  \A g \in Procs :
    /\ g < gen => reader[g] = "done" /\ waiter[g] = "done"
    /\ g > gen => reader[g] = "none" /\ waiter[g] = "none" /\ life[g] = "none"

\* Wait has returned only for what has ended.
WaitedIsDead == \A g \in Procs : waiter[g] \in {"sweep", "done"} => life[g] = "dead"

\* A transport that takes calls has a waiter to fail them.
StartedHasWaiter == started => waiter[gen] # "done"

\* Every entry is a call to the process that is there.
EntriesAreThisProcess ==
  \A i \in pending : i <= nextID /\ input[i] = gen /\ waiter[gen] # "done"

\* An id that has not been given out has left no trace.
FreshIds == \A i \in Ids : i > nextID => box[i] = "none" /\ failedBy[i] = 0

IInv ==
  /\ Types /\ Generations /\ Numbers
  /\ OneProcess /\ WaitedIsDead /\ StartedHasWaiter /\ EntriesAreThisProcess /\ FreshIds
  /\ SwapAlone /\ FailedByItsOwn /\ ChannelHasRoom /\ FailureIsThisProcess

-----------------------------------------------------------------------------
\* The first process, with nothing asked of it, satisfies the invariant.
LEMMA InitIInv == Init => IInv
<1> SUFFICES ASSUME Init PROVE IInv
  OBVIOUS
<1> USE SidecarBounds
<1>1. Procs \subseteq Nat /\ 1 \in Procs /\ Ids \subseteq Nat
  BY DEF Procs, Ids
<1>2. Types
  BY <1>1 DEF Types, Init, Idle
<1>3. Generations /\ Numbers
  BY DEF Generations, Numbers, Init
<1>4. OneProcess /\ WaitedIsDead /\ StartedHasWaiter /\ EntriesAreThisProcess /\ FreshIds
  BY <1>1 DEF OneProcess, WaitedIsDead, StartedHasWaiter, EntriesAreThisProcess, FreshIds, Init,
              Procs
<1>5. SwapAlone /\ FailedByItsOwn /\ ChannelHasRoom /\ FailureIsThisProcess
  BY DEF SwapAlone, FailedByItsOwn, ChannelHasRoom, FailureIsThisProcess, Init
<1> QED
  BY <1>2, <1>3, <1>4, <1>5 DEF IInv

-----------------------------------------------------------------------------
(* One lemma per group of actions.                                         *)

\* A call that begins gets an id nobody had and an entry at the process that is
\* there, which has a waiter.
LEMMA CallBeginIInv ==
  ASSUME IInv, NEW c \in Everyone, CallBegin(c)
  PROVE  IInv'
<1> USE SidecarBounds, SidecarAssumption
<1>1. Procs \subseteq Nat /\ Ids \subseteq Nat
  BY DEF Procs, Ids
<1>2. nextID' = nextID + 1 /\ nextID' \in Ids /\ nextID' <= MaxCalls + restores
  BY DEF CallBegin, IInv, Types, Numbers, Ids
<1>3. /\ call' = [call EXCEPT ![c] = [pc |-> "write", id |-> nextID']]
      /\ input' = [input EXCEPT ![nextID'] = gen]
      /\ pending' = pending \cup {nextID'}
      /\ started /\ ~readFailed
      /\ UNCHANGED <<started, readFailed, gen, box, failedBy, reader, waiter, restore, life,
                     restores>>
  BY DEF CallBegin, swap, procs, bounds
<1>4. Types'
  BY <1>1, <1>2, <1>3 DEF IInv, Types
<1>5. Generations'
  BY <1>3 DEF IInv, Generations
<1>6. Numbers'
  <2>1. c = Restorer => restore = "probe" /\ call'[Restorer].pc = "write"
    BY <1>3 DEF CallBegin, IInv, Types, Everyone
  <2>2. c # Restorer => nextID < MaxCalls /\ call'[Restorer] = call[Restorer]
    BY <1>3 DEF CallBegin, IInv, Types, Everyone
  <2>3. restores \in Nat /\ nextID \in Nat
    BY DEF IInv, Types
  <2>4. CASE c = Restorer
    BY <2>1, <2>3, <2>4, <1>2, <1>3 DEF Numbers
  <2>5. CASE c # Restorer
    <3>1. restore \in {"clear", "swap", "reopen", "probe"} => 1 <= restores
      BY <2>3 DEF IInv, Generations, Types, Procs
    <3> QED
      BY <3>1, <2>2, <2>3, <2>5, <1>2, <1>3 DEF Numbers
  <2> QED
    BY <2>4, <2>5
<1>7. (OneProcess /\ WaitedIsDead /\ StartedHasWaiter /\ SwapAlone /\ FailureIsThisProcess)'
  BY <1>3 DEF IInv, OneProcess, WaitedIsDead, StartedHasWaiter, SwapAlone, FailureIsThisProcess
<1>8. EntriesAreThisProcess'
  BY <1>1, <1>2, <1>3 DEF IInv, Types, EntriesAreThisProcess, StartedHasWaiter
<1>9. FreshIds'
  BY <1>1, <1>2, <1>3 DEF IInv, Types, FreshIds
<1>10. FailedByItsOwn'
  BY <1>1, <1>2, <1>3 DEF IInv, Types, FreshIds, FailedByItsOwn
<1>11. ChannelHasRoom'
  BY <1>1, <1>2, <1>3 DEF IInv, Types, FreshIds, ChannelHasRoom
<1> QED
  BY <1>4, <1>5, <1>6, <1>7, <1>8, <1>9, <1>10, <1>11 DEF IInv

\* The other steps of a call only bring it further, or take its entry away.
LEMMA CallStepIInv ==
  ASSUME IInv, NEW c \in Everyone,
         CoreReads(c) \/ WriteFails(c) \/ CallReturns(c) \/ CallTimesOut(c) \/ CallDone(c)
  PROVE  IInv'
<1> USE SidecarBounds, SidecarAssumption
<1>1. /\ UNCHANGED <<started, readFailed, gen, nextID, box, failedBy, input, reader, waiter,
                     restore, life, restores>>
      /\ pending' \subseteq pending
  BY DEF CoreReads, WriteFails, CallReturns, CallTimesOut, CallDone, bridge, swap, procs, bounds
<1>2. /\ call' \in [Everyone -> [pc : {"idle", "write", "wait", "result", "error"}, id : Nat]]
      /\ call'[Restorer].pc = "idle" => call[Restorer].pc = "idle"
  BY DEF CoreReads, WriteFails, CallReturns, CallTimesOut, CallDone, Returned, Idle, IInv, Types,
         Everyone
<1>3. (Types /\ Generations /\ Numbers)'
  BY <1>1, <1>2 DEF IInv, Types, Generations, Numbers
<1>4. (OneProcess /\ WaitedIsDead /\ StartedHasWaiter /\ EntriesAreThisProcess /\ FreshIds)'
  BY <1>1 DEF IInv, OneProcess, WaitedIsDead, StartedHasWaiter, EntriesAreThisProcess, FreshIds
<1>5. (SwapAlone /\ FailedByItsOwn /\ ChannelHasRoom /\ FailureIsThisProcess)'
  BY <1>1 DEF IInv, SwapAlone, FailedByItsOwn, ChannelHasRoom, FailureIsThisProcess
<1> QED
  BY <1>3, <1>4, <1>5 DEF IInv

\* A core answers, or ends: nothing of the bridge changes.
LEMMA CoreStepIInv ==
  ASSUME IInv, NEW g \in Procs, CoreStep(g)
  PROVE  IInv'
<1>1. /\ UNCHANGED <<started, readFailed, gen, nextID, pending, call, box, failedBy, input,
                     reader, waiter, restore, restores>>
      /\ \/ life' = life
         \/ life[g] = "alive" /\ life' = [life EXCEPT ![g] = "dead"]
  BY DEF CoreStep, CoreAnswers, CoreOverflows, Dies, Fault, bridge, calls, swap, procs, bounds
<1>2. (Types /\ Generations /\ Numbers)'
  BY <1>1 DEF IInv, Types, Generations, Numbers
<1>3. (OneProcess /\ WaitedIsDead /\ SwapAlone)'
  BY <1>1 DEF IInv, Types, OneProcess, WaitedIsDead, SwapAlone
<1>4. /\ (StartedHasWaiter /\ EntriesAreThisProcess /\ FreshIds)'
      /\ (FailedByItsOwn /\ ChannelHasRoom /\ FailureIsThisProcess)'
  BY <1>1 DEF IInv, StartedHasWaiter, EntriesAreThisProcess, FreshIds, FailedByItsOwn,
              ChannelHasRoom, FailureIsThisProcess
<1> QED
  BY <1>2, <1>3, <1>4 DEF IInv

\* Only the process that is there has a goroutine under way.
LEMMA GoroutineIsCurrent ==
  ASSUME IInv, NEW g \in Procs,
         reader[g] \in {"run", "broken", "failing"} \/ waiter[g] \in {"run", "sweep"}
  PROVE  g = gen
BY SidecarBounds DEF IInv, Types, OneProcess, Procs

\* A sweep of the process that is there fails the calls sent to it, and no other.
LEMMA SweepIInv ==
  ASSUME IInv, NEW g \in Procs, ReaderSweeps(g) \/ WaiterSweeps(g)
  PROVE  IInv'
<1> USE SidecarBounds
<1>1. g = gen
  BY GoroutineIsCurrent DEF ReaderSweeps, WaiterSweeps
<1>2. /\ UNCHANGED <<readFailed, gen, nextID, call, input, restore, life, restores>>
      /\ started' = FALSE /\ pending' = {}
      /\ box' = [i \in Ids |-> IF i \in pending THEN "failed" ELSE box[i]]
      /\ failedBy' = [i \in Ids |-> IF i \in pending THEN g ELSE failedBy[i]]
  BY DEF ReaderSweeps, WaiterSweeps, FailPending, swap, procs, bounds
<1>3. \/ reader[g] = "failing" /\ reader' = [reader EXCEPT ![g] = "done"] /\ waiter' = waiter
      \/ waiter[g] = "sweep" /\ waiter' = [waiter EXCEPT ![g] = "done"] /\ reader' = reader
  BY DEF ReaderSweeps, WaiterSweeps
<1>4. Procs \subseteq Nat /\ Ids \subseteq Nat
  BY DEF Procs, Ids
<1>5. Types'
  BY <1>2, <1>3, <1>4 DEF IInv, Types
<1>6. (Generations /\ Numbers /\ SwapAlone)'
  BY <1>2 DEF IInv, Generations, Numbers, SwapAlone
<1>7. (OneProcess /\ WaitedIsDead)'
  BY <1>1, <1>2, <1>3, <1>4 DEF IInv, Types, OneProcess, WaitedIsDead
<1>8. (StartedHasWaiter /\ EntriesAreThisProcess /\ ChannelHasRoom)'
  BY <1>2 DEF StartedHasWaiter, EntriesAreThisProcess, ChannelHasRoom
<1>9. FreshIds'
  BY <1>2, <1>4 DEF IInv, Types, FreshIds, EntriesAreThisProcess
<1>10. FailedByItsOwn'
  BY <1>1, <1>2, <1>4 DEF IInv, Types, FailedByItsOwn, EntriesAreThisProcess
<1>11. FailureIsThisProcess'
  BY <1>1, <1>2, <1>3 DEF IInv, Types, FailureIsThisProcess
<1> QED
  BY <1>5, <1>6, <1>7, <1>8, <1>9, <1>10, <1>11 DEF IInv

\* An answer is delivered to a channel that has room, and its entry goes.
LEMMA DeliverIInv ==
  ASSUME IInv, NEW g \in Procs, NEW i \in Ids, ReaderDelivers(g, i)
  PROVE  IInv'
<1>1. /\ UNCHANGED <<started, readFailed, gen, nextID, call, failedBy, input, reader, waiter,
                     restore, life, restores>>
      /\ pending' = pending \ {i}
      /\ box' = [box EXCEPT ![i] = IF i \in pending THEN "result" ELSE @]
  BY DEF ReaderDelivers, swap, bounds
<1>2. (Types /\ Generations /\ Numbers)'
  BY <1>1 DEF IInv, Types, Generations, Numbers
<1>3. (OneProcess /\ WaitedIsDead /\ StartedHasWaiter /\ EntriesAreThisProcess)'
  BY <1>1 DEF IInv, OneProcess, WaitedIsDead, StartedHasWaiter, EntriesAreThisProcess
<1>4. FreshIds'
  BY <1>1, SidecarBounds DEF IInv, Types, FreshIds, EntriesAreThisProcess, Ids
<1>5. (SwapAlone /\ FailedByItsOwn /\ FailureIsThisProcess)'
  BY <1>1 DEF IInv, SwapAlone, FailedByItsOwn, FailureIsThisProcess
<1>6. ChannelHasRoom'
  BY <1>1 DEF IInv, Types, ChannelHasRoom
<1> QED
  BY <1>2, <1>3, <1>4, <1>5, <1>6 DEF IInv

\* The other steps of the two goroutines move only the goroutine, and the failure a
\* reader declares is that of the process that is there.
LEMMA GoroutineStepIInv ==
  ASSUME IInv, NEW g \in Procs,
         ReaderEnds(g) \/ ReaderBreaks(g) \/ ReaderFails(g) \/ WaitReturns(g)
  PROVE  IInv'
<1> USE SidecarBounds
<1>1. /\ UNCHANGED <<started, gen, nextID, pending, call, box, failedBy, input, restore, life,
                     restores>>
      /\ \/ /\ reader[g] = "run" /\ waiter' = waiter /\ readFailed' = readFailed
            /\ \E r \in {"done", "broken"} : reader' = [reader EXCEPT ![g] = r]
         \/ /\ reader[g] = "broken" /\ waiter' = waiter /\ readFailed' = TRUE
            /\ reader' = [reader EXCEPT ![g] = "failing"]
         \/ /\ waiter[g] = "run" /\ life[g] = "dead" /\ reader' = reader
            /\ readFailed' = readFailed
            /\ waiter' = [waiter EXCEPT ![g] = "sweep"]
  BY DEF ReaderEnds, ReaderBreaks, ReaderFails, WaitReturns, bridge, calls, swap, procs, bounds
<1>2. g = gen
  BY <1>1, GoroutineIsCurrent
<1>3. Procs \subseteq Nat
  BY DEF Procs
<1>4. (Types /\ Generations /\ Numbers)'
  BY <1>1 DEF IInv, Types, Generations, Numbers
<1>5. (OneProcess /\ WaitedIsDead /\ SwapAlone)'
  BY <1>1, <1>2, <1>3 DEF IInv, Types, OneProcess, WaitedIsDead, SwapAlone
<1>6. (StartedHasWaiter /\ EntriesAreThisProcess)'
  BY <1>1, <1>2 DEF IInv, Types, StartedHasWaiter, EntriesAreThisProcess
<1>7. (FreshIds /\ FailedByItsOwn /\ ChannelHasRoom)'
  BY <1>1 DEF IInv, FreshIds, FailedByItsOwn, ChannelHasRoom
<1>8. FailureIsThisProcess'
  BY <1>1, <1>2 DEF IInv, Types, FailureIsThisProcess
<1> QED
  BY <1>4, <1>5, <1>6, <1>7, <1>8 DEF IInv

\* Once Stop has seen both goroutines end, no process is alive and no call has an
\* entry.
LEMMA StoppedIsQuiet ==
  ASSUME IInv, Stopped
  PROVE  pending = {} /\ \A g \in Procs : life[g] # "alive"
<1>1. pending = {}
  BY DEF IInv, EntriesAreThisProcess, Stopped
<1>2. ASSUME NEW g \in Procs PROVE life[g] # "alive"
  <2>1. g \in Nat /\ gen \in Nat
    BY SidecarBounds DEF IInv, Types, Procs
  <2>2. g < gen \/ g = gen \/ g > gen
    BY <2>1
  <2> QED
    BY <2>2 DEF IInv, OneProcess, WaitedIsDead, Stopped
<1> QED
  BY <1>1, <1>2

\* The next process is started when nothing of this one is left.
LEMMA StartsIInv ==
  ASSUME IInv, Starts
  PROVE  IInv'
<1> USE SidecarBounds
<1>1. pending = {}
  BY StoppedIsQuiet DEF Starts
<1>2. /\ UNCHANGED <<nextID, pending, call, box, failedBy, input, restores>>
      /\ readFailed' = FALSE /\ Stopped
      /\ restore \in {"reopen", "abandon"}
  BY DEF Starts, calls
<1>3. Procs \subseteq Nat /\ gen \in Nat /\ restores \in Nat
  BY DEF IInv, Types, Procs
<1>4. CASE /\ started' = TRUE /\ gen' = gen + 1
           /\ reader' = [reader EXCEPT ![gen'] = "run"]
           /\ waiter' = [waiter EXCEPT ![gen'] = "run"]
           /\ life' = [life EXCEPT ![gen'] = "alive"]
           /\ restore' = IF restore = "reopen" THEN "probe" ELSE "idle"
  <2>1. gen' \in Procs /\ Generations'
    BY <1>2, <1>3, <1>4 DEF IInv, Types, Generations, Procs
  <2>2. Types'
    BY <1>2, <1>4, <2>1 DEF IInv, Types
  <2>3. Numbers'
    BY <1>2, <1>4 DEF IInv, Numbers
  <2>4. OneProcess'
    BY <1>2, <1>3, <1>4, <2>1 DEF IInv, Types, OneProcess, Stopped
  <2>5. (WaitedIsDead /\ StartedHasWaiter /\ SwapAlone)'
    BY <1>2, <1>4, <2>1 DEF IInv, Types, WaitedIsDead, StartedHasWaiter, SwapAlone
  <2>6. (EntriesAreThisProcess /\ FreshIds /\ FailedByItsOwn /\ ChannelHasRoom)'
    BY <1>1, <1>2 DEF IInv, EntriesAreThisProcess, FreshIds, FailedByItsOwn, ChannelHasRoom
  <2>7. FailureIsThisProcess'
    BY <1>2 DEF FailureIsThisProcess
  <2> QED
    BY <2>1, <2>2, <2>3, <2>4, <2>5, <2>6, <2>7 DEF IInv
<1>5. CASE /\ restore' = IF restore = "reopen" THEN "back" ELSE "idle"
           /\ UNCHANGED <<started, gen, reader, waiter, life>>
  <2>1. (Types /\ Generations /\ Numbers)'
    BY <1>2, <1>3, <1>5 DEF IInv, Types, Generations, Numbers
  <2>2. (OneProcess /\ WaitedIsDead /\ StartedHasWaiter /\ SwapAlone)'
    BY <1>2, <1>5 DEF IInv, OneProcess, WaitedIsDead, StartedHasWaiter, SwapAlone
  <2>3. (EntriesAreThisProcess /\ FreshIds /\ FailedByItsOwn /\ ChannelHasRoom)'
    BY <1>1, <1>2 DEF IInv, EntriesAreThisProcess, FreshIds, FailedByItsOwn, ChannelHasRoom
  <2>4. FailureIsThisProcess'
    BY <1>2 DEF FailureIsThisProcess
  <2> QED
    BY <2>1, <2>2, <2>3, <2>4 DEF IInv
<1> QED
  BY <1>4, <1>5 DEF Starts

\* The other steps of a restore.
LEMMA RestoreIInv ==
  ASSUME IInv,
         \/ RestoreBegin \/ StopAsks \/ StopEnds \/ StopTimesOut
         \/ Swap \/ ProbeRefused \/ ProbeEnds \/ Undo
  PROVE  IInv'
<1> USE SidecarBounds
<1>1. /\ UNCHANGED <<readFailed, gen, nextID, pending, box, failedBy, input, reader, waiter, life>>
      /\ started' => started
  BY DEF RestoreBegin, StopAsks, StopEnds, StopTimesOut, Swap, ProbeRefused, ProbeEnds, Undo,
         bridge, calls, procs, bounds
<1>2. gen \in Nat /\ restores \in Nat /\ nextID \in Nat
  BY DEF IInv, Types, Procs
<1>3. (Types /\ Generations /\ Numbers)'
  <2>1. CASE RestoreBegin
    BY <1>1, <1>2, <2>1 DEF RestoreBegin, calls, IInv, Types, Generations, Numbers
  <2>2. CASE StopAsks
    BY <1>1, <1>2, <2>2 DEF StopAsks, calls, bounds, IInv, Types, Generations, Numbers
  <2>3. CASE StopEnds
    BY <1>1, <1>2, <2>3 DEF StopEnds, calls, bounds, IInv, Types, Generations, Numbers
  <2>4. CASE StopTimesOut
    BY <1>1, <1>2, <2>4 DEF StopTimesOut, Stops, calls, bounds, IInv, Types, Generations, Numbers
  <2>5. CASE Swap
    BY <1>1, <1>2, <2>5 DEF Swap, calls, IInv, Types, Generations, Numbers
  <2>6. CASE ProbeRefused
    BY <1>1, <1>2, <2>6 DEF ProbeRefused, calls, bounds, IInv, Types, Generations, Numbers
  <2>7. CASE ProbeEnds
    <3>1. restore = "probe" /\ restore' \in {"idle", "back"} /\ restores' = restores
      BY <2>7 DEF ProbeEnds
    <3>2. call' \in [Everyone -> [pc : {"idle", "write", "wait", "result", "error"}, id : Nat]]
      BY <2>7 DEF ProbeEnds, Idle, IInv, Types
    <3> QED
      BY <1>1, <1>2, <3>1, <3>2 DEF IInv, Types, Generations, Numbers
  <2>8. CASE Undo
    BY <1>1, <1>2, <2>8 DEF Undo, calls, IInv, Types, Generations, Numbers
  <2> QED
    BY <2>1, <2>2, <2>3, <2>4, <2>5, <2>6, <2>7, <2>8
<1>4. SwapAlone'
  <2>1. CASE StopEnds
    BY <1>1, <2>1, StoppedIsQuiet DEF StopEnds, SwapAlone
  <2>2. CASE ~StopEnds
    <3>1. restore' = "swap" => restore = "swap"
      BY <2>2 DEF RestoreBegin, StopAsks, StopTimesOut, Swap, ProbeRefused, ProbeEnds, Undo, Stops
    <3> QED
      BY <1>1, <3>1 DEF IInv, SwapAlone
  <2> QED
    BY <2>1, <2>2
<1>5. /\ (OneProcess /\ WaitedIsDead /\ StartedHasWaiter /\ EntriesAreThisProcess /\ FreshIds)'
      /\ (FailedByItsOwn /\ ChannelHasRoom /\ FailureIsThisProcess)'
  BY <1>1 DEF IInv, OneProcess, WaitedIsDead, StartedHasWaiter, EntriesAreThisProcess, FreshIds,
              FailedByItsOwn, ChannelHasRoom, FailureIsThisProcess
<1> QED
  BY <1>3, <1>4, <1>5 DEF IInv

-----------------------------------------------------------------------------
\* Every step preserves the invariant.
LEMMA NextIInv == IInv /\ [Next]_vars => IInv'
<1> SUFFICES ASSUME IInv, [Next]_vars PROVE IInv'
  OBVIOUS
<1>1. CASE \E c \in Everyone : CallStep(c)
  BY <1>1, CallBeginIInv, CallStepIInv DEF CallStep
<1>2. CASE \E g \in Procs : CoreStep(g) \/ ReaderStep(g) \/ WaiterStep(g)
  <2>1. PICK g \in Procs : CoreStep(g) \/ ReaderStep(g) \/ WaiterStep(g)
    BY <1>2
  <2>2. CASE CoreStep(g)
    BY <2>2, CoreStepIInv
  <2>3. CASE ReaderStep(g)
    BY <2>3, DeliverIInv, GoroutineStepIInv, SweepIInv DEF ReaderStep
  <2>4. CASE WaiterStep(g)
    BY <2>4, GoroutineStepIInv, SweepIInv DEF WaiterStep
  <2> QED
    BY <2>1, <2>2, <2>3, <2>4
<1>3. CASE RestoreBegin \/ RestoreStep
  BY <1>3, RestoreIInv, StartsIInv DEF RestoreStep
<1>4. CASE UNCHANGED vars
  BY <1>4 DEF vars, bridge, swap, calls, procs, bounds, IInv, Types, Generations, Numbers,
              OneProcess, WaitedIsDead, StartedHasWaiter, EntriesAreThisProcess, FreshIds,
              SwapAlone, FailedByItsOwn, ChannelHasRoom, FailureIsThisProcess
<1> QED
  BY <1>1, <1>2, <1>3, <1>4 DEF Next

\* The invariant holds throughout.
LEMMA Invariance == Spec => []IInv
BY InitIInv, NextIInv, PTL DEF Spec

\* withCoreStopped exchanges the folders of the profile only while no core is alive.
THEOREM SwapIsAlone == Spec => []SwapAlone
<1>1. IInv => SwapAlone
  BY DEF IInv
<1> QED
  BY <1>1, Invariance, PTL

\* failPending of a process's goroutines never fails a call sent to another process.
THEOREM CallsFailedByTheirOwn == Spec => []FailedByItsOwn
<1>1. IInv => FailedByItsOwn
  BY DEF IInv
<1> QED
  BY <1>1, Invariance, PTL

\* An entry in pending, also one whose write failed, is still to be swept by the
\* waiter of the process it was sent to.
THEOREM EntriesHaveWaiters == Spec => []EntryHasWaiter
<1>1. IInv => EntryHasWaiter
  BY DEF IInv, EntriesAreThisProcess, EntryHasWaiter
<1> QED
  BY <1>1, Invariance, PTL

\* The one place in a call's channel is free as long as the call has an entry, so no
\* send of readLoop or failPending blocks.
THEOREM ChannelsHaveRoom == Spec => []ChannelHasRoom
<1>1. IInv => ChannelHasRoom
  BY DEF IInv
<1> QED
  BY <1>1, Invariance, PTL

\* readFailed, once a Restart has cleared it, is not set again by the reader of the
\* process that was stopped.
THEOREM FailuresAreCurrent == Spec => []FailureIsThisProcess
<1>1. IInv => FailureIsThisProcess
  BY DEF IInv
<1> QED
  BY <1>1, Invariance, PTL

=============================================================================
