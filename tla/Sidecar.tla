------------------------------- MODULE Sidecar -------------------------------
(***************************************************************************)
(* The bridge's transport to the core process (sidecar.go), and the one    *)
(* caller that stops and restarts it (withCoreStopped in restore.go).      *)
(*                                                                         *)
(* Each process the bridge starts has two goroutines of its own: a reader  *)
(* of its output, which delivers answers and declares the transport failed *)
(* when the output cannot be read, and a waiter, which fails every pending *)
(* call once the process has exited.  Both act on the one set of pending   *)
(* calls the bridge has, whichever process those were sent to.  A call     *)
(* holds the bridge's lock while it writes its request, and the write      *)
(* blocks until the core reads.                                            *)
(*                                                                         *)
(* Events of the core change nothing here and are left out; so is the      *)
(* bridge's own end.  The interface runs one restore at a time.            *)
(***************************************************************************)
EXTENDS Naturals, FiniteSets

CONSTANTS
  Callers,     \* goroutines that call the core
  Restorer,    \* the goroutine that restores a profile
  MaxCalls,    \* bound: requests of callers
  MaxRestores, \* bound: restores
  MaxFaults    \* bound: processes that die or answer too much, failed swaps and starts

ASSUME SidecarAssumption == Restorer \notin Callers
ASSUME SidecarBounds ==
  MaxCalls \in Nat /\ MaxRestores \in Nat /\ MaxFaults \in Nat

\* A restore starts the core at most twice.
Procs == 1 .. (1 + 2 * MaxRestores)
\* A restore asks the core once.
Ids == 1 .. (MaxCalls + MaxRestores)
Everyone == Callers \cup {Restorer}

VARIABLES
  \* The Sidecar value
  started, readFailed,
  gen,       \* the process of cmd, stdin, exited and readDone
  mu,        \* a call holds the lock for its write
  nextID,
  pending,   \* ids of the calls that have an entry
  \* The goroutines
  call,      \* of each caller
  box,       \* what each call's channel was sent
  failedBy,  \* the process whose goroutine failed the call, 0 for none
  reader, waiter,
  restore,   \* where withCoreStopped is
  stopping,  \* its Stop has closed the sidecar and waits
  \* The processes
  life, killed,
  input,     \* the process each request was written to, 0 for none
  work,      \* requests each process has read and not answered
  output,    \* answers each process has written and the reader not read
  tooBig,    \* processes whose output can no longer be read
  \* Bounds
  restores, faults

bridge == <<started, readFailed, gen, mu, nextID, pending>>
swap   == <<restore, stopping>>
calls  == <<call, box, failedBy, input>>
procs  == <<life, killed, work, output, tooBig>>
bounds == <<restores, faults>>
vars   == <<bridge, calls, reader, waiter, swap, procs, bounds>>

Idle == [pc |-> "idle", id |-> 0]

\* The first process is started with the application.
Init ==
  /\ started = TRUE /\ readFailed = FALSE /\ gen = 1 /\ mu = FALSE /\ nextID = 0 /\ pending = {}
  /\ call = [c \in Everyone |-> Idle]
  /\ box = [i \in Ids |-> "none"] /\ failedBy = [i \in Ids |-> 0] /\ input = [i \in Ids |-> 0]
  /\ reader = [g \in Procs |-> IF g = 1 THEN "run" ELSE "none"]
  /\ waiter = [g \in Procs |-> IF g = 1 THEN "run" ELSE "none"]
  /\ restore = "idle" /\ stopping = FALSE
  /\ life = [g \in Procs |-> IF g = 1 THEN "alive" ELSE "none"]
  /\ killed = {} /\ tooBig = {}
  /\ work = [g \in Procs |-> {}] /\ output = [g \in Procs |-> {}]
  /\ restores = 0 /\ faults = 0

Fault == faults < MaxFaults /\ faults' = faults + 1

-----------------------------------------------------------------------------
(* A call.                                                                 *)

\* The lock is taken, the transport is looked at and the entry made; the lock is
\* kept for the write.
CallBegin(c) ==
  /\ call[c].pc = "idle" /\ ~mu
  /\ c = Restorer => restore = "probe"
  /\ started /\ ~readFailed
  /\ (c # Restorer => nextID < MaxCalls) /\ nextID' = nextID + 1
  /\ pending' = pending \cup {nextID'}
  /\ mu' = TRUE
  /\ call' = [call EXCEPT ![c] = [pc |-> "write", id |-> nextID']]
  /\ input' = [input EXCEPT ![nextID'] = gen]
  /\ UNCHANGED <<started, readFailed, gen, box, failedBy, reader, waiter, swap, procs, bounds>>

\* The request is in the pipe when the core has read enough.
CoreReads(c) ==
  /\ call[c].pc = "write"
  /\ LET g == input[call[c].id] IN
       /\ life[g] = "alive"
       /\ work' = [work EXCEPT ![g] = @ \cup {call[c].id}]
  /\ mu' = FALSE
  /\ call' = [call EXCEPT ![c].pc = "wait"]
  /\ UNCHANGED <<started, readFailed, gen, nextID, pending, box, failedBy, input, reader, waiter,
                 swap, life, killed, output, tooBig, bounds>>

\* The pipe is broken: the call returns, and its entry stays.
WriteFails(c) ==
  /\ call[c].pc = "write"
  /\ life[input[call[c].id]] = "dead"
  /\ mu' = FALSE
  /\ call' = [call EXCEPT ![c].pc = "error"]
  /\ UNCHANGED <<started, readFailed, gen, nextID, pending, box, failedBy, input, reader, waiter,
                 swap, procs, bounds>>

\* Its channel was sent something.
CallReturns(c) ==
  /\ call[c].pc = "wait" /\ box[call[c].id] # "none"
  /\ call' = [call EXCEPT ![c].pc = IF box[call[c].id] = "result" THEN "result" ELSE "error"]
  /\ UNCHANGED <<bridge, box, failedBy, input, reader, waiter, swap, procs, bounds>>

\* Its time is up: the entry goes, and the answer has nobody to go to.
CallTimesOut(c) ==
  /\ call[c].pc = "wait" /\ ~mu
  /\ pending' = pending \ {call[c].id}
  /\ call' = [call EXCEPT ![c].pc = "error"]
  /\ UNCHANGED <<started, readFailed, gen, mu, nextID, box, failedBy, input, reader, waiter,
                 swap, procs, bounds>>

Returned(c) == call[c].pc \in {"result", "error"}

\* A caller has its answer and may call again.
CallDone(c) ==
  /\ Returned(c) /\ c # Restorer
  /\ call' = [call EXCEPT ![c] = Idle]
  /\ UNCHANGED <<bridge, box, failedBy, input, reader, waiter, swap, procs, bounds>>

-----------------------------------------------------------------------------
(* The core.                                                               *)

\* A request is handled on its own task, so answers come in any order; the output
\* is one stream.
CoreAnswers(g, i) ==
  /\ life[g] = "alive" /\ i \in work[g] /\ g \notin tooBig
  /\ work' = [work EXCEPT ![g] = @ \ {i}]
  /\ output' = [output EXCEPT ![g] = @ \cup {i}]
  /\ UNCHANGED <<bridge, calls, reader, waiter, swap, life, killed, tooBig, bounds>>

\* An answer longer than the reader takes.
CoreOverflows(g) ==
  /\ life[g] = "alive" /\ work[g] # {} /\ Fault
  /\ tooBig' = tooBig \cup {g}
  /\ UNCHANGED <<bridge, calls, reader, waiter, swap, life, killed, work, output, restores>>

\* A process that was killed ends; one may also end by itself.
Dies(g) ==
  /\ life[g] = "alive"
  /\ (g \in killed /\ UNCHANGED faults) \/ (g \notin killed /\ Fault)
  /\ life' = [life EXCEPT ![g] = "dead"]
  /\ work' = [work EXCEPT ![g] = {}]
  /\ UNCHANGED <<bridge, calls, reader, waiter, swap, killed, output, tooBig, restores>>

-----------------------------------------------------------------------------
(* The goroutines of a process.                                            *)

\* Every entry goes, and its channel is told so.
FailPending(g) ==
  /\ pending' = {}
  /\ box' = [i \in Ids |-> IF i \in pending THEN "failed" ELSE box[i]]
  /\ failedBy' = [i \in Ids |-> IF i \in pending THEN g ELSE failedBy[i]]

\* Mutation: the entry is looked up and stays.
Mutant_ReaderDelivers(g, i) ==
  /\ reader[g] = "run" /\ ~mu
  /\ i \in output[g]
  /\ output' = [output EXCEPT ![g] = @ \ {i}]
  /\ box' = [box EXCEPT ![i] = IF i \in pending THEN "result" ELSE @]
  /\ UNCHANGED <<bridge, call, failedBy, input, reader, waiter, swap, life, killed, work, tooBig, bounds>>

\* readLoop: an answer, which is dropped when its entry is gone.
ReaderDelivers(g, i) ==
  /\ reader[g] = "run" /\ ~mu
  /\ i \in output[g]
  /\ output' = [output EXCEPT ![g] = @ \ {i}]
  /\ pending' = pending \ {i}
  /\ box' = [box EXCEPT ![i] = IF i \in pending THEN "result" ELSE @]
  /\ UNCHANGED <<started, readFailed, gen, mu, nextID, call, failedBy, input, reader, waiter,
                 swap, life, killed, work, tooBig, bounds>>

\* The end of the output.
ReaderEnds(g) ==
  /\ reader[g] = "run"
  /\ life[g] = "dead" /\ output[g] = {}
  /\ reader' = [reader EXCEPT ![g] = "done"]
  /\ UNCHANGED <<bridge, calls, waiter, swap, procs, bounds>>

\* The output cannot be read: too long an answer, or a pipe that Wait closed under
\* the reader.  Nobody reads it any more.
ReaderBreaks(g) ==
  /\ reader[g] = "run"
  /\ (g \in tooBig /\ output[g] = {}) \/ waiter[g] \in {"sweep", "done"}
  /\ reader' = [reader EXCEPT ![g] = "broken"]
  /\ UNCHANGED <<bridge, calls, waiter, swap, procs, bounds>>

\* Mutation: the lock is taken before the process is cancelled.
Mutant_ReaderFails(g) ==
  /\ reader[g] = "broken" /\ ~mu
  /\ readFailed' = TRUE
  /\ killed' = killed \cup {g}
  /\ reader' = [reader EXCEPT ![g] = "failing"]
  /\ UNCHANGED <<started, gen, mu, nextID, pending, calls, waiter, swap, life, work, output,
                 tooBig, bounds>>

\* The transport is marked failed and the process cancelled without the lock, which
\* a blocked call may hold.
ReaderFails(g) ==
  /\ reader[g] = "broken"
  /\ readFailed' = TRUE
  /\ killed' = killed \cup {g}
  /\ reader' = [reader EXCEPT ![g] = "failing"]
  /\ UNCHANGED <<started, gen, mu, nextID, pending, calls, waiter, swap, life, work, output,
                 tooBig, bounds>>

\* And then, with the lock, every call fails.
ReaderSweeps(g) ==
  /\ reader[g] = "failing" /\ ~mu
  /\ started' = FALSE
  /\ FailPending(g)
  /\ reader' = [reader EXCEPT ![g] = "done"]
  /\ UNCHANGED <<readFailed, gen, mu, nextID, call, input, waiter, swap, procs, bounds>>

\* cmd.Wait returns, and closes the pipes.
WaitReturns(g) ==
  /\ waiter[g] = "run" /\ life[g] = "dead"
  /\ waiter' = [waiter EXCEPT ![g] = "sweep"]
  /\ UNCHANGED <<bridge, calls, reader, swap, procs, bounds>>

\* Mutation: the calls are failed and the sidecar is still marked as started.
Mutant_WaiterSweeps(g) ==
  /\ waiter[g] = "sweep" /\ ~mu
  /\ FailPending(g)
  /\ waiter' = [waiter EXCEPT ![g] = "done"]
  /\ UNCHANGED <<started, readFailed, gen, mu, nextID, call, input, reader, swap, procs, bounds>>

\* The waiter fails every call that has an entry.
WaiterSweeps(g) ==
  /\ waiter[g] = "sweep" /\ ~mu
  /\ started' = FALSE
  /\ FailPending(g)
  /\ waiter' = [waiter EXCEPT ![g] = "done"]
  /\ UNCHANGED <<readFailed, gen, mu, nextID, call, input, reader, swap, procs, bounds>>

-----------------------------------------------------------------------------
(* withCoreStopped: stop, swap, start again, and go back when the core     *)
(* does not answer.  "clear" and "back" are its two Stops, "reopen" and    *)
(* "abandon" its Restarts, the second one with its result ignored.         *)

Stops == {"clear", "reopen", "back", "abandon"}

RestoreBegin ==
  /\ restore = "idle" /\ restores < MaxRestores
  /\ restores' = restores + 1
  /\ restore' = "clear"
  /\ UNCHANGED <<bridge, calls, reader, waiter, stopping, procs, faults>>

\* Close.
StopAsks ==
  /\ restore \in Stops /\ ~stopping /\ ~mu
  /\ started' = FALSE
  /\ killed' = killed \cup {gen}
  /\ stopping' = TRUE
  /\ UNCHANGED <<readFailed, gen, mu, nextID, pending, calls, reader, waiter, restore, life, work,
                 output, tooBig, bounds>>

\* Mutation: nothing is waited for.
Mutant_NotStopped == TRUE

\* Mutation: only the end of the output is waited for.
Mutant_Stopped == reader[gen] = "done"

\* What Stop waits for.
Stopped == waiter[gen] = "done" /\ reader[gen] = "done"

\* A Stop returns.
StopEnds ==
  /\ restore \in {"clear", "back"} /\ stopping /\ Stopped
  /\ stopping' = FALSE
  /\ restore' = IF restore = "clear" THEN "swap" ELSE "undo"
  /\ UNCHANGED <<bridge, calls, reader, waiter, procs, bounds>>

\* A Stop gives up: on its own, or as the first half of a Restart.
StopTimesOut ==
  /\ restore \in Stops /\ stopping
  /\ stopping' = FALSE
  /\ restore' = CASE restore = "clear" -> "abandon"
                  [] restore = "reopen" -> "back"
                  [] restore = "back" -> "undo"
                  [] restore = "abandon" -> "idle"
  /\ UNCHANGED <<bridge, calls, reader, waiter, procs, bounds>>

\* The second half of a Restart: the failure of the process that is gone is
\* forgotten, and Start.
Starts ==
  /\ restore \in {"reopen", "abandon"} /\ stopping /\ Stopped /\ ~mu
  /\ readFailed' = FALSE
  /\ stopping' = FALSE
  /\ \/ /\ started' = TRUE /\ gen' = gen + 1
        /\ reader' = [reader EXCEPT ![gen'] = "run"]
        /\ waiter' = [waiter EXCEPT ![gen'] = "run"]
        /\ life' = [life EXCEPT ![gen'] = "alive"]
        /\ restore' = IF restore = "reopen" THEN "probe" ELSE "idle"
        /\ UNCHANGED faults
     \/ /\ Fault
        /\ restore' = IF restore = "reopen" THEN "back" ELSE "idle"
        /\ UNCHANGED <<started, gen, reader, waiter, life>>
  /\ UNCHANGED <<mu, nextID, pending, calls, killed, work, output, tooBig, restores>>

\* The folders are exchanged, or that fails and they are back.
Swap ==
  /\ restore = "swap"
  /\ (restore' = "reopen" /\ UNCHANGED faults) \/ (restore' = "abandon" /\ Fault)
  /\ UNCHANGED <<bridge, calls, reader, waiter, stopping, procs, restores>>

\* account.list could not be asked.
ProbeRefused ==
  /\ restore = "probe" /\ call[Restorer].pc = "idle" /\ ~mu
  /\ ~started \/ readFailed
  /\ restore' = "back"
  /\ UNCHANGED <<bridge, calls, reader, waiter, stopping, procs, bounds>>

\* It was answered: a core that could not open its store answers with an error.
ProbeEnds ==
  /\ restore = "probe" /\ Returned(Restorer)
  /\ \/ call[Restorer].pc = "result" /\ restore' = "idle" /\ UNCHANGED faults
     \/ call[Restorer].pc = "result" /\ restore' = "back" /\ Fault
     \/ call[Restorer].pc = "error" /\ restore' = "back" /\ UNCHANGED faults
  /\ call' = [call EXCEPT ![Restorer] = Idle]
  /\ UNCHANGED <<bridge, box, failedBy, input, reader, waiter, stopping, procs, restores>>

\* The previous profile is put back; when that fails the core stays stopped.
Undo ==
  /\ restore = "undo"
  /\ (restore' = "abandon" /\ UNCHANGED faults) \/ (restore' = "idle" /\ Fault)
  /\ UNCHANGED <<bridge, calls, reader, waiter, stopping, procs, restores>>

-----------------------------------------------------------------------------
CallStep(c) ==
  CallBegin(c) \/ CoreReads(c) \/ WriteFails(c) \/ CallReturns(c) \/ CallTimesOut(c) \/ CallDone(c)

CoreStep(g) == (\E i \in Ids : CoreAnswers(g, i)) \/ CoreOverflows(g) \/ Dies(g)

ReaderStep(g) ==
  (\E i \in Ids : ReaderDelivers(g, i)) \/ ReaderEnds(g) \/ ReaderBreaks(g) \/ ReaderFails(g)
  \/ ReaderSweeps(g)

WaiterStep(g) == WaitReturns(g) \/ WaiterSweeps(g)

\* What withCoreStopped does once it has begun.
RestoreStep ==
  StopAsks \/ StopEnds \/ StopTimesOut \/ Starts \/ Swap \/ ProbeRefused \/ ProbeEnds \/ Undo

Next ==
  \/ \E c \in Everyone : CallStep(c)
  \/ \E g \in Procs : CoreStep(g) \/ ReaderStep(g) \/ WaiterStep(g)
  \/ RestoreBegin
  \/ RestoreStep

\* A core reads its input as long as its output is read; what is killed dies;
\* goroutines run, and the lock goes round.  A core need not answer: the time of a
\* call runs out.
Fairness ==
  /\ \A c \in Everyone :
       /\ WF_vars(CoreReads(c) /\ reader[input[call[c].id]] = "run")
       /\ WF_vars(WriteFails(c)) /\ WF_vars(CallReturns(c)) /\ WF_vars(CallTimesOut(c))
  /\ WF_vars(CallBegin(Restorer))
  /\ \A g \in Procs : WF_vars(Dies(g) /\ g \in killed) /\ WF_vars(ReaderStep(g)) /\ WF_vars(WaiterStep(g))
  /\ WF_vars(RestoreStep)

Spec == Init /\ [][Next]_vars /\ Fairness

-----------------------------------------------------------------------------
(* Properties.                                                             *)

\* The folders of the profile are exchanged while no core runs on them, however
\* Stop, the death of the process and its goroutines fall together.
SwapAlone == restore = "swap" => \A g \in Procs : life[g] # "alive"

\* A call is failed only by the goroutines of the process it was sent to: what is
\* left of an old process never fails the calls of the next one.
FailedByItsOwn == \A i \in Ids : failedBy[i] \in {0, input[i]}

\* Whatever became of its write, a call's entry has a waiter that will still fail
\* it: no entry outlives the process it was sent to.
EntryHasWaiter == \A i \in pending : waiter[input[i]] # "done"

\* A call that has an entry was sent nothing yet.  The channel holds one answer: a
\* second send would block its goroutine, and one of them sends with the lock held.
ChannelHasRoom == \A i \in pending : box[i] = "none"

\* The transport counts as failed only for the process that is there: a failure
\* that a restart has cleared is not declared again by an old reader.
FailureIsThisProcess == readFailed => reader[gen] \in {"failing", "done"}

\* Every call comes to an end, also one that is blocked writing to a core that has
\* stopped reading because its answer was too long.
CallEnds == \A c \in Callers : call[c].pc \in {"write", "wait"} ~> Returned(c)

\* A restore comes to an end, whatever fails.
RestoreEnds == restore # "idle" ~> restore = "idle"

=============================================================================
