--------------------------- MODULE OutgoingSends ---------------------------
(***************************************************************************)
(* The life of an outgoing message in meron-core.                          *)
(*                                                                         *)
(* Two tables of the store outlive the process: outgoing_attempts, the     *)
(* record of what became of each send (store/outgoing.rs), and             *)
(* scheduled_sends, the messages waiting for their hour (store/mod.rs).    *)
(* The workers of the process act on them: the deferred watch, which lets  *)
(* go of the rows whose hour has come, and the handlers of "send" and      *)
(* "mail.sendScheduledNow", each of which runs perform_send (main.rs).     *)
(* Every access to the store is one critical section under its lock, so    *)
(* one action; between two of them anything else may happen, the death of  *)
(* the process included.                                                   *)
(*                                                                         *)
(* A message is an id: the id of its attempt, which for a scheduled        *)
(* message is the id of its row and for a held reply its Message-ID, so    *)
(* that the stored copy and the reply are the same id.  Its words, its     *)
(* recipients and the wording of errors are left out.                      *)
(***************************************************************************)
EXTENDS Naturals, FiniteSets, Attempts

CONSTANTS
  Ids,                \* messages, by attempt id
  Callers,            \* handlers of requests running at once
  Watch,              \* the task spawn_deferred_watch starts
  MAX_SEND_ATTEMPTS,  \* tries before the watch stops (5 in the code)
  MaxRequests,        \* bound: things a person asks for
  MaxCrashes,         \* bound: deaths of the process
  MaxFaults           \* bound: store operations that fail

ASSUME IdsAssumption == IsFiniteSet(Ids)
ASSUME WorkersAssumption == IsFiniteSet(Callers) /\ Watch \notin Callers
ASSUME BoundsAssumption ==
  /\ MAX_SEND_ATTEMPTS \in Nat \ {0}
  /\ MaxRequests \in Nat
  /\ MaxCrashes \in Nat
  /\ MaxFaults \in Nat

Workers == Callers \cup {Watch}

VARIABLES
  \* The store
  attempt,    \* state of the attempt record, "none" when there is no record
  unfiled,    \* the record has an archive_error
  filed,      \* ids with a row in scheduled_sends
  tries,      \* the row's attempts column
  due,        \* ids whose row is past its hour and its retry backoff
  open,       \* ids whose account is configured
  \* The process
  up,         \* it runs, past its startup
  queue,      \* rows the watch has read and not come to yet
  job,        \* what each worker is doing
  \* The mail servers
  adrift,     \* copies the process no longer follows and a server may take
  delivered,  \* how many times a server has taken the message
  \* History
  consent,    \* times a person decided about the message: resend, resolve
  forgotten,  \* times a record of a message that may have gone was pruned
  promised,   \* ids a person asked to send later and has not called off
  \* Bounds
  requests, crashes, faults

store   == <<attempt, unfiled, filed, tries, due, open>>
process == <<up, queue, job>>
servers == <<adrift, delivered>>
history == <<consent, forgotten, promised>>
bounds  == <<requests, crashes, faults>>
vars    == <<store, process, servers, history, bounds>>

(***************************************************************************)
(* A worker goes through send_scheduled (a scheduled message sent without  *)
(* the resend flag starts at "precheck") and perform_send, and ends by     *)
(* settling the row.  "said" is what it last learnt: where its copy is     *)
(* while it transmits, the verdict when it marks the record, the outcome   *)
(* when it settles the row.                                                *)
(***************************************************************************)
Job ==
  [pc: {"idle", "precheck", "begin", "connect", "transmit", "mark", "file", "settle"},
   id: Ids \cup {""},
   kind: {"now", "scheduled"},
   resend: BOOLEAN,
   said: {"", "travelling", "taken",
          "ok", "refused", "lost",
          "sent", "uncertain", "in_flight", "err"}]

Idle == [pc |-> "idle", id |-> "", kind |-> "now", resend |-> FALSE, said |-> ""]

Start(pc, i, kind, resend) ==
  [pc |-> pc, id |-> i, kind |-> kind, resend |-> resend, said |-> ""]

At(w, pc) == up /\ job[w].pc = pc

\* The worker moves to the step pc, having learnt said.
Go(w, pc, said) ==
  job' = [job EXCEPT ![w] =
            [pc |-> pc, id |-> @.id, kind |-> @.kind, resend |-> @.resend, said |-> said]]

Init ==
  /\ attempt = [i \in Ids |-> "none"]
  /\ unfiled = [i \in Ids |-> FALSE]
  /\ filed = {}
  /\ tries = [i \in Ids |-> 0]
  /\ due = {}
  /\ open = Ids
  /\ up = TRUE
  /\ queue = {}
  /\ job = [w \in Workers |-> Idle]
  /\ adrift = [i \in Ids |-> 0]
  /\ delivered = [i \in Ids |-> 0]
  /\ consent = [i \in Ids |-> 0]
  /\ forgotten = [i \in Ids |-> 0]
  /\ promised = {}
  /\ requests = 0 /\ crashes = 0 /\ faults = 0

-----------------------------------------------------------------------------
(* What a person asks for.                                                 *)

Asked == up /\ requests < MaxRequests /\ requests' = requests + 1

\* "mail.scheduleSend": schedule_send replaces any earlier row.
ScheduleSend(i) ==
  /\ Asked
  /\ filed' = filed \cup {i}
  /\ tries' = [tries EXCEPT ![i] = 0]
  /\ due' = due \ {i}
  /\ promised' = promised \cup {i}
  /\ UNCHANGED <<attempt, unfiled, open, process, servers, consent, forgotten, crashes, faults>>

\* "mail.cancelScheduledSend": the row goes and its message is handed back.
CancelScheduledSend(i) ==
  /\ Asked
  /\ i \in filed
  /\ filed' = filed \ {i}
  /\ due' = due \ {i}
  /\ promised' = promised \ {i}
  /\ UNCHANGED <<attempt, unfiled, tries, open, process, servers, consent, forgotten, crashes, faults>>

\* A person who asks for a resend decides that a repeat is worth it.
CountConsent(i, resend) ==
  consent' = IF resend THEN [consent EXCEPT ![i] = @ + 1] ELSE consent

\* "mail.sendScheduledNow": the row is read, then sent by send_scheduled.
SendScheduledNow(c, i, resend) ==
  /\ Asked
  /\ job[c].pc = "idle"
  /\ i \in filed
  /\ job' = [job EXCEPT ![c] = Start(IF resend THEN "begin" ELSE "precheck", i, "scheduled", resend)]
  /\ CountConsent(i, resend)
  /\ UNCHANGED <<store, up, queue, servers, forgotten, promised, crashes, faults>>

\* "send": an immediate message, or a held reply let go.
Send(c, i, resend) ==
  /\ Asked
  /\ job[c].pc = "idle"
  /\ job' = [job EXCEPT ![c] = Start("begin", i, "now", resend)]
  /\ CountConsent(i, resend)
  /\ UNCHANGED <<store, up, queue, servers, forgotten, promised, crashes, faults>>

\* "mail.resolveOutgoing": a person settles what needed one.
ResolveOutgoing(i) ==
  /\ Asked
  /\ needs_a_person(attempt[i], unfiled[i])
  /\ attempt' = [attempt EXCEPT ![i] = "resolved"]
  /\ consent' = [consent EXCEPT ![i] = @ + 1]
  /\ UNCHANGED <<unfiled, filed, tries, due, open, process, servers, forgotten, promised, crashes, faults>>

\* "account.remove": what was to be sent later stays, given up.
RemoveAccount(i) ==
  /\ Asked
  /\ i \in open
  /\ open' = open \ {i}
  /\ tries' = IF i \in filed THEN [tries EXCEPT ![i] = MAX_SEND_ATTEMPTS] ELSE tries
  /\ UNCHANGED <<attempt, unfiled, filed, due, process, servers, history, crashes, faults>>

\* The same address is added again: an account's id is its address.
AddAccount(i) ==
  /\ Asked
  /\ i \notin open
  /\ open' = open \cup {i}
  /\ UNCHANGED <<attempt, unfiled, filed, tries, due, process, servers, history, crashes, faults>>

-----------------------------------------------------------------------------
(* The deferred watch.                                                     *)

\* The hour of a row comes, or the backoff after its last refusal is over.
HourComes(i) ==
  /\ i \in filed \ due
  /\ due' = due \cup {i}
  /\ UNCHANGED <<attempt, unfiled, filed, tries, open, process, servers, history, bounds>>

due_scheduled_sends == {i \in filed \cap due : tries[i] < MAX_SEND_ATTEMPTS}

\* One tick reads the rows that are due, once, and drops those whose account
\* is not open; the rest are sent one after the other.
WatchTick ==
  /\ At(Watch, "idle") /\ queue = {}
  /\ due_scheduled_sends \cap open # {}
  /\ queue' = due_scheduled_sends \cap open
  /\ UNCHANGED <<store, up, job, servers, history, bounds>>

WatchTake(i) ==
  /\ At(Watch, "idle")
  /\ i \in queue
  /\ queue' = queue \ {i}
  /\ job' = [job EXCEPT ![Watch] = Start("precheck", i, "scheduled", FALSE)]
  /\ UNCHANGED <<store, up, servers, history, bounds>>

\* A row whose message can no longer be read is given up outright.
WatchUnreadable(i) ==
  /\ At(Watch, "idle")
  /\ i \in queue
  /\ queue' = queue \ {i}
  /\ tries' = IF i \in filed THEN [tries EXCEPT ![i] = MAX_SEND_ATTEMPTS] ELSE tries
  /\ UNCHANGED <<attempt, unfiled, filed, due, open, up, job, servers, history, bounds>>

-----------------------------------------------------------------------------
(* send_scheduled and perform_send, run by any worker.                     *)

\* A store operation fails: disk full, database busy past its timeout.
Fault == faults < MaxFaults /\ faults' = faults + 1

Precheck(w) ==
  LET outcome == scheduled_send_precheck(attempt[job[w].id]) IN
  /\ At(w, "precheck")
  /\ IF outcome = "try" THEN Go(w, "begin", "") ELSE Go(w, "settle", outcome)
  /\ UNCHANGED <<store, up, queue, servers, history, bounds>>

PrecheckFails(w) ==
  /\ At(w, "precheck")
  /\ Fault
  /\ Go(w, "settle", "err")
  /\ UNCHANGED <<store, up, queue, servers, history, requests, crashes>>

\* The earlier record is looked at and the new one written under one lock.
BeginAttempt(w) ==
  LET i == job[w].id IN
  /\ At(w, "begin")
  /\ job[w].resend \/ ~may_have_gone(attempt[i])
  /\ attempt' = [attempt EXCEPT ![i] = "sending"]
  /\ unfiled' = [unfiled EXCEPT ![i] = FALSE]
  /\ Go(w, "connect", "")
  /\ UNCHANGED <<filed, tries, due, open, up, queue, servers, history, bounds>>

AlreadyAttempted(w) ==
  LET i == job[w].id IN
  /\ At(w, "begin")
  /\ ~job[w].resend /\ may_have_gone(attempt[i])
  /\ Go(w, "settle", scheduled_outcome_of(attempt[i]))
  /\ UNCHANGED <<store, up, queue, servers, history, bounds>>

\* guard_command refuses the account, before anything is written.
GuardRefuses(w) ==
  /\ At(w, "begin")
  /\ Go(w, "settle", "err")
  /\ UNCHANGED <<store, up, queue, servers, history, bounds>>

BeginFails(w) ==
  /\ At(w, "begin")
  /\ Fault
  /\ Go(w, "settle", "err")
  /\ UNCHANGED <<store, up, queue, servers, history, requests, crashes>>

\* Credentials found, message built, connection made, DATA accepted: from
\* here the message is leaving.
Connect(w) ==
  /\ At(w, "connect")
  /\ job[w].id \in open
  /\ Go(w, "transmit", "travelling")
  /\ UNCHANGED <<store, up, queue, servers, history, bounds>>

\* No credentials, no connection, a refusal of the envelope or of the
\* message: nothing went.
Refuse(w) ==
  /\ At(w, "connect") \/ (At(w, "transmit") /\ job[w].said = "travelling")
  /\ Go(w, "mark", "refused")
  /\ UNCHANGED <<store, up, queue, servers, history, bounds>>

\* The server takes the message; its reply is still to come.
ServerTakes(w) ==
  /\ At(w, "transmit") /\ job[w].said = "travelling"
  /\ Go(w, "transmit", "taken")
  /\ delivered' = [delivered EXCEPT ![job[w].id] = @ + 1]
  /\ UNCHANGED <<store, up, queue, adrift, history, bounds>>

ReplyArrives(w) ==
  /\ At(w, "transmit") /\ job[w].said = "taken"
  /\ Go(w, "mark", "ok")
  /\ UNCHANGED <<store, up, queue, servers, history, bounds>>

\* Mutation: no reply is taken for a yes.
Mutant_ReplyLost(w) ==
  /\ At(w, "transmit")
  /\ Go(w, "mark", "ok")
  /\ adrift' = IF job[w].said = "travelling"
               THEN [adrift EXCEPT ![job[w].id] = @ + 1] ELSE adrift
  /\ UNCHANGED <<store, up, queue, delivered, history, bounds>>

\* The connection breaks or the reply times out.  A copy the server has not
\* taken yet may still reach it from a buffer.
ReplyLost(w) ==
  /\ At(w, "transmit")
  /\ Go(w, "mark", "lost")
  /\ adrift' = IF job[w].said = "travelling"
               THEN [adrift EXCEPT ![job[w].id] = @ + 1] ELSE adrift
  /\ UNCHANGED <<store, up, queue, delivered, history, bounds>>

DriftsIn(i) ==
  /\ adrift[i] > 0
  /\ adrift' = [adrift EXCEPT ![i] = @ - 1]
  /\ delivered' = [delivered EXCEPT ![i] = @ + 1]
  /\ UNCHANGED <<store, process, history, bounds>>

DriftsAway(i) ==
  /\ adrift[i] > 0
  /\ adrift' = [adrift EXCEPT ![i] = @ - 1]
  /\ UNCHANGED <<store, process, delivered, history, bounds>>

\* An UPDATE by id, whatever the state was: no row, no change.
set_state(i, s) == [attempt EXCEPT ![i] = IF @ = "none" THEN @ ELSE s]

\* The three ways a transaction is recorded.
MarkAccepted(w) ==
  /\ At(w, "mark") /\ job[w].said = "ok"
  /\ attempt' = set_state(job[w].id, "accepted")
  /\ Go(w, "file", "")
  /\ UNCHANGED <<unfiled, filed, tries, due, open, up, queue, servers, history, bounds>>

\* Mutation: a lost reply is recorded as a refusal.
Mutant_MarkUncertain(w) ==
  /\ At(w, "mark") /\ job[w].said = "lost"
  /\ attempt' = set_state(job[w].id, "rejected")
  /\ Go(w, "settle", "err")
  /\ UNCHANGED <<unfiled, filed, tries, due, open, up, queue, servers, history, bounds>>

MarkUncertain(w) ==
  /\ At(w, "mark") /\ job[w].said = "lost"
  /\ attempt' = set_state(job[w].id, "uncertain")
  /\ Go(w, "settle", "uncertain")
  /\ UNCHANGED <<unfiled, filed, tries, due, open, up, queue, servers, history, bounds>>

MarkRejected(w) ==
  /\ At(w, "mark") /\ job[w].said = "refused"
  /\ attempt' = set_state(job[w].id, "rejected")
  /\ Go(w, "settle", "err")
  /\ UNCHANGED <<unfiled, filed, tries, due, open, up, queue, servers, history, bounds>>

\* append_to_sent worked, or the server files its own copy.
MarkArchived(w) ==
  /\ At(w, "file")
  /\ attempt' = set_state(job[w].id, "archived")
  /\ Go(w, "settle", "sent")
  /\ UNCHANGED <<unfiled, filed, tries, due, open, up, queue, servers, history, bounds>>

\* append_to_sent failed: noted only on a record that is still "accepted".
MarkArchiveFailed(w) ==
  LET i == job[w].id IN
  /\ At(w, "file")
  /\ unfiled' = [unfiled EXCEPT ![i] = @ \/ attempt[i] = "accepted"]
  /\ Go(w, "settle", "sent")
  /\ UNCHANGED <<attempt, filed, tries, due, open, up, queue, servers, history, bounds>>

\* The record cannot be written: perform_send answers with the error and the
\* record stays as it was.
MarkFails(w) ==
  /\ At(w, "mark") \/ At(w, "file")
  /\ Fault
  /\ Go(w, "settle", "err")
  /\ UNCHANGED <<store, up, queue, servers, history, requests, crashes>>

-----------------------------------------------------------------------------
(* What the answer means for the scheduled row.                            *)

\* Sent: the row is dropped.
SettleSent(w) ==
  LET i == job[w].id IN
  /\ At(w, "settle") /\ job[w].kind = "scheduled" /\ job[w].said = "sent"
  /\ filed' = filed \ {i}
  /\ due' = due \ {i}
  /\ job' = [job EXCEPT ![w] = Idle]
  /\ UNCHANGED <<attempt, unfiled, tries, open, up, queue, servers, history, bounds>>

\* Uncertain: give_up_on_send, the row waits for a person.
SettleUncertain(w) ==
  LET i == job[w].id IN
  /\ At(w, "settle") /\ job[w].kind = "scheduled" /\ job[w].said = "uncertain"
  /\ tries' = IF i \in filed THEN [tries EXCEPT ![i] = MAX_SEND_ATTEMPTS] ELSE tries
  /\ job' = [job EXCEPT ![w] = Idle]
  /\ UNCHANGED <<attempt, unfiled, filed, due, open, up, queue, servers, history, bounds>>

\* Mutation: the refusal is not counted.
Mutant_SettleFailure(w) ==
  /\ At(w, "settle") /\ job[w].kind = "scheduled" /\ job[w].said = "err"
  /\ due' = due \ {job[w].id}
  /\ job' = [job EXCEPT ![w] = Idle]
  /\ UNCHANGED <<attempt, unfiled, filed, tries, open, up, queue, servers, history, bounds>>

\* An error: record_send_failure, one try more and a wait before the next.
SettleFailure(w) ==
  LET i == job[w].id IN
  /\ At(w, "settle") /\ job[w].kind = "scheduled" /\ job[w].said = "err"
  /\ tries' = IF i \in filed THEN [tries EXCEPT ![i] = @ + 1] ELSE tries
  /\ due' = due \ {i}
  /\ job' = [job EXCEPT ![w] = Idle]
  /\ UNCHANGED <<attempt, unfiled, filed, open, up, queue, servers, history, bounds>>

\* Another worker is sending this very message, or there is no row to settle.
SettleNothing(w) ==
  /\ At(w, "settle") /\ (job[w].kind = "now" \/ job[w].said = "in_flight")
  /\ job' = [job EXCEPT ![w] = Idle]
  /\ UNCHANGED <<store, up, queue, servers, history, bounds>>

\* The row cannot be written: the watch goes on, the handler answers an error.
SettleFails(w) ==
  /\ At(w, "settle") /\ job[w].kind = "scheduled" /\ job[w].said # "in_flight"
  /\ Fault
  /\ job' = [job EXCEPT ![w] = Idle]
  /\ UNCHANGED <<store, up, queue, servers, history, requests, crashes>>

-----------------------------------------------------------------------------
(* Death and startup.                                                      *)

Travelling(i) ==
  {w \in Workers : job[w].pc = "transmit" /\ job[w].said = "travelling" /\ job[w].id = i}

\* The process dies; what was on the wire may still arrive.
Crash ==
  /\ up /\ crashes < MaxCrashes
  /\ crashes' = crashes + 1
  /\ up' = FALSE
  /\ queue' = {}
  /\ job' = [w \in Workers |-> Idle]
  /\ adrift' = [i \in Ids |-> adrift[i] + Cardinality(Travelling(i))]
  /\ UNCHANGED <<store, delivered, history, requests, faults>>

\* prune_settled drops the settled records P, all of them thirty days old.
prune_settled(P) ==
  /\ \A i \in P : prunable(attempt[i], unfiled[i])
  /\ forgotten' = [i \in Ids |->
       IF i \in P /\ may_have_gone(attempt[i]) THEN forgotten[i] + 1 ELSE forgotten[i]]
  /\ unfiled' = [i \in Ids |-> unfiled[i] /\ i \notin P]

\* Startup, before any send can begin.
Startup ==
  /\ ~up
  /\ \E P \in SUBSET Ids :
       /\ prune_settled(P)
       /\ attempt' = [i \in Ids |->
            IF i \in P THEN "none" ELSE mark_interrupted_uncertain(attempt[i])]
  /\ up' = TRUE
  /\ UNCHANGED <<filed, tries, due, open, queue, job, servers, consent, promised, bounds>>

\* The interrupted sends could not be marked: startup logs it and goes on.
StartupUnmarked ==
  /\ ~up
  /\ Fault
  /\ \E P \in SUBSET Ids :
       /\ prune_settled(P)
       /\ attempt' = [i \in Ids |-> IF i \in P THEN "none" ELSE attempt[i]]
  /\ up' = TRUE
  /\ UNCHANGED <<filed, tries, due, open, queue, job, servers, consent, promised, requests, crashes>>

-----------------------------------------------------------------------------
Person ==
  \/ \E i \in Ids :
       \/ ScheduleSend(i)
       \/ CancelScheduledSend(i)
       \/ ResolveOutgoing(i)
       \/ RemoveAccount(i)
       \/ AddAccount(i)
  \/ \E c \in Callers, i \in Ids, resend \in BOOLEAN :
       \/ SendScheduledNow(c, i, resend)
       \/ Send(c, i, resend)

WatchStep ==
  \/ WatchTick
  \/ \E i \in Ids : WatchTake(i) \/ WatchUnreadable(i)

\* The worker's own steps when nothing fails under it.
WorkerStep(w) ==
  \/ Precheck(w) \/ BeginAttempt(w) \/ AlreadyAttempted(w) \/ GuardRefuses(w)
  \/ Connect(w) \/ Refuse(w) \/ ServerTakes(w) \/ ReplyArrives(w) \/ ReplyLost(w)
  \/ MarkAccepted(w) \/ MarkUncertain(w) \/ MarkRejected(w)
  \/ MarkArchived(w) \/ MarkArchiveFailed(w)
  \/ SettleSent(w) \/ SettleUncertain(w) \/ SettleFailure(w) \/ SettleNothing(w)

WorkerFault(w) ==
  PrecheckFails(w) \/ BeginFails(w) \/ MarkFails(w) \/ SettleFails(w)

World ==
  \/ \E i \in Ids : HourComes(i) \/ DriftsIn(i) \/ DriftsAway(i)
  \/ Crash

Next ==
  \/ Person
  \/ WatchStep
  \/ \E w \in Workers : WorkerStep(w) \/ WorkerFault(w)
  \/ World
  \/ Startup
  \/ StartupUnmarked

Spec == Init /\ [][Next]_vars

(***************************************************************************)
(* The tasks of a tokio runtime are polled until they finish and every     *)
(* wait on the network has a timeout (smtp.rs SMTP_COMMAND_TIMEOUT and     *)
(* SMTP_DATA_TIMEOUT), so a worker that can take a step takes one; the     *)
(* watch's ticker fires for as long as the process runs; clocks advance;   *)
(* and whoever closed the program opens it again.  Nothing is assumed of   *)
(* the person's requests, of the servers' answers, or of faults.           *)
(***************************************************************************)
Fairness ==
  /\ \A w \in Workers : WF_vars(WorkerStep(w))
  /\ WF_vars(WatchStep)
  /\ \A i \in Ids : WF_vars(HourComes(i))
  /\ WF_vars(Startup)

FairSpec == Spec /\ Fairness

-----------------------------------------------------------------------------
(* Properties.                                                             *)

\* The type invariant of the two tables, the workers and the counters.
TypeOK ==
  /\ attempt \in [Ids -> AttemptState]
  /\ unfiled \in [Ids -> BOOLEAN]
  /\ filed \subseteq Ids /\ due \subseteq filed /\ open \subseteq Ids
  /\ tries \in [Ids -> Nat]
  /\ up \in BOOLEAN
  /\ queue \subseteq Ids
  /\ job \in [Workers -> Job]
  /\ \A w \in Workers : job[w].pc # "idle" => job[w].id \in Ids
  /\ adrift \in [Ids -> Nat] /\ delivered \in [Ids -> Nat]
  /\ consent \in [Ids -> Nat] /\ forgotten \in [Ids -> Nat]
  /\ promised \subseteq Ids
  /\ requests \in Nat /\ crashes \in Nat /\ faults \in Nat

\* No message reaches a server more than once unless a person decided each
\* repeat (a resend or a resolve), or startup forgot the record that would
\* have stopped it (prune_settled): whatever the watch, "send now", a held
\* reply, crashes, lost replies and failed writes do between them.
NoUnaskedRepeat ==
  \A i \in Ids : delivered[i] <= 1 + consent[i] + forgotten[i]

\* What a refusal promises ("Safe to try again", mark_rejected): as long as no
\* person stepped in and nothing was forgotten, a message whose record is
\* missing or says "rejected" is with no server and on no wire.
RefusedNeverWent ==
  \A i \in Ids :
    attempt[i] \in {"none", "rejected"} /\ consent[i] = 0 /\ forgotten[i] = 0
      => delivered[i] = 0 /\ adrift[i] = 0 /\ Travelling(i) = {}

\* "accepted" and "archived" are never claimed of a message no server took.
AcceptedReallyWent ==
  \A i \in Ids : attempt[i] \in {"accepted", "archived"} => delivered[i] > 0

\* The row of a scheduled message outlives every failure: while the person
\* has not called it off, the message is in the list or has been sent.
ScheduledNotLost ==
  \A i \in promised : i \in filed \/ delivered[i] > 0

\* A record that says "sending" while the process runs belongs to a worker
\* that is still at it (the comment in scheduled_send_precheck), as long as the
\* store takes every write: nobody waits for an outcome that no one will write.
\* A mark that fails leaves such a record behind until the next start.
SendingHasOwner ==
  up /\ faults = 0 => \A i \in Ids : attempt[i] = "sending" =>
          \E w \in Workers : job[w].id = i /\ job[w].pc \in {"connect", "transmit", "mark"}

\* Doubt is settled by a person (mark_uncertain's comment): as long as no one
\* has asked for a resend, "uncertain" does not turn into an outcome, although
\* every mark is an unconditional update.  A resend of a message that is in
\* flight gives that up: the two sends then overwrite each other's outcome.
OnlyAPersonSettlesDoubt ==
  [][\A i \in Ids : attempt[i] = "uncertain" /\ consent[i] = 0 =>
       attempt'[i] \in {"uncertain", "resolved"}]_vars

\* Every row the watch may still try ends: the message goes, or the watch
\* gives up and the row waits for a person.
DueIsSettled ==
  \A i \in Ids :
    (i \in filed /\ i \in open /\ tries[i] < MAX_SEND_ATTEMPTS)
      ~> (i \notin filed \/ i \notin open \/ tries[i] >= MAX_SEND_ATTEMPTS)

\* Every send that was written down as going gets an outcome.
SendingIsSettled ==
  \A i \in Ids : attempt[i] = "sending" ~> attempt[i] # "sending"

(***************************************************************************)
(* The inductive invariant behind the properties.                          *)
(***************************************************************************)

\* The worker has a resend it has not begun, holds a copy that may still reach
\* a server, or knows of a refusal it has not written down: each may yet turn
\* into a delivery, or into a record that allows one.
Owes(j) ==
  \/ j.pc = "begin" /\ j.resend
  \/ j.pc = "connect"
  \/ j.pc = "transmit" /\ j.said = "travelling"
  \/ j.pc = "mark" /\ j.said = "refused"

Owing(i) == {w \in Workers : job[w].id = i /\ Owes(job[w])}

\* The deliveries of a message, those still possible, and the one a record
\* that does not stop a send would allow, are covered by its permits.  This
\* is what the single lock around begin_attempt and its check is for.
Balance ==
  \A i \in Ids :
    delivered[i] + adrift[i] + Cardinality(Owing(i))
        + (IF may_have_gone(attempt[i]) THEN 0 ELSE 1)
      <= 1 + consent[i] + forgotten[i]

\* Only a send without the resend flag asks the record first (send_scheduled).
ResendSkipsPrecheck ==
  \A w \in Workers : job[w].pc = "precheck" => ~job[w].resend

\* The worker has heard that a server took the message.
Heard(j) ==
  \/ j.pc = "file"
  \/ j.pc # "idle" /\ j.said \in {"taken", "ok", "sent"}

\* A worker that has heard "yes" is right: a server holds the message.
HeardYes ==
  \A w \in Workers : Heard(job[w]) => delivered[job[w].id] > 0

\* The inductive invariant: the balance, and what workers, records and rows say.
Inductive ==
  TypeOK /\ Balance /\ ResendSkipsPrecheck /\ HeardYes /\ AcceptedReallyWent /\ ScheduledNotLost

\* The worker has the message in hand: it has begun, and not yet written down
\* how that ended.
InHand(j) == j.pc \in {"connect", "transmit", "mark", "file"}

\* As long as no one decided anything about a message, at most one worker has
\* it in hand, and its record is that worker's: nobody else's mark can reach
\* it.  A resend counts as decided from the moment it is asked for, and no
\* worker outlives the process.
SoleWorker ==
  /\ \A w \in Workers : InHand(job[w]) /\ consent[job[w].id] = 0 =>
       /\ attempt[job[w].id] = (IF job[w].pc = "file" THEN "accepted" ELSE "sending")
       /\ \A v \in Workers \ {w} : job[v].id = job[w].id => ~InHand(job[v])
  /\ \A w \in Workers : job[w].pc # "idle" /\ job[w].resend => consent[job[w].id] > 0
  /\ ~up => \A w \in Workers : job[w] = Idle

-----------------------------------------------------------------------------
\* The sender implements the outbox: deciding about a message, and forgetting
\* a record that guarded one, each permit one more delivery.
OutboxView == INSTANCE Outbox WITH
  listed <- filed,
  taken <- delivered,
  permits <- [i \in Ids |-> 1 + consent[i] + forgotten[i]]

\* Every step of the store, the workers and the servers is a step of the
\* outbox or invisible to it.
ImplementsOutbox == OutboxView!Spec

=============================================================================
