------------------------------ MODULE Mailings ------------------------------
(***************************************************************************)
(* A mailing: one message to each of many recipients (merge/mod.rs, and    *)
(* spawn_merge in main.rs).                                                *)
(*                                                                         *)
(* The mailing and its messages are rows of the store.  One task, the      *)
(* runner, claims the next pending message, sends it with perform_send     *)
(* under its own attempt record, settles it from the answer, waits and     *)
(* claims again, until there is nothing to claim.  merge_running keeps two *)
(* runners of a mailing from running at once.  Requests to stop and to     *)
(* carry on arrive at any moment, and so does the end of the process.      *)
(*                                                                         *)
(* Mailings do not share state, so one is enough.  What its messages say   *)
(* and the checks of its preview are left out, and so is a person sending  *)
(* one of its messages by hand from the list of attempts, which            *)
(* OutgoingSends has.                                                      *)
(***************************************************************************)
EXTENDS Naturals, FiniteSets, Attempts

CONSTANTS
  Recipients,   \* how many messages the mailing has
  MaxRequests,  \* bound: requests to stop or to carry on
  MaxCrashes,   \* bound: ends of the process
  MaxFaults     \* bound: store operations that fail

ASSUME RecipientsAssumption == Recipients \in Nat \ {0}
ASSUME MailingBounds == MaxRequests \in Nat /\ MaxCrashes \in Nat /\ MaxFaults \in Nat

Items == 1 .. Recipients

VARIABLES
  \* The store
  batch,      \* state of the mailing, "none" before it is created
  item,       \* state of each message
  attempt,    \* state of each message's attempt record
  unfiled,    \* messages whose record has an archive_error
  \* The process
  up,         \* it runs, past its startup
  spawning,   \* handlers that have written the mailing and not called spawn_merge
  runner,     \* the task of the mailing
  \* The mail server
  adrift,     \* messages nobody follows that the server may still take
  delivered,  \* how often it took each message
  \* History and bounds
  forgotten,  \* times a record of a message that may have gone was pruned
  requests, crashes, faults

store   == <<batch, item, attempt, unfiled>>
process == <<up, spawning, runner>>
server  == <<adrift, delivered>>
bounds  == <<requests, crashes, faults>>
vars    == <<store, process, server, forgotten, bounds>>

BatchState == {"none", "sending", "paused", "cancelled", "done", "deleted"}
ItemState == {"pending", "sending", "accepted", "rejected", "uncertain", "cancelled", "deleted"}

\* "leaving" is the runner out of its loop and still in merge_running.
Runner ==
  [pc: {"none", "claim", "send", "wire", "mark", "file", "settle", "sleep", "leaving"},
   at: Items \cup {0},
   said: {"nothing", "travelling", "taken",
          "ok", "refused", "deferred", "lost",
          "accepted", "rejected", "uncertain"}]

NoRunner == [pc |-> "none", at |-> 0, said |-> "nothing"]

Init ==
  /\ batch = "none"
  /\ item = [k \in Items |-> "pending"]
  /\ attempt = [k \in Items |-> "none"]
  /\ unfiled = {}
  /\ up = TRUE
  /\ spawning = 0
  /\ runner = NoRunner
  /\ adrift = {}
  /\ delivered = [k \in Items |-> 0]
  /\ forgotten = [k \in Items |-> 0]
  /\ requests = 0 /\ crashes = 0 /\ faults = 0

At(pc) == up /\ runner.pc = pc
Go(pc, said) == runner' = [pc |-> pc, at |-> runner.at, said |-> said]
Fault == faults < MaxFaults /\ faults' = faults + 1

-----------------------------------------------------------------------------
(* Requests.                                                               *)

\* "merge.start": the mailing and its messages are stored in a transaction.
MergeStart ==
  /\ up /\ batch = "none"
  /\ batch' = "sending"
  /\ spawning' = spawning + 1
  /\ UNCHANGED <<item, attempt, unfiled, up, runner, server, forgotten, bounds>>

Asked == up /\ batch \notin {"none", "deleted"} /\ requests < MaxRequests /\ requests' = requests + 1

\* "merge.cancel": whatever the mailing was doing.
MergeCancel ==
  /\ Asked
  /\ batch' = "cancelled"
  /\ item' = [k \in Items |-> IF item[k] = "pending" THEN "cancelled" ELSE item[k]]
  /\ UNCHANGED <<attempt, unfiled, process, server, forgotten, crashes, faults>>

\* "merge.resume", its first half: the mailing is sending again.
MergeResume(retry_rejected) ==
  /\ Asked
  /\ batch \in {"paused", "done"}
  /\ batch' = "sending"
  /\ item' = [k \in Items |->
       IF retry_rejected /\ item[k] = "rejected" THEN "pending" ELSE item[k]]
  /\ spawning' = spawning + 1
  /\ UNCHANGED <<attempt, unfiled, up, runner, server, forgotten, crashes, faults>>

\* A request whose second statement fails: each of its statements is written on
\* its own, and after an error there is no spawn_merge.
RequestFails ==
  /\ Asked
  /\ Fault
  /\ \/ batch' = "cancelled"
     \/ batch \in {"paused", "done"} /\ batch' = "sending"
  /\ UNCHANGED <<item, attempt, unfiled, process, server, forgotten, crashes>>

\* spawn_merge: a new runner, unless merge_running has one.
SpawnMerge ==
  /\ up /\ spawning > 0
  /\ spawning' = spawning - 1
  /\ runner' = IF runner.pc = "none" THEN [NoRunner EXCEPT !.pc = "claim"] ELSE runner
  /\ UNCHANGED <<store, up, server, forgotten, bounds>>

\* "account.remove": the mailing and its messages go with the account.
RemoveAccount ==
  /\ Asked
  /\ batch' = "deleted"
  /\ item' = [k \in Items |-> "deleted"]
  /\ UNCHANGED <<attempt, unfiled, process, server, forgotten, crashes, faults>>

-----------------------------------------------------------------------------
(* The runner.                                                             *)

Pending == {k \in Items : item[k] = "pending"}
First(S) == CHOOSE k \in S : \A l \in S : k <= l

\* claim_next marks the first pending message, while the mailing is sending.
ClaimNext ==
  /\ At("claim") /\ batch = "sending" /\ Pending # {}
  /\ item' = [item EXCEPT ![First(Pending)] = "sending"]
  /\ runner' = [pc |-> "send", at |-> First(Pending), said |-> "nothing"]
  /\ UNCHANGED <<batch, attempt, unfiled, up, spawning, server, forgotten, bounds>>

\* Nothing left: the mailing is done.
ClaimDone ==
  /\ At("claim") /\ batch = "sending" /\ Pending = {}
  /\ batch' = "done"
  /\ runner' = [NoRunner EXCEPT !.pc = "leaving"]
  /\ UNCHANGED <<item, attempt, unfiled, up, spawning, server, forgotten, bounds>>

\* Paused, cancelled, done or deleted: nothing to claim.
ClaimNothing ==
  /\ At("claim") /\ batch # "sending"
  /\ runner' = [NoRunner EXCEPT !.pc = "leaving"]
  /\ UNCHANGED <<store, up, spawning, server, forgotten, bounds>>

\* The store fails under claim_next, or under the read of the mailing after it:
\* the loop ends as if there were nothing to claim.
ClaimFails ==
  /\ At("claim")
  /\ Fault
  /\ \/ UNCHANGED item
     \/ batch = "sending" /\ Pending # {} /\ item' = [item EXCEPT ![First(Pending)] = "sending"]
  /\ runner' = [NoRunner EXCEPT !.pc = "leaving"]
  /\ UNCHANGED <<batch, attempt, unfiled, up, spawning, server, forgotten, requests, crashes>>

\* The runner leaves merge_running.
Leave ==
  /\ At("leaving")
  /\ runner' = NoRunner
  /\ UNCHANGED <<store, up, spawning, server, forgotten, bounds>>

(* perform_send, as OutgoingSends has it, for the runner's message.        *)

Begin ==
  /\ At("send") /\ ~may_have_gone(attempt[runner.at])
  /\ attempt' = [attempt EXCEPT ![runner.at] = "sending"]
  /\ unfiled' = unfiled \ {runner.at}
  /\ Go("wire", "travelling")
  /\ UNCHANGED <<batch, item, up, spawning, server, forgotten, bounds>>

\* Mutation: one in flight counts as sent.
Mutant_merge_outcome(s) == IF scheduled_outcome_of(s) = "uncertain" THEN "uncertain" ELSE "accepted"

\* What merge_outcome makes of "already attempted": one in flight is in doubt.
merge_outcome(s) == IF scheduled_outcome_of(s) = "sent" THEN "accepted" ELSE "uncertain"

AlreadyAttempted ==
  /\ At("send") /\ may_have_gone(attempt[runner.at])
  /\ Go("settle", merge_outcome(attempt[runner.at]))
  /\ UNCHANGED <<store, up, spawning, server, forgotten, bounds>>

\* guard_command refuses, before anything is written.
GuardRefuses ==
  /\ At("send")
  /\ Go("settle", "rejected")
  /\ UNCHANGED <<store, up, spawning, server, forgotten, bounds>>

\* Refused for good or for now; is_deferral reads which from the error.
Refuse ==
  /\ At("wire") /\ runner.said = "travelling"
  /\ Go("mark", "refused") \/ Go("mark", "deferred")
  /\ UNCHANGED <<store, up, spawning, server, forgotten, bounds>>

ServerTakes ==
  /\ At("wire") /\ runner.said = "travelling"
  /\ Go("wire", "taken")
  /\ delivered' = [delivered EXCEPT ![runner.at] = @ + 1]
  /\ UNCHANGED <<store, up, spawning, adrift, forgotten, bounds>>

ReplyArrives ==
  /\ At("wire") /\ runner.said = "taken"
  /\ Go("mark", "ok")
  /\ UNCHANGED <<store, up, spawning, server, forgotten, bounds>>

ReplyLost ==
  /\ At("wire")
  /\ Go("mark", "lost")
  /\ adrift' = IF runner.said = "travelling" THEN adrift \cup {runner.at} ELSE adrift
  /\ UNCHANGED <<store, up, spawning, delivered, forgotten, bounds>>

DriftsIn(k) ==
  /\ k \in adrift
  /\ adrift' = adrift \ {k}
  /\ delivered' = [delivered EXCEPT ![k] = @ + 1]
  /\ UNCHANGED <<store, process, forgotten, bounds>>

MarkAccepted ==
  /\ At("mark") /\ runner.said = "ok"
  /\ attempt' = [attempt EXCEPT ![runner.at] = "accepted"]
  /\ Go("file", "nothing")
  /\ UNCHANGED <<batch, item, unfiled, up, spawning, server, forgotten, bounds>>

MarkUncertain ==
  /\ At("mark") /\ runner.said = "lost"
  /\ attempt' = [attempt EXCEPT ![runner.at] = "uncertain"]
  /\ Go("settle", "uncertain")
  /\ UNCHANGED <<batch, item, unfiled, up, spawning, server, forgotten, bounds>>

MarkRejected ==
  /\ At("mark") /\ runner.said \in {"refused", "deferred"}
  /\ attempt' = [attempt EXCEPT ![runner.at] = "rejected"]
  /\ Go("settle", IF runner.said = "deferred" THEN "deferred" ELSE "rejected")
  /\ UNCHANGED <<batch, item, unfiled, up, spawning, server, forgotten, bounds>>

\* The copy in Sent, filed or not.
File ==
  /\ At("file")
  /\ \/ attempt' = [attempt EXCEPT ![runner.at] = "archived"] /\ UNCHANGED unfiled
     \/ unfiled' = unfiled \cup {runner.at} /\ UNCHANGED attempt
  /\ Go("settle", "accepted")
  /\ UNCHANGED <<batch, item, up, spawning, server, forgotten, bounds>>

\* The store fails inside perform_send: an error like any other.
SendFails ==
  /\ At("send") \/ At("mark") \/ At("file")
  /\ Fault
  /\ Go("settle", "rejected")
  /\ UNCHANGED <<store, up, spawning, server, forgotten, requests, crashes>>

\* Mutation: a deferral does not pause the mailing.
Mutant_Settle ==
  /\ At("settle")
  /\ item' = [item EXCEPT ![runner.at] =
       IF @ = "deleted" THEN @ ELSE IF runner.said = "deferred" THEN "pending" ELSE runner.said]
  /\ Go("sleep", "nothing")
  /\ UNCHANGED <<batch, attempt, unfiled, up, spawning, server, forgotten, bounds>>

\* settle: the message gets its outcome; a deferral also pauses the mailing.
Settle ==
  /\ At("settle")
  /\ item' = [item EXCEPT ![runner.at] =
       IF @ = "deleted" THEN @ ELSE IF runner.said = "deferred" THEN "pending" ELSE runner.said]
  /\ batch' = IF runner.said = "deferred" /\ batch = "sending" THEN "paused" ELSE batch
  /\ Go("sleep", "nothing")
  /\ UNCHANGED <<attempt, unfiled, up, spawning, server, forgotten, bounds>>

\* The outcome could not be written, or the pause after a deferral, which is
\* only logged.
SettleFails ==
  /\ At("settle")
  /\ Fault
  /\ \/ UNCHANGED item
     \/ runner.said = "deferred" /\ item[runner.at] # "deleted"
        /\ item' = [item EXCEPT ![runner.at] = "pending"]
  /\ Go("sleep", "nothing")
  /\ UNCHANGED <<batch, attempt, unfiled, up, spawning, server, forgotten, requests, crashes>>

Wake ==
  /\ At("sleep")
  /\ runner' = [NoRunner EXCEPT !.pc = "claim"]
  /\ UNCHANGED <<store, up, spawning, server, forgotten, bounds>>

-----------------------------------------------------------------------------
(* The end of the process and the next start.                              *)

Crash ==
  /\ up /\ crashes < MaxCrashes
  /\ crashes' = crashes + 1
  /\ up' = FALSE
  /\ spawning' = 0
  /\ runner' = NoRunner
  /\ adrift' = IF runner.pc = "wire" /\ runner.said = "travelling"
               THEN adrift \cup {runner.at} ELSE adrift
  /\ UNCHANGED <<store, delivered, forgotten, requests, faults>>

\* Mutation: a message interrupted in doubt waits its turn again.
Mutant_recovered(s) == IF s \in {"accepted", "archived"} THEN "accepted" ELSE "pending"

\* What recover makes of a message left "sending", from its attempt record.
recovered(s) ==
  IF s \in {"accepted", "archived"} THEN "accepted"
  ELSE IF s = "rejected" THEN "rejected"
  ELSE IF s = "none" THEN "pending"
  ELSE "uncertain"

\* mark_interrupted_uncertain, which may fail, then prune_settled of the
\* records P, all of them thirty days old.
Reconcile(P, marked) ==
  /\ \A k \in P : prunable(attempt[k], k \in unfiled)
  /\ attempt' = [k \in Items |->
       IF k \in P THEN "none"
       ELSE IF marked THEN mark_interrupted_uncertain(attempt[k]) ELSE attempt[k]]
  /\ unfiled' = unfiled \ P
  /\ forgotten' = [k \in Items |->
       IF k \in P /\ may_have_gone(attempt[k]) THEN forgotten[k] + 1 ELSE forgotten[k]]

\* recover: messages on their way are settled from their records as they are
\* by now, and a mailing that was sending is paused.
Startup ==
  /\ ~up
  /\ \E P \in SUBSET Items : Reconcile(P, TRUE)
  /\ item' = [k \in Items |-> IF item[k] = "sending" THEN recovered(attempt'[k]) ELSE item[k]]
  /\ batch' = IF batch = "sending" THEN "paused" ELSE batch
  /\ up' = TRUE
  /\ UNCHANGED <<spawning, runner, server, bounds>>

\* Startup with a failing store: what could not be marked stays "sending", and
\* recover stops after the messages R; both are only logged.
StartupFails ==
  /\ ~up
  /\ Fault
  /\ \E P \in SUBSET Items, marked \in BOOLEAN : Reconcile(P, marked)
  /\ \/ \E R \in SUBSET {k \in Items : item[k] = "sending"} :
          /\ item' = [k \in Items |-> IF k \in R THEN recovered(attempt'[k]) ELSE item[k]]
          /\ UNCHANGED batch
     \/ /\ item' = [k \in Items |-> IF item[k] = "sending" THEN recovered(attempt'[k]) ELSE item[k]]
        /\ batch' = IF batch = "sending" THEN "paused" ELSE batch
  /\ up' = TRUE
  /\ UNCHANGED <<spawning, runner, server, requests, crashes>>

-----------------------------------------------------------------------------
Person ==
  \/ MergeStart \/ MergeCancel \/ RemoveAccount
  \/ \E retry_rejected \in BOOLEAN : MergeResume(retry_rejected)

RunnerStep ==
  \/ ClaimNext \/ ClaimDone \/ ClaimNothing \/ Leave
  \/ Begin \/ AlreadyAttempted \/ GuardRefuses
  \/ Refuse \/ ServerTakes \/ ReplyArrives \/ ReplyLost
  \/ MarkAccepted \/ MarkUncertain \/ MarkRejected \/ File
  \/ Settle \/ Wake

StoreFails == RequestFails \/ ClaimFails \/ SendFails \/ SettleFails \/ StartupFails

Next ==
  \/ Person
  \/ SpawnMerge
  \/ RunnerStep
  \/ StoreFails
  \/ \E k \in Items : DriftsIn(k)
  \/ Crash
  \/ Startup

Spec == Init /\ [][Next]_vars

(***************************************************************************)
(* The runner and the handlers are tasks of the tokio runtime, whose waits *)
(* all have an end; and the program is opened again.                       *)
(***************************************************************************)
FairSpec == Spec /\ WF_vars(RunnerStep) /\ WF_vars(SpawnMerge) /\ WF_vars(Startup)

-----------------------------------------------------------------------------
(* Properties.                                                             *)

\* The type invariant of the mailing, its runner and the counters.
TypeOK ==
  /\ batch \in BatchState
  /\ item \in [Items -> ItemState]
  /\ attempt \in [Items -> AttemptState]
  /\ unfiled \subseteq Items
  /\ up \in BOOLEAN
  /\ spawning \in Nat
  /\ runner \in Runner
  /\ runner.pc \in {"send", "wire", "mark", "file", "settle"} => runner.at \in Items
  /\ adrift \subseteq Items
  /\ delivered \in [Items -> Nat]
  /\ forgotten \in [Items -> Nat]
  /\ requests \in Nat /\ crashes \in Nat /\ faults \in Nat

\* Nobody gets a mailing's message twice, whatever is stopped, carried on,
\* retried, interrupted or not written, unless startup forgot the record of it.
NobodyGetsTwo ==
  \A k \in Items : delivered[k] <= 1 + forgotten[k]

\* A message listed as accepted is with the server, whichever way it was
\* settled: from the answer, from an earlier attempt or at startup.
AcceptedWent ==
  \A k \in Items : item[k] = "accepted" => delivered[k] > 0

\* With a working store, a message that is still to send, refused or called
\* off has not gone and is on no wire, as long as no record was forgotten.
NotGone ==
  \A k \in Items :
    item[k] \in {"pending", "rejected", "cancelled"} /\ forgotten[k] = 0 /\ faults = 0
      => delivered[k] = 0 /\ k \notin adrift
         /\ ~(runner.at = k /\ runner.pc = "wire")

\* With a working store, a mailing with a runner in its loop comes to an end or
\* a pause: a server that keeps asking to wait is not asked over and over, and
\* a crash ends in the pause that recover writes.
MailingEnds ==
  (batch = "sending" /\ runner.pc \notin {"none", "leaving"})
    ~> (batch # "sending" \/ faults > 0)

=============================================================================
