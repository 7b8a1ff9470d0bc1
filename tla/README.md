# Oreneta: models, checks and proofs

Oreneta is a mail client. A Rust core (`meron-core`) holds the store, talks to
the mail servers and runs as a child process of a Go desktop (the files at the
root of the repository), which carries the calls of a TypeScript interface.
The mobile applications link the same core.

This directory models the parts of it where what is at stake cannot be undone:
mail that goes twice or not at all, a credential that is lost, a profile that is
half of one and half of another, an edit that another one silently replaces, a message
removed from its server before its copy is good. For each the question is the same: the
program does several things that are not one transaction (write a record, talk to a
server, write again), something ends it or fails in between, and another task or
a person acts meanwhile. What can then be wrong?

## 1. The system

| Part | State it keeps | Operations | What is hard in it | Here |
|---|---|---|---|---|
| Outgoing sends (`store/outgoing.rs`, the send path of `main.rs`, `store/mod.rs`, `smtp.rs`) | one attempt record per message, the rows of `scheduled_sends`, the watch's list, sends in flight | `send`, `mail.scheduleSend`, `mail.sendScheduledNow`, `mail.cancelScheduledSend`, `mail.resolveOutgoing`, the deferred watch, startup | a crash between sending and writing it down, lost replies, two workers on one message, a failed write, a stale list, pruning | `Attempts`, `OutgoingSends`, `Outbox` |
| Mailings (`merge/mod.rs`, `spawn_merge`) | a mailing, its messages, `merge_running` | create, cancel, resume, claim, settle, recover | requests racing the runner, deferrals, crashes before a message is settled | `Mailings` |
| Secrets migration (`secrets_migration.rs`) | two keychain entries per secret, in-memory knowledge of the old one | load, store, delete, the database key, the start-up sweep | every operation is several keychain calls; each may fail, be the last one, or find the keychain replaced by another | `SecretsMigration` |
| Profile restore (`restore.go`) | the live, previous and staged folders, a journal | activate, go back, keep, recover at the next start | a crash between any two moves, moves that become copies, failing file operations | `ProfileRestore` |
| Sidecar transport (`sidecar.go`, `withCoreStopped` of `restore.go`) | the core's process and its two goroutines, calls waiting for an answer, one lock | start, stop, restart, call, read loop, the restore that stops and starts | a late answer after a timeout, an exit racing a restart, a call blocked with the lock held | `Sidecar` |
| Task sync (`task_sync/`, `store/task_lists.rs`) | tasks with pending changes, the version of the server they are based on, conflicts | edit, complete, delete, push, reconcile, settle a conflict | edits during a send, lost answers, other clients, settling outside the sync lock; a row and its mark are two statements | `TaskSync` |
| Mail engine (`engine.rs`, `imap.rs`, the sync tasks of `main.rs`) | rows of a folder, its position, identities observed; sessions, credentials, IDLE watchers | sync, find arrivals, run rules, mark read, delete | two tasks on one folder, each speaking to the server between its reads and writes of the store; other clients; a rebuilt mailbox | `MailSync`, in part |
| Credential backends (`secrets.rs`, `secrets_portal.rs`) | the keychain in use, the local keyring's file, Windows chunk generations | read, write, delete, the fall to the local keyring | on Linux the keychain changes under an operation; partial writes and deletes of a chunked entry | `SecretsMigration`, in part |
| Automatic archiving (`auto_archive/mod.rs`, `archive.rs`, moves and removals of `imap.rs`) | a policy with its confirmation, a journal of messages, the local archive's folder | preview, save, run: find, move, or copy, compare and remove | a run cut short or failing at any step; uids that come to name something else; other clients | `AutoArchive`, in part |
| Folder moves (`folder_move.rs`) | a folder's name in many tables | rename | the server's rename and the tables' are not one step | planned |
| Calendars, address books, Graph, chat, rules, spam, receipts, reminders, backups, updates, notifications, interfaces | | | mostly protocol encoding, text, and calls to the desktop | not modelled |

How they interact. The desktop sends requests to the core over its standard
input; the core handles each in a task of its own, so two requests run at once.
The store is one SQLite connection behind a mutex: each access to it is a
critical section, and a handler that talks to a server gives the lock up
meanwhile. The deferred watch is a task of the core that ticks for as long as it
runs. A mailing's runner and the handlers of requests call the same
`perform_send`, so the attempt record is what they share. The secrets migration
is called wherever a credential is read or written, under a lock per entry. The
restore runs in the desktop with the core stopped; `Sidecar` models the stopping
and `ProfileRestore` what happens meanwhile. A sync of mail or of tasks reads the
store, gives its lock up while it speaks to the server, and writes.

`PROJECT.json` lists every component, and under `hazards` what in this code is
hard to test, each at its line, with the properties that are about it.

## 2. The modules

### Attempts

The attempt record as data: its states and the questions asked of them
(`may_have_gone`, `scheduled_send_precheck`, `scheduled_outcome_of`,
`prunable`...). The sender and the mailings use the same operators, as they use
the same functions in the code.

### OutgoingSends

State: the two tables (`attempt`, `unfiled`; `filed`, `tries`, `due`), the
configured accounts (`open`), the process (`up`, the watch's list `queue`, and
for each worker the step it is at, `job`), the servers (`delivered`, and
`adrift` for copies nobody follows any more), and the history that properties
need (`consent`, `forgotten`, `promised`).

Each access to the store is one action, since it is one critical section; each
answer of a server is one; and between two of them any other worker, the person
or a crash may act. A worker goes through `send_scheduled` and `perform_send`:

    precheck -> begin -> connect -> transmit -> mark -> file -> settle

with the early returns of the code: `AlreadyAttempted` (the record may have
gone), `GuardRefuses` (the checks before the record is written), `Refuse` (an
error before the end of DATA), `ReplyLost` (no answer after it). `BeginFails`,
`MarkFails`, `SettleFails`, `PrecheckFails` and `StartupUnmarked` are the paths
of a store operation that fails. A message on the wire when the process dies, or
whose reply is lost, is `adrift`: a server may take it later or never.

A message is an id: for a scheduled message the id of its row. `HourComes`
stands for the hour and the backoff together. `prune_settled` may drop any
settled record at a startup, since how long the program was closed is unknown.

### Outbox

What sending promises, with nothing of how: a message put off stays listed until
it is taken or called off, and is taken only as often as permitted.
`OutgoingSends` implements it: the permits are one, plus one for every decision
of a person (a resend, a resolve), plus one for every record of a message that
may have gone which startup forgot.

### Mailings

One mailing of `Recipients` messages, its runner, and its requests. `spawning`
counts the handlers between writing the mailing and calling `spawn_merge`;
`leaving` is the runner between its last claim and its leaving `merge_running`.
Both windows are in the code, since the store and `merge_running` have separate
locks. The send itself repeats the steps of `perform_send` in fewer actions,
because only one runner works on a message.

### SecretsMigration

One entry, the value of which is an element of `Blobs`; entries share nothing
and each has its lock. Every keychain call is an action. It may fail, a write may be
damaged without an error (what the verification in the code is for), and on Windows a
delete that fails may leave an entry that reads as an error.

`place` is the keychain the process uses: `native` on macOS and Windows; on Linux
`service` (the Secret Service or the Secret portal) until a call finds it unusable or
gets no answer in time. Then the whole process falls to a keyring file of its own
(`Fall`: `with_service_fallback` and `force_local`) and makes the call there, where the
entry is not; the call that got no answer may have been carried out all the same
(`Abandoned`), and what the service is left with is `aside`. The process is `fallen`
until the file is written, by this entry or by another (`LocalKeyringWritten`), and
`local` from then on, in later runs too; one that ends before is followed by one at the
service again. `kept` remembers where the secret was last stored or deleted.

`isKey` says that the entry
is the database key, for which the callers use `db_key` and can tell a good value
from a bad one. `wanted` is what the callers may take the secret to be: the last
value stored, and also the values of stores and deletes that failed or were cut
short.

### ProfileRestore

Four parts (the store, its log, two media folders) in three places. What a part
holds is whose it is. A move is a rename, or, where a rename is not possible, a
copy and a removal, in steps. `CoreWrites` is the core at work: it creates a
store where there is none, and its log comes and goes. The write of the journal
is atomic in the code (`writePrivateFile`) and here.

### Sidecar

The bridge (`started`, `readFailed`, the lock `mu`, the table `pending`, the
current process `gen`), every process that was ever started (`life`, `killed`, the
requests it has and the answers in its output), its reader and its waiter, the
callers, and the one procedure that stops and starts the core, `withCoreStopped`.
A call keeps the lock from making its entry to the end of its write, as in the
code, and `CoreReads` or `WriteFails` ends the write. `box` is the channel of a
call, which has room for one answer. A restore goes through

    clear (Stop) -> swap -> reopen (Restart) -> probe (account.list)
                 -> back (Stop) -> undo -> abandon (Restart)

A stop that times out, a core that dies by itself, cannot be started or answers
more than the reader takes are faults.

### TaskSync

One list, of a CalDAV or of an Exchange server (`kind`). A row has its text, its
place and the version it is based on, a revision, a pending change and a conflict;
the server has for each place the history of its versions. Texts are numbers,
given in order of writing, so which text replaced which can be told. Every access
to the store is an action and every request to the server is one; the answer to it
may be lost. `editor` is a window the person has open on a task, `settler` a
conflict being settled, outside the lock of the sync. The queue of a sync is what its
query read, row by id, and the lowest id goes next (`ORDER BY id`). Histories tell what
the properties need: `byOther` and `knows`, which texts are other clients' and in sight of
which of them a text was written; `settled`, which of them the person chose against;
`root`, the task each text is of; `again`, the tasks the person had made again on Exchange
after somebody deleted them there; `cut`, the texts whose row was never marked as waiting.

Creating and completing a task are two statements and no transaction: the row is written,
then marked as waiting to be sent. `PutAndTouch` does both, or the first alone where the
process ends or the store fails between the two. (An edit and a deletion are one statement
or a transaction.)

### MailSync

The Inbox of an account on the server (uids, flags, mod-sequences, UIDVALIDITY) and
here (`rows`, `state`, `observed`), the two tasks that sync it and the requests that
change it. `refresh` is the sync behind a view (`run_message_sync`), `watch` the
IDLE watcher or the periodic check. A sync goes through

    begin -> prior -> fetch (-> recent -> isolate) -> flags -> list -> apply
          -> (companions) -> after -> arrivals -> (rules) -> tell

one action for each command to the server and each critical section of the store.
A rule acts through the handlers of the person's requests, so both use `OnServer`
and `InStore`. `quiet` is the set of syncs with which nothing has interfered since
they read their position; `outdated` says that one wrote what it had read of a mailbox
that was rebuilt since, or left rows of an earlier mailbox beside its own. What a sync has
in memory is one record, with every field at rest (`NoSync`) where the code has no value
yet.

### AutoArchive

The folder on the server (uids and what they hold; a message stands for its bytes), the
account's Archive folder, the local archive's folder, the journal, and the policy with
its confirmation. A run goes through

    search -> headers -> move (-> remove)
                      -> (fetch -> look (-> store -> note -> check) -> verify)*
                         -> delete -> settle

one action for each command to the server and each critical section of the store; any of
them may fail, a crash may come anywhere, and a copy may be read back damaged. A copy
that does not match goes through `discard` and `clear`, both of which may fail unseen, as
in the code. `shifted` says that the server gave the folder's messages other uids after a
run had chosen some.

## 3. Checks

`tlc -workers 2 -config X.cfg M`; every run ends within three minutes.

| Run | Instance | What it shows |
|---|---|---|
| `outgoing_safety` | one message, the watch and two handlers, 3 requests, 1 crash, 1 fault; 1.45 million states | no unasked repeat, refusals and acceptances are true, doubt is left to a person, a record at `sending` has its worker, a message nobody decided about is in one worker's hands, and the refinement of `Outbox` |
| `outgoing_live` | two messages, the watch and one handler, 2 requests, 1 crash | no scheduled message is lost; every row is sent or given up; every send gets an outcome |
| `mailings` | two recipients, 3 requests, 2 crashes, 1 fault | nobody gets two; the list is true; a mailing ends or pauses |
| `secrets` | two values, a key or not, on each platform, 4 operations, 2 crashes, 3 failing calls or falls, 2 damaged writes; 1.39 million states | the old entry goes only behind a verified copy; what the run takes for gone is gone from the keychain it uses; no older value comes back unless the run fell from the service that holds the secret; an inherited key is never lost, and never replaced unless the run fell |
| `restore` | 3 requests, 2 crashes, 1 failing operation, every choice of which parts exist | the core runs on one whole profile; the previous one is safe; a swap cut short ends |
| `tasks` | a list of either kind, 2 rows, 3 things asked here, 1 write of another client, 1 fault; 3.1 million states | a row with nothing pending is what the server has, unless its change was cut short before its mark; nothing is made twice; on CalDAV no other client's text is replaced unseen; no edit that was marked disappears |
| `sidecar` | a caller and a restore, 2 calls and its probe, 3 processes, 2 faults; 385 000 states | the folders are exchanged with no core on them; a process fails only its own calls; every entry has somebody to fail it and every channel has room; calls and restores end |
| `archive` | two uids; a message with and one without a Message-ID, and a young one; 1 fault, 1 event, 1 change of the policy; 685 000 states | nothing is lost wherever a run stops; what has a Message-ID is copied once; what runs was previewed; a later run finishes what an earlier one began |
| `mailsync` | window of 2, 3 messages, one of them unreadable and one older than the account, a uid that is no longer in use, 3 syncs, 1 event; 7 million states | an undisturbed sync brings the cache to what the server has, whatever came before; no mail is an arrival twice; old mail is never one |

Why these bounds. Two workers on one message is the least that races, and three
(the watch and two handlers) lets one act between two steps of each of the
others. `MAX_SEND_ATTEMPTS` is 2 rather than the 5 of the code: one try that
comes round again and one that is the last. A second message matters only for
the watch, which holds a list. Two crashes let a recovery be cut short too. One
fault is enough to fail any single operation at any point; several faults only
add the loss of the operations in between, and the proofs, which have no bound,
cover them where there is one. `Permutations` of messages and of handlers is sound in
`outgoing_safety`: no definition tells them apart and the run checks no liveness.

Two tasks on a list are the least that a queue and a blocked row need, and three things
asked (make, change, change again or delete) reach an edit during the sending of an edit.
Three processes are what one restore can start. Three syncs are two that overlap and one
after them that should put things right, and three messages a window with something
outside it; with the uid that is no longer in use (`Gone`) a rebuilt mailbox gives its
messages other uids. Two uids let one name what the other named, and one fault cuts a run
short at any point or damages one copy. `MailSync` was also run with two events and two
syncs on two messages (16 million states), `Sidecar` with two callers and one fault, and
`AutoArchive` with two faults and with two events; none found more. What the bounds of
`mailsync` hide, the proof of its properties found: see `outdated` below; what those of
`tasks` hide, the proof of `NoSecondCopy` found: see *Tasks* at the end of this
section.

Deadlock is not checked: with its bounds used up a system at rest, with nothing
scheduled and nobody asking, has nothing to do.

Several properties hold while the store (or the file system) works, and say so:
they have `faults = 0`, or `damages = 0`, as a hypothesis. The same runs then
show what survives when it does not work.

**Fairness.** The tasks of the runtime are polled until they finish, and every
wait on a server has a timeout (`SMTP_COMMAND_TIMEOUT`, `SMTP_DATA_TIMEOUT`), so
`WorkerStep`, `RunnerStep` and `WatchStep` are weakly fair; the watch's ticker
fires for as long as the process runs and clocks advance (`HourComes`); a person
who closed the program opens it again (`Startup`). File operations end
(`Working`). In `Sidecar`
goroutines run, the lock goes round, what is killed dies, a timeout comes, and a core
reads its input as long as its output is read; that a core answers is not assumed. In
`AutoArchive` the ticker comes round while the program is open and the account is not
paused (`Scheduled`), and a step of a run ends or times out (`RunStep`).
Syncs of tasks and of mail begin when a view, a server or a clock says so, and nothing
is claimed about when. Nothing is assumed of what a person asks, of what servers answer, of
faults or of crashes. `FairSpec` is what the liveness properties are checked
under; the proofs are about `Spec`.

### Where the code and what is said of it differ

Each is a run whose property quotes the repository and which TLC refutes.

| Run | What happens |
|---|---|
| `restore_undo` | Going back is cut short. Its journal says `activated`, recovery only looks for `swapping`, and the core opens parts of both profiles. |
| `tasks_silent` | Exchange: another client edits a task between our write and our reading of what we wrote. Its version is recorded as the one our row is based on, its text is not taken, no conflict is raised, and the next change here replaces it. |
| `mailsync_rules` | The sync behind a view finds new mail before the watcher does: it is recorded as observed and announced, no rule and no out-of-office reply ever runs on it; with a cached Sent folder it is not even announced. |

The hypotheses of other properties mark milder limits. A mark that fails leaves a
record at `sending` until the next start (`SendingHasOwner`; `SendingIsSettled` is
checked without faults, so it says nothing of that record before the start). A rollback
of a restore that fails, rather than being cut short, stays between the two profiles
until somebody tries again (`SwapSettles` has it as an exception). A resend during a
send lets the later outcome overwrite the earlier (`OnlyAPersonSettlesDoubt`).
A mailing's message whose acceptance could not be written is listed as refused,
though its record stops a second send (`NotGone`, `NobodyGetsTwo`). The removal
of the row of a send in flight is allowed by `mail.cancelScheduledSend`. A damaged
copy that a crash leaves unverified is served afterwards, which ADR-0063 accepts
(`AnswersLatest`).

Other places where the models go where one would not expect, found while modelling and
not kept as runs:

- *Sender.* After a crash between an accepted send and the removal of its row, and more
  than thirty days with the program closed, startup prunes the record before the watch
  looks, and the watch sends the message again, though the comment on `send_scheduled`
  says "never sent again". `forgotten` counts these. The watch reads its list once per
  tick, and `send_scheduled` asks the record and not the row: a row called off after the
  list was read is still sent.
- *Mailings.* Carrying on between the runner's last claim and its leaving `merge_running`
  leaves a mailing that says `sending` with nobody sending it, until the next start. A
  message on its way when its mailing is stopped, and then deferred by the server, goes
  back to `pending` in a cancelled mailing.
- *Secrets.* A fall to the local keyring changes the keychain under an operation, and the
  entry is not in the new one. `db_key` then finds no key under either name and mints one
  in the local keyring, though the service holds the inherited key; its comment says "A
  read error is returned, never taken for a missing key: minting one then would lock the
  store out." (`secrets.rs`), and ADR-0063 accepts the case as one of a service that goes
  away. TLC reaches it with a single fall between the reads of the two names. The inherited
  key is not lost (`InheritedKeyKept`: it is in `aside`), but no later run asks the service
  for it once the local keyring's file exists. A delete that falls answers "ok" while the
  service keeps the entry, and if the file is never written the next run serves it again;
  a store that falls leaves the older value in the service. These are the states of
  `Astray`, in which `AnswersLatest` claims nothing; it claims again once the secret is
  stored or deleted in the keychain in use, or a later run is back at the service.
- *Restore.* A rename of a live part fails and the copy instead of it is cut short: the
  rollback takes the incomplete copy for the moved part and removes the intact one. Two
  restores at once are not excluded by the code.
- *Sidecar.* `Stop` takes the lock before its deadline begins, so a core that reads
  nothing, with a call blocked writing to it, blocks a stop for ever; a core whose output
  is full while it serves in degraded mode can do that (the fairness excludes both). The
  second stop of a restore may time out, and the undo then runs beside a live core. When
  the undo fails the core stays stopped.
- *Tasks.* A completion or a creation that ends between its two statements is never marked
  (`cut`): the row looks clean and is not what the server has, the change is not sent until
  the task is changed again, and the server's next change to the task replaces it without a
  conflict; a new task stays here alone. Cut short while an earlier change of the row
  waits, it goes out with that change if the sync reads the row after it; if the sync had
  read it before, the answer to the earlier change clears the mark of both. Without the
  exceptions for `cut`, TLC violates both `CleanIsTheServers` and `EditNotLost`.
  An edit made between the reading and the writing of a settlement that keeps the
  server's copy is lost. A deletion of a row whose version is unknown comes back with the
  next sync. Exchange's delete compares nothing. Two settlements of one conflict at once
  could leave a clean row that is not the server's (the interface disables the buttons
  meanwhile). A list deleted during its sync leaves rows behind. On Exchange a task may get
  a second row and a second object after all, when a conflict is settled between the listing
  of a sync and its reconciling: another client deleted the task, the person keeps
  "mine", so the row gives up its place to be made again (`MadeAgain`), and the sync, whose
  listing is older than the deletion, finds an object no row names and makes a row of it
  (`insert_server_copy`). Both rows are then of one task; an edit of the new one that is
  kept as "mine" in its turn is made a second time. It takes four things asked and two writes
  of other clients, more than the run's bounds; it was found where the proof of
  `NoSecondCopy` failed, and a run of TLC with larger bounds confirmed it. Hence `again` in
  `NoSecondCopy`: a task that was made again on Exchange is not counted.
- *Mail.* A rule that only labels or stars a message also counts as having dealt with it,
  so it is not announced, though the comment on `apply_rules_to_arrivals` says "filed away
  or marked read". The first position for flags is read after the messages: a flag changed
  between the two, on a message that then leaves the window, stays as it was. Marking all
  read marks rows that arrived meanwhile, here and not on the server. Requests name cached
  uids without their UIDVALIDITY. A sync that read the mailbox before it was rebuilt and
  writes after one that read it since leaves a message under two uids, which
  `new_unread_inbox_messages` does not tell apart: its rules run twice (`outdated` in
  `ArrivesOnce`). Proving `ArrivesOnce` and `BacklogIsNoArrival` showed two more cases of
  this, which need more syncs or events than the run has and which TLC then reached on a
  smaller mailbox: a sync that began before the first one ended has no UIDVALIDITY to
  compare and writes beside the rows of the mailbox as it was; and after either, a message
  of the backlog can be taken for an arrival. Both properties exclude them with
  `outdated`. The cause is one: `sync_messages` decides about "resetting cached messages if
  the server's UIDVALIDITY changed" (its comment) by `prior_validity`, read before the
  first command, and not by the UIDVALIDITY of the cache it writes to. Four overlapping syncs across a rebuilt mailbox can leave rows of the
  old one until a later sync prunes them. A crash between the writing of rows and the
  finding of arrivals loses their announcement and their rules.

- *Archiving.* When the server gives a folder's messages other uids between the comparing
  and the removing of a run, `expunge_uids` removes what the uids name by then: a message
  of which there is no copy. ADR-0054 says that nothing is removed in that case ("si l'UID
  ara anomena un altre missatge, els bytes no coincideixen i no se suprimeix res"), which
  holds for a change between runs; `NeverLost` excludes the other with `shifted`. A message
  without a Message-ID gets a second local copy after a crash between its copying and the
  noting of it, though the module's comment says "never a second copy"; hence `HasId` in
  `NoSecondLocalCopy`. A message starred or marked unread after the plan still goes. A copy
  that the person removes from the local archive between the comparing and the removing
  was the only one. Without UIDPLUS the plain EXPUNGE also removes what other clients
  marked as deleted (the model removes only what was asked).

## 4. Proofs

`OutgoingSends_proofs` (checked by `tlapm`) proves, for any set of messages, any number of
handlers, any number of tries, crashes, requests and faults:

| Theorem | Statement |
|---|---|
| `TypeCorrect` | `Spec => []TypeOK` |
| `InductiveHolds` | `Spec => []Inductive` |
| `NoRepeat` | `Spec => []NoUnaskedRepeat` |
| `RefusalIsTrue` | `Spec => []RefusedNeverWent` |
| `AcceptanceIsTrue` | `Spec => []AcceptedReallyWent` |
| `NothingLost` | `Spec => []ScheduledNotLost` |
| `Refinement` | `Spec => ImplementsOutbox` |
| `SoleWorkerHolds` | `Spec => []SoleWorker` |
| `DoubtIsAPersons` | `Spec => OnlyAPersonSettlesDoubt` |
| `OwnerHolds` | `Spec => []SendingHasOwner` |

From: messages and handlers are finite sets, the watch is not a handler, the
bounds are natural numbers. Taken from the model, not proved: an answer of a
server is truthful (a refusal means that it did not take the message; the code
treats an unreadable reply of an Exchange server as one), and an access to the
store is atomic (the mutex).

The argument. `NoUnaskedRepeat` is not inductive: a worker that has begun may
still deliver, a resend that was asked for has not begun yet, and a copy adrift
may arrive. `Balance` counts all of them:

    delivered + adrift + workers that owe + (1 if the record would allow a send)
      <= 1 + consent + forgotten

A worker *owes* when it holds a resend it has not begun, is connecting, is
transmitting, or knows of a refusal it has not yet written. Every step moves a
unit from one place to another or gives it up, and only a decision or a forgotten
record adds one: `begin_attempt` turns the record's allowance into the worker's
(this is where its check and its write under one lock matter), a delivery moves
it to `delivered`, a crash to `adrift`, a written refusal back to the record. The
other conjuncts of `Inductive` are `ResendSkipsPrecheck`, which the balance needs
where a resend starts, and `HeardYes`, which `AcceptedReallyWent` and
`ScheduledNotLost` need: who has heard "yes" is right. The module has one lemma
per group of actions (worker, person, watch, world, startup) and conjunct, with
one case per action; `OwingStep` and `CardinalityStep` say how one worker's step
changes the count. `Refinement` follows action by action, with the balance
showing that a delivery is permitted.

`OnlyAPersonSettlesDoubt` needs to know whose a record is, because a mark is an
update by id that looks at nothing. `SoleWorker` says it: as long as nobody decided
about the message, one worker at most has it in hand and the record is at that
worker's step. It is inductive with the types, since a second worker may begin only
on a record that cannot have gone (and while the first has it in hand it can), or
with the resend flag, which counts as a decision from the request on. A doubtful
record is therefore in nobody's hands. `SendingHasOwner` is inductive by itself:
only a mark that fails and a start that cannot mark leave a record behind, and both
are faults, which the property excludes and `FaultsGrow` counts.

`Sidecar_proofs` proves the safety of the transport, for any set of callers and any number
of calls, restores and faults:

| Theorem | Statement |
|---|---|
| `SwapIsAlone` | `Spec => []SwapAlone` |
| `CallsFailedByTheirOwn` | `Spec => []FailedByItsOwn` |
| `EntriesHaveWaiters` | `Spec => []EntryHasWaiter` |
| `ChannelsHaveRoom` | `Spec => []ChannelHasRoom` |
| `FailuresAreCurrent` | `Spec => []FailureIsThisProcess` |

From `SidecarAssumption` (the restore is not one of the callers) and `SidecarBounds` (the
bounds are natural numbers). That a goroutine runs a critical section of `mu` as one step
is taken from the model. One inductive invariant, `IInv`, has four of them as parts and
implies `EntryHasWaiter`, since each needs the others: a sweep fails every entry of the
table, so that it fails only its own process's needs that every entry belongs to the
process that is there (`EntriesAreThisProcess`), which needs that at a start nothing of an
earlier process is left. That is `OneProcess`: the goroutines of earlier processes are
done, those of later ones do not exist, and it holds because a start follows only a `Stop`
that waited for both and did not time out. `Generations` bounds the number of processes by
where the restore is, so that there is always a next one to start; `WaitedIsDead` and
`StartedHasWaiter` tie what the waiter knows to the life of its process; `Numbers` and
`FreshIds` say that an id is used once, so a channel is empty when its entry is made.

`Mailings_proofs`, for any number of recipients, requests, crashes and faults, from
`RecipientsAssumption` (there is one at least) and `MailingBounds`:

| Theorem | Statement |
|---|---|
| `MailingInvariant` | `Spec => []IInv` |
| `MailingTypeCorrect` | `Spec => []TypeOK` |
| `MailingNobodyGetsTwo` | `Spec => []NobodyGetsTwo` |
| `MailingAcceptedWent` | `Spec => []AcceptedWent` |
| `MailingNotGone` | `Spec => []NotGone` |

The heart of `IInv` is again a `Balance`, for each message: deliveries, a copy adrift, what
the runner may still bring about and what the record would allow are at most one more than
the records startup forgot. `Hold` ties the runner's message to its row and its record; `Heard` makes
every "taken" true; and `Clean`, the strengthening `NotGone` needs, says of a store that
works that a row open to another try has a record that allows one.

`SecretsMigration_proofs`, for any set of values, from `BlobsAssumption` (no value looks
like one of the model's marks) and `MigrationBounds`:

| Theorem | Statement |
|---|---|
| `SecretsInvariant` | `Spec => []IInv` |
| `SecretsTypeCorrect` | `Spec => []TypeOK` |
| `SecretsGoneIsGone` | `Spec => []GoneIsGone` |
| `SecretsAnswersLatest` | `Spec => []AnswersLatest` |
| `SecretsSecretSurvives` | `Spec => []SecretSurvives` |
| `SecretsInheritedKeyKept` | `Spec => []InheritedKeyKept` |
| `SecretsLegacyGoesBehindACopy` | `Spec => LegacyGoesBehindACopy` (an action property) |

`Shape` says which operation is at which call and where the secret can have been left:
what is kept in the local keyring is in a keyring that is written, and only a process
that fell has anything aside. `InHand` says at each call where the value in hand is,
unless the process fell meanwhile (`Away`): a legacy entry is deleted at `delete_legacy`
only, and there the new entry is the value. `Undamaged` adds, without damaged writes, what
callers may take the secret to be (`wanted`) and that one of the entries holds it, of the
keychain in use or of those left aside, wherever the secret was last stored. `KeyKept`
does the same for an inherited database key with damaged writes too, since the two paths
that would write another key, mint and repair, are taken only where there is none or with
that key, and a write after a fall does not reach what is aside. A fall may come at any
call: `FallIInv` shows that it keeps every part, with each outcome of the call that got no
answer, and `LocalKeyringWrittenIInv` that the keyring's file may be written at any time.

`ProfileRestore_proofs`, for any number of requests, crashes and failing operations, from
`RestoreBounds`:

| Theorem | Statement |
|---|---|
| `RestoreInvariant` | `Spec => []IInv` |
| `RestoreTypeCorrect` | `Spec => []TypeOK` |
| `RestoreCoreSeesOneProfile` | `Spec => []CoreSeesOneProfile` |
| `RestorePreviousIsSafe` | `Spec => []PreviousIsSafe` |
| `RestoreActivatedIsWhole` | `Spec => []ActivatedIsWhole` |

`IInv` says where each of the four parts is by how far a swap, its rollback or the keeping
has come. `ActivatedIsWhole` holds with failing operations too, and rests on `StagedWhole`:
the store is the first part to leave the staging folder, so a staged store means that
nothing was taken from it. The other two hold while operations work (`Good`); `Underway`
says that a part is either untouched or whole aside, which is what a recovery that is
itself cut short can start from again.

`AutoArchive_proofs`, for any messages, uids, policies and bounds, from
`ArchiveAssumption`:

| Theorem | Statement |
|---|---|
| `ArchiveInvariant` | `Spec => []IInv` |
| `ArchiveTypeCorrect` | `Spec => []TypeOK` |
| `ArchiveNeverLost` | `Spec => []NeverLost` |
| `ArchiveNoSecondLocalCopy` | `Spec => []NoSecondLocalCopy` |
| `ArchiveMovesWereSeen` | `Spec => []MovesWereSeen` |

`IInv` follows one message through a run. While uids are not given anew under it, a chosen
uid names what it named or nothing (`IdsStand`, `InHand`). `NeverLost` is not inductive,
because a copy that does not match is thrown away again: `Safe` counts only copies other
than the one in hand, and until that one has been compared the message is still in the
folder (`Compared`, `VerifiedAreCopied`). `NoSecondLocalCopy` is kept in the form that no
two uids hold one message (`OneCopy`), so that only the last step speaks of cardinality.

`MailSync_proofs`, for every window, backlog, mailbox and number of syncs and events, from
`MailSyncBounds`:

| Theorem | Statement |
|---|---|
| `MailSyncInvariant` | `Spec => []IInv` |
| `MailSyncTypeCorrect` | `Spec => []TypeOK` |
| `MailSyncQuietSyncMatches` | `Spec => []QuietSyncMatches` |
| `MailSyncArrivesOnce` | `Spec => []ArrivesOnce` |
| `MailSyncBacklogIsNoArrival` | `Spec => []BacklogIsNoArrival` |

Three arguments. *Agreement*: as long as the mailbox is not rebuilt a message has one uid,
so what was read of the mailbox as it is now, by either task, what is cached of it and the
mailbox itself agree (`MailNumbered`, `BatchNumbered`, `RowsNumbered`); arrivals of one
sync are therefore different messages, and they are recorded in the step that finds them,
so they are of one task only and neither announced nor ruled on before (`Once`,
`RuledOnce`). *Below*: UIDNEXT never falls under the uid of a message of the backlog, and
a rebuilt mailbox gives a message a uid no higher than the one it had (`Renumbering`: the
n-th of a set of positive numbers is n at least), so the backlog is below every UIDNEXT
that was ever read (`BacklogLow`), and cached messages of it are below where a sync looks
or recorded already (`BacklogCached`). *Holding*: an undisturbed sync holds at each step
what the server has (`Holds`), and `UpdatedFacts` says what `Updated` makes of it. The
first two need `outdated`; the third does not.

`TaskSync_proofs` proves, for a CalDAV and for an Exchange list, any texts that Exchange
cannot take and any bounds on rows, places, things asked, other clients' writes and faults:

| Theorem | Statement |
|---|---|
| `TaskSyncTypes` | `Spec => []TypeOK` |
| `CleanHolds` | `Spec => []CleanIsTheServers` |
| `NothingOverwrittenUnseen` | `Spec => NoSilentOverwrite` |
| `NoEditLost` | `Spec => EditNotLost` |
| `OneCopy` | `Spec => []NoSecondCopy` |

All rest on one inductive invariant, `IInv`: the version a row, a copy in the queue, the
listing and the settler name is one its object had and no deletion (`RowFits`,
`ListingFits`, `SettlerFits`); a row and its copy in the queue differ only as edits since
the reading make them, and say the same where their sequence numbers agree or the row's
text was cut short before its mark (`QueueRows`);
while something is being sent nothing waits for the person (`Unblocked`), which is why a
settlement and a send never meet on one row; and a write that was answered with "saved" is
in the object's history (`HeadFits`). Each action has a lemma; lemmas for what actions have
in common (`PersonStep`, `ReconcileStep`, `SettleStep`) carry the rest.

*Clean and unseen.* Besides its types a CalDAV list keeps `Sight`: the version a row or its
copy names holds a text of another client only if who wrote the row's text had it in sight
or the person chose against it; the editor's text is sight enough as long as the row's
revision is the one it read (`EditorSighted`: this is what the comparison of revisions in
`update` is for); and what waits to be written is nobody else's text (`OwnPuts`). The
actions are first shown to be steps of nine kinds on a row (`RowStep`, in `CalStep`),
and the invariant is then shown once for these. `NoSilentOverwrite` follows because a write
goes through only where the tag sent is the object's last. *Not lost.* `EditNotLost` needs
no further invariant (a text that was cut short is its exception, as it is of
`CleanIsTheServers`: the mark that both speak of was never made): only an answer, a read back, a settlement for the
server's copy or the person's deletion of that very task ends the waiting. By `HeadFits` what
was read back or answered is what the object said, and where the sequence numbers differ the
row goes on waiting (`Sent`); by `SettlerFits` a row that a settlement drops as deleted on
both sides was still to be deleted. *One copy.*
`NoSecondCopy` is not inductive, because a listing and a settler hold what the server no
longer has, and a row and its copy in the queue may for a time say different things of where
a task is. `Copies` says it of everything in hand: of what the server, the listing or a
settler has of two objects no two are of one task or carry one marker (`ViewsApart`); a row
or a copy in the queue whose task somebody has in hand is the row of that object, by its
place or by its marker (`ViewsRows`, `ViewsQueue`); and once the head of the queue was looked
for by its marker and not found no object carries it until it is sent (`HeadUnfound`), so
that creating it makes the first. `MadeAgain` is the one step that gives up the place of a
task somebody may have in hand, which is where `again` comes in.

All theorems are about `Spec` and need no fairness. Each inductive invariant was checked by
TLC, on instances like those above or smaller, before it was proved.

Only model-checked: the liveness properties (`DueIsSettled` and the like), which need
fairness and are out of the prover's reach. Every invariant and every action property of a
passing run is a theorem. The definitions `TypeOK` and `IInv` are proved and not checked
again by a run, as are the
sender's `Inductive` and the transport's `FailureIsThisProcess`.

## 5. What is left out

In the modelled parts: what messages say, how they are encoded, MIME, the wording of
errors; the recipients' table and the template of a mailing (pure text); which accounts
file their sent copies on the server (only whether filing worked); the interface's own
queue of held replies, which appears as requests in any order; several mailings or entries
at once, which share no state; in the keychains the chunks of an entry on Windows, the
portal worker's queue and its timeouts (what a timeout leads to is `Fall`) and the choice
of a backend by environment variables; finding an account's task lists and
the iCalendar text; servers without CONDSTORE, messages without a Message-ID, stars, Gmail
labels, how a window is halved to find what cannot be read, ages and dates of archiving
and its log, and mail by POP3, Exchange and Graph; the binary's path, environment and log.

Smaller things the models take as one step, or leave out, where the code does more:

- *Ends of the process.* `Crash`, and `Dies` in `Sidecar`, are the operating system's
  doing and stand for no line of the code.
- *Sender.* In `WatchUnreadable` the removal of the unreadable row works; if it fails, the
  watch comes to the row again at its next tick.
- *Restore.* After an undo that failed the code leaves the core stopped; the model lets it
  run, which asks more of the properties. `CopyFails` leaves a partial copy; that the
  removal of an older one before the copy fails is left out.
- *Mail.* A refresh gives up its claim on the folder before its companions and its
  arrivals, so a second one may begin during the first one's last steps; the model has one,
  beside the watch. Arrivals are found and recorded in one critical section either way.
  `Apply` is one step, though it is several statements: each position is written after
  what it stands for, so the sync after one cut short begins where that one did. `Rule` carries out
  the whole plan for a message. `Reset` numbers a rebuilt mailbox's messages from 1 in
  their order; a server that gave them higher uids than before is not covered, and
  `BacklogIsNoArrival` rests on that.
- *Archiving.* `Discard` is one step, though it deletes two rows in two statements. A server's move
  takes all of the chosen messages or none, and an account without an Archive folder, whose
  run ends with an error before it touches anything, is left out.
- *Tasks.* On Exchange `take_server_copy` and `rejected` are two statements each and one
  step here.

Other parts: see section 1 and the notes in `PROJECT.json`.

## 6. Plan

In this order.

1. Account removal in `engine.rs` (`ensure_valid_creds` against `account.remove`)
   composed with the sender's `open`; then renames of folders (`folder_move.rs`), and
   runs of `AutoArchive` that meet them.
2. `KeychainChunks`: the Windows backend of `secrets.rs`, shown to implement the
   reads, writes and deletes of `SecretsMigration` at `native`.
3. Proofs: safety of the modules above.
