# Northstar Desk: formal models

TLA+ models of the service desk in this repository, TLC runs that check them on
small instances, and TLAPS proofs of what matters most for every instance.
Everything is translated from the code; docs and tests are quoted only where a
property states what they promise.

## 1. The system

Northstar Desk is one FastAPI process with a SQL database (`src/backend/itsm`),
a worker process beside it, a Windows agent on every managed computer
(`src/endpoint_agent`), a React client, and a packaged server program with an
installer that configures, upgrades and moves servers (`src/installer`).
Requests run in threads. A handler reads rows, decides, and commits at its end.
The isolation is READ COMMITTED (or SQLite's), rows are seldom locked (only
recovery and polling of endpoint actions, and enrollment, do), and SQLAlchemy
writes just the columns whose value changed from what was read. So **two
overlapping handlers, each acting on what it read before the other committed,
are the main source of hard behaviour**, and almost every module splits a
handler into a *Begin* (what it reads and decides) and a *Commit* (what it
writes). The second source is the file system and the processes around it:
sequences of steps (a certificate, an update, a restore) that may fail or stop
between any two.

| component | state | operations | interacts with | hard behaviour | what makes it correct |
| --- | --- | --- | --- | --- | --- |
| Endpoint remediation, server (`agent_api.py`) | `endpoint_actions` rows | request, auto-close, approve, decline, poll, result, recovery, revocation | the agent polls and posts; tickets bound what may be asked | overlapping decisions and results, lost replies, redelivery, time limits | nothing runs without consent or too often; Completed is true; every approved action is settled |
| Endpoint agent, action worker (`agent.py`) | the worker, its child process | poll, run child, kill at 90 s, post the result, crash | the server, over HTTP | crash with a child still running, lost result | as above |
| System updates (`system_updates.py`, `update_api.py`, the update script) | staged directories, `system_updates` rows, exit-code file | upload, install, list (which reconciles), apply | a scheduled task outside the process restarts the server | server dies in between; the installer fails or hangs; two requests | Installed is true; backup first; nothing hangs at Installing |
| Live chat (`chat_api.py`) | sessions, messages | request, accept, send, close | ticket closing and reassignment | messages sent again, acceptance racing closing | stored once; an ended chat stays as it is |
| Tickets, approvals, checklists (`main.py`) | ticket, approval request, decisions, checklist | submit, decide, update, bulk update, reply, confirm, reopen | all other parts change ticket status | overlapping decisions, stale status | every step approved; decisions are final |
| Smart Self-Service (`self_service.py`, `self_service_api.py`, `worker.py`) | articles and versions, attempts, policy | edit, publish, archive, evaluate, send, answer, time out | ticket status, e-mail replies | publication racing edits, answer racing the time limit | only published text is shown; offers end |
| E-mail (`worker.py`, `microsoft_mail.py`) | `email_messages`, retry state, notifications | poll, handle, retry, send, ingest | tickets, the mail provider | lost answers, worker stops, the same message twice | one entry per message; nothing is dropped |
| Inventory (`agent_api.py`, `agent.py`, `storage/database.py`, `scheduler.py`) | agent outbox, credential, observed user, assignment | collect, upload, enroll, revoke, ingest, heartbeat | assets and administrators | lost answers, overlapping runs, stale intake | nothing collected is lost; an assignment is kept |
| Agent releases (`agent_api.py`, `agent.py`) | release folders, `update-state.json`, downloaded installers | publish, offer, download, verify, schedule, install | heartbeats carry the offers; an update stops the agent | two uploads of a version, a file that changes after it was checked | what runs as a version was published as that version |
| Ticket intake, routing, numbering, SLA clocks (`main.py`, `incident_api.py`, `services.py`) | tickets, sequences, turns of queues and teams, SLA columns | create, route, update, reply, bulk update | queues, rules and teams; calls and e-mail open tickets | read-modify-write without locks, repeated submissions, calendar arithmetic | numbers follow the sequence; paused time counted once |
| Rules, queues and teams (`admin_api.py`) | rules with versions, queues, teams | create, edit, publish, roll back, archive | intake routes by them | a queue archived while a rule is edited | a rule that routes names an open queue |
| Telephony (`ringcentral.py`, `worker.py`) | connections, listeners, call sessions | authorize, test, listen, event | tickets | events repeated, out of order, heard twice | one ticket per call |
| Accounts (`main.py`, `security.py`, `microsoft_sso.py`, `admin_api.py`, the recovery program) | users, roles, sessions, reset links | sign in, sign out, change, reset, delegate, deactivate, link, provision | everything is authorised by it | two administrators at once, sign-in racing a reset | an administrator remains; a reset ends sessions |
| Certificates (`certificate_api.py`, `caddy_tls.py`, `worker.py`) | certificate files, Caddyfile, `status.json`, monitor | install, restart, configure-ports, hourly health job | the proxy process | failure between two steps, job and installation overlapping | a usable certificate is configured; trouble is reported, once |
| Deployment (`installer/server_entry.py`, `database_ops.py`) | `.env`, database role, database, backups, packages | configure, take over, import, export, upgrade, serve | the running service | failure or stop between two steps | a configured server is usable; records are backed up before they go |
| Other parts | | | | | see section 7 |

`PROJECT.json` lists every component with its sources and status, and every
hazard at its line.

## 2. The modules

| module | models | state ↔ code |
| --- | --- | --- |
| `EndpointActions` | handlers of `agent_api.py` on `endpoint_actions` | `status`, `retryCount`, `age` (ticks since `dispatched_at`), `approvedAt`, `summary` are columns; `tx` holds what a handler in progress has read |
| `Remediation` | extends it with the agents and the network | `pc`, `job`, `elapsed`, `outcome` the action worker; `posts` results in flight; `orphans` children that outlived a crash; `effects` what happened on the computer |
| `RemediationContract` | abstract: granted, performed, judged | refined by `Remediation` (`ContractRefined`) |
| `SystemUpdates` | upload, install, the update task, reconciliation | staged directories, rows, the exit-code file, what is running and installed |
| `LiveChat` | `chat_api.py` and what happens to its ticket | `chat`, `transcript`, `handler` |
| `TicketApproval` | a form with an approval workflow, and every other handler that moves its ticket | `status`, `approval`, `step`, `approvedSteps`, `checklist`, `deciding` |
| `SelfService` | articles, suggestions, the worker's job | `article`, `versions`, `attempt`, `ticket`, `handler`, `job` |
| `Mail` | one worker loop: the Microsoft 365 mailbox, notifications, the IMAP mailbox (a behaviour has one of the two); `email_ingest` beside it; notifications switched off and on | `email` (unique Message-ID), `posts` (timeline entries), `attempts`, `note`, `copies`/`known`; `seen` the flags of IMAP, `lost` what was flagged by a run that was rolled back |
| `Mailbox` | abstract: letters come, and each is judged once, with an entry or without | refined by `Mail` (`JudgedOnce`) |
| `Inventory` | outbox and runs of the agent, intake and reconciliation | `outbox` is `sync_outbox`; `handler` the intakes in progress; `observed`, `count`, `assigned` |
| `DurableQueue` | abstract: what is produced is kept until it is received | refined by `Inventory` (`DurableUpload`) |
| `AgentReleases` | publication, offer, download, verification, the delayed command, the installer | `release` the folders by version, `file` the downloads, `update` is `update-state.json`, `offer` what the agent has in hand, `launched` commands that wait |
| `Endpoint` | composes the two: heartbeats bring the offers, downloads need the credential, an update stops the inventory runs | both of them |
| `Https` | installations that overlap, each step by step to the restart it starts, configure-ports, the health job | `file` (`fullchain.pem`, `privatekey.pem`), `tls` (the Caddyfile's line), `status` (`status.json`), `served`, `monitor` (in the database) |
| `Deployment` | the packaged program's commands and the two restore scripts, as sequences of steps | `env` (`.env`), `role`, `db` (whose records, which secrets, which schema, whole or not), `backups`, `packages`, `service`, `op` |
| `Accounts` | sign-in, sessions, links, administration, Microsoft identities, recovery | `account`, `sessions`, `links`, `role`; `forms` what administrators have on screen; `inflight` transactions |
| `SlaClock` | `add_operational_minutes` and the calendars, as functions | no state; `Pass` is a round of the loop over days, `passes` the loop, `DayLimit` its limit; `OpenMinutes` is the reference that counts minute by minute |
| `Routing` | `route_incident`, `route_ticket`, and the administration of rules, queues and teams | `rule`, `versions`, `queue`, `team`, `staff`, `inflight` |
| `Desk` | extends both: portal and incident intake, numbering, updates, replies and bulk updates, SLA pauses | `tickets`, `sequence`, `turns`, `settings`, `now` |
| `Telephony` | extends `Desk`: connections, listeners, calls | `connection`, `granting`, `listener`; a call's ticket is a ticket of `Desk` |
| `TicketRegister` | abstract: a register that is only written at its end, with consecutive numbers and one entry per submission or call | refined by `Telephony` (`OneRegister`) |

`MC*` modules give the constants for TLC and add *history variables* where a
property speaks of the past: `settledAs`, `final`, `decided`, `answered` and
`kept` record what stood **once no handler that had read the row earlier was
still to write it**. That qualification is needed: without it the properties
are false of this code, because a handler that overlapped a decision may still
overwrite it. `Accounts`, `Routing`, `Desk` and `Deployment` carry such history
themselves (`removals`, `raced`, `strayed`, `off`, `broken`): each names one
way in which the promise is broken by the code, and the property says that it
is the only way: `removals`, for one, is set by two removals of active
administrators that overlap, and by nothing else. The hazards say so where it
applies.

Conventions: a handler that returns an error changes nothing and is no action
unless it writes something on the way; notices, history rows and audit rows are
left out; names, texts and files are model values or small numbers; time is in
ticks, so that only the order of limits matters. The type invariant `TypeOK` of
a module documents its variables; where a module has proofs, its types are
proved. `TicketApproval`, `Mail` and `Accounts` name their specification and
types after themselves (`ApprovalSpec`, `MailSpec`, `AccountsSpec`,
`MailTypeOK`), so that one proof module can extend several components.

## 3. Runs

| run | instance | shows |
| --- | --- | --- |
| `remediation` | 2 rows (one left "Dispatched" by an old release), 2 overlapping handlers, 1 agent, 2 attempts | only authorised effects; Completed is true; settled is final; no worker that still runs is declared unresponsive; refinement of the contract |
| `remediation_live` | the same with both rows aimed at one target, 1 handler | one open action per target; an approved action is settled or its agent revoked |
| `updates` | a full and a component release, 2 overlapping requests | Installed means applied, backup before install, only newer is installed, no row stays at Installing |
| `chat` | 2 sessions, 2 technicians, 2 messages, 2 handlers | stored once, accepted by the other side, ended is final |
| `approval` | 3 steps, 3 overlapping decisions, 1 reopening | every step approved, decision final |
| `self_service` | 2 threads and the job, 3 versions | only text that stood when it was published is shown, an answer is final, failed suggestions return to IT, offers end |
| `mail` | 2 messages of any kind, both of Microsoft 365 or both of IMAP, 2 attempts, 1 stop or failed run | worker and endpoint are a mailbox that judges each message once, for good (refinement of `Mailbox`); every message of Microsoft 365 handled or left to review, every one of IMAP handled or lost with a run that was rolled back |
| `inventory` | 2 runs, 2 uploads, 2 people, 2 inventories, 1 enrollment; or 4 installers of 3 versions and one inventory | the outbox is a durable queue (refinement of `DurableQueue`), an assignment on record is kept, what is started as a version was published as it |
| `https` | 2 certificates of one authority, 2 installations that overlap, 1 stop or run of Setup | the Caddyfile names files that are there; an expired certificate is replaced, and alerted once while it stays in place; one that is not served is reported, unless runs of the worker are rolled back for ever |
| `deployment` | 6 commands (scripts among them), 2 passwords, 2 releases, 1 generated secret beside the one of another server, 1 stop of the machine | a configured server that was not left broken is usable and reads its credentials, the service runs on its schema, no command of the packaged program takes records without a backup |
| `accounts` | 2 administrators and a new employee, 2 Microsoft identities, 2 roles of which one may give the other, 3 transactions, 2 at a time | an administrator remains, a reset ends sessions, what is saved replaces what was seen |
| `desk` | eight situations, each with a budget of steps of every kind; 2 technicians, 1 queue, 1 rule, 2 connections, 1 call, 2 transactions at a time | rules route to open queues, numbers follow the sequence, the tickets are a register with one entry per submission and call (refinement of `TicketRegister`), a target moves by the time of each wait, once |

**Why these bounds are enough to be interesting.** The hazards need two actors
that overlap, an item to interfere with, and one failure: two threads (three
decisions, so that one may be stale while two others pass a step), two rows,
messages or inventories, one stop. Limits keep the order of the real ones
(remediation: 30 s transport, 90 s child, 60 s stale, 180 s no response become
1, 2, 1, 3). `MaxAttempts` 2 has a first, a last and a repeated attempt.
`MaxVersion` 3 allows a publication and two further edits. The credential is
enrolled once in `inventory`: a second enrollment only repeats the first with
another number (two enrollments with a single run of the agent were checked
separately). `inventory` is looked at from two sides (`side`): inventories
while nothing is published, or the agent's update while it has one inventory;
both sides run the same composed specification. The four installers claim
versions 1, 2, 2 and 3. In `deployment` six commands are enough to configure a
server, export it, lose it, take it over and upgrade it with one failure
between, and for a script to restore over records that came in. In `accounts`
three transactions are one that removes, one that overlaps it and one that
follows. `desk` does not mix all kinds of steps: its `Budgets` are eight
situations (administration alone; administration with intake; overlapping
intake; a ticket that waits, twice, over changed calendars; overlapping work;
calls with edited connections; a call whose ticket is worked on), each with as
many steps as its case needs; calendars have days of three minutes and weeks of
two days, with a calendar that is always open, one that never is, and one that
is open in part; targets are a few minutes, so that `DayLimit` 5 (3700 in the
code) is reached only by the calendar that never is. Symmetry is used only in
runs without liveness properties.

**Fairness**, stated with each specification:

- `remediation_live`: time passes, a running agent goes on polling and working
  (its loop and the Windows service), and a handler that began commits.
- `updates`: time passes, the server is started again (service restart), and
  somebody keeps opening the update list, which is what reconciles rows.
  Nothing is assumed of the installer.
- `self_service`: waiting hours pass, and the worker's time-out step, tried
  every minute, is not overtaken for ever (strong fairness on its begin and
  commit). Only while the feature stays on. (This job has a session and a
  commit of its own, which the later jobs of the run cannot roll back.)
- `mail`: the worker's loop goes on, and it is restarted after a stop. Nothing
  is assumed of the provider, except that no more than `MaxStops` runs end
  because the mailbox cannot be listed or its credential had. A message of IMAP
  may make any run raise.
- `https`: the hourly job runs and goes on, with its run ending in a commit or
  a rollback (one weak fairness condition for both, so nothing says that a
  commit ever comes), and an installation that began goes on, or fails. Caddy
  may fail to start every time. `NotServedIsReported` has a premise of its own,
  that rollbacks end: a later job that raises in every run takes the count of
  failures with it. Nothing of the kind is needed for `ExpiredIsReplaced`.

## 4. Proofs

| module | theorem: what it says |
| --- | --- |
| `Remediation_proofs` | `TypeCorrect`; `NothingRunsUnauthorised`, `EffectsBounded`, `CompletedIsTrue`, `NoResponseIsTrue` and the invariant behind them (`Inductive`); `SettledForGood`: a settled row stays as it is; `OneOpenIfSerialised`: one open action per target; `ImplementsContract`: refinement of `RemediationContract` |
| `Administration_proofs` | updates: `UpdatesTypeCorrect`, `BackedUpFirst`, `InstalledIsTrue`, `NewerOnly`; accounts: `AccountsTypeCorrect`, `AdministratorStays`, `ResetsEndSessions`, `SavesOverSeen` |
| `Tickets_proofs` | approvals: `ApprovalTypeCorrect`, `ApprovalInductive`, `NoStepSkipped`, `InOrder`, `DecisionStands`; intake: `TelephonyTypeCorrect`, `NumbersRun`, `OnePerSource`, `RulesResolve`; `ImplementsRegister`: refinement of `TicketRegister`; SLA: `DueIsReached` and `DateIsGiven`, what `add_operational_minutes` returns for every calendar, and `TargetsMoveByWaits`; mail: `MailTypeCorrect`, `MailHandledOnce`, `SentAgainOnlyAfterStop`; `ImplementsMailbox`: refinement of `Mailbox` |
| `Deployment_proofs` | `TypeCorrect`, `ConfigurationConnects`, `RunsOnSchema`, `RecordsBackedUp`; `ConfiguredWorks`: a configured server is usable; `SecretTravels`: its credentials can be read |
| `LiveChat_proofs` | `ChatTypeCorrect`, `AcceptedByAnother`, `MessagesStoredOnce`, `EndedIsFinal` |
| `SelfService_proofs` | `SelfServiceTypeCorrect`, `PublishedOnly`, `FailuresReturn`, `FirstAnswerStands` |
| `Inventory_proofs` | `TypeCorrect`, `ReleaseTypeCorrect`; `QueueIsDurable`: nothing collected is lost; `ImplementsQueue`: refinement of `DurableQueue`; `OfficialAssignmentStands`; `StartsPublished`: what is launched as a version was published as it |
| `Https_proofs` | `HttpsTypeCorrect`; `NamesInstalled`: the Caddyfile names files that are there; `ExpiryReportedOnce` |

Every safety invariant, action property and refinement of the runs is stated by
a theorem, and so are the types of every component. The theorems hold for any
number of rows, tickets, agents, threads, attempts, steps, releases, commands,
stops, sessions, messages, people, identities, runs, inventories, certificates,
rules, queues, calls and versions, and for every calendar, from the named
assumptions on the constants only: what is finite and what is not empty, and
which constants are numbers. Some say more:

- `LimitsAssumption` and `TimersAssumption` order the limits of remediation.
  `HttpLimit + ChildLimit <= NoResponseAge` is what `NoResponseIsTrue` needs;
  the code has 30 + 90 <= 180.
- `RowsAssumption` of `Routing` says that the forms administrators submit are
  rows, and that a rule which is active in what is given at the start names an
  open queue, as seeding leaves it.
- `ChatAssumption` and `InventoryAssumption` keep the names that stand for nobody
  apart from users, as a NULL column is.
- `OneOpenIfSerialised` has hypotheses of its own: the rows an old release left
  behind have different targets (`LegacyDistinct`), and no two handlers that
  could open an action for one target overlap (`[]Serialised`). Without the
  second it is false of this code, which looks for an open action and inserts
  one without a lock. `remediation_live` checks the property in the instance
  with one handler at a time, so that race is outside both.

*The argument for remediation.* None of the properties is inductive alone. An
agent acts on a reply it got earlier, and a result travels through the network
and through a handler that has read an older row. `IInv` follows a fact along
all the places it can be in:

- *Consent*: wherever an action is (row approved, handler about to commit a
  result, worker, orphaned child, result in flight, effect), it was authorised;
  authorisation is never withdrawn.
- *EffectsWithinAttempts*: effects had and attempts still able to have one are
  paid for by deliveries counted in `retry_count`. Each delivery adds one; a
  crash turns a running attempt into an orphan without changing the sum.
- *Evidence*: wherever a claim of success travels (child's outcome, post,
  handler, row), there was an effect.
- *Freshness*: a worker's clock never runs behind the row's, so a row old
  enough to be given up has no worker left.
- *CreationExclusive*: a row being created by one handler is not touched by
  another.

Each part has its own lemma, with one step per action. The refinement proof
maps every action to a contract step or a stutter, using `IInv` for the guards.
For `SettledForGood` the history variable is tied to the row by *SettledRow*:
once it is set the row has that status, and no handler holds an older copy, so
every handler that begins later reads a settled row and returns early. For one
open action per target, *Vacant* and *Deciding* say that what a serialised
handler saw when it looked for an open action is still so when it inserts.

*For approvals*, a decision in progress may be stale, but the step it read is
never ahead of the approved prefix; with that conjunct `StepsInOrder` and
`ApprovedMeansEveryStep` are inductive. *Recorded* does for `decided` what
*SettledRow* does above; modules with the same kind of history variable (chat,
self-service, inventory) have the same kind of invariant.

*For updates*, `Inv` adds to the types what travels: every release in hand is
newer than the program the server was installed with, and what runs is that
program or an applied release (*Versions*); what a request compared still holds
because the server that runs it cannot have been replaced, and what it backed
up stays on record (*Requests*); a success marker was written by an installer
that put its payload in place (*Markers*). A row becomes Installed on a marker
or on the running version, and either leads to an applied release.

*For accounts*, a transaction has read a row that may be replaced before it
commits. *Alone* says that two transactions in flight for one account put it
among the `raced`; for the others *Planned* says that what a transaction read is
still on record, so that its writes mean what they meant when it was checked.
*Versioned* says that a form shows the account
as it is or has an older version, which the save refuses; that gives
`SavesOverSeen`. `ResetsEndSessions` makes no such exception: the resets of an
account are numbered as they begin, a session knows how many had begun when it was
put on record, and *Ending* says that a reset in flight is about to delete every
session that is older. An
administrator remains for a reason about all accounts together:
*AdministratorIsSafe* says that there is an active administrator whom no
transaction in flight is about to deprive. The guard of the code, another
administrator at the time of the check, establishes it for a single removal;
two overlapping ones are the history variable `removals`.

*For intake*, the sequence of a prefix is read without a lock. *Sound* says that
a transaction about to create a ticket has a number of at most one more than the
sequence, and that one about to change a ticket leaves its number and source
alone; *Listed* that tickets are only added. If another ticket was numbered
meanwhile, the number is taken, and the unique column refuses the commit: that
the tickets of a prefix have the numbers up to its sequence is thus inductive,
and the unique columns of submissions and calls do the same for sources. For
rules, *OnCourse* says that the queue an active rule names is open and that
nobody is about to close it (*Open*), for the row on record and for the one save
in flight; the cases in which the code itself leaves that course are `strayed`.

*For SLA targets*, the loop over days is a recursive function, and what it
computes is proved without an induction scheme: of the days for which the claim
fails there would be a first, and the day before it leads to it. The claim,
*Counts*, is the loop's invariant: after each day, the open minutes from the
start to the day looked at (by the reference, a set of minutes) and those that
remain are the minutes asked for; a day's open minutes are an interval, whose
size is a lemma. `DueIsReached` says that a date that is returned has just the
minutes asked for before it; `DateIsGiven` that one is returned if enough of
the first `DayLimit` days are open (else the code raises, and the ticket is not
created). Of the tickets, *Decided* says what a transaction in flight is about
to write, *OnTime* that the target, less the elapsed time of the waits, has the
open minutes of the policy before it. (The code moves a target by elapsed time,
so after a wait in closed time a ticket has another number of open minutes than
the policy gave, and nothing is claimed of that number.) Two overlapping
updates of one ticket each add a pause to the target they read, and other
handlers end a wait without the clock: such tickets are `off`, also those whose
wait an ordinary reply ended. Of any other ticket *Clocked* says that the
update in flight is the only one, and that it moves the target on record as
`sla_pause_transition` does.

*For the register*, a commit that the unique columns let in has the next number
of its prefix (*NextNumber*) and somebody who has no ticket; every other step
leaves number and source of every ticket alone (*IdentityStays*), whatever else
an update changes.

*For mail*, *Counted* says that a notification has at most one copy more than
the process was stopped, and not even that while it is still to be sent;
*Fresh* that a message which was not handled has no notification, *Batches*
that a message in hand may be tried. `HandledOnce` then rests on the unique
Message-ID. For the refinement of `Mailbox`, *Judged* adds that what is on
record of a message came before: a record is then the judgement of a letter
that waits, and it is never replaced.

*For the agent's outbox*, *Followed* says of every run that the call it waits
for carries the oldest of its rows, or has been answered, and that the server
has the row it is about to delete. Another run may delete the same row first;
it deletes none that was not received. For the refinement of `DurableQueue`,
*Numbered* says that every row, wherever it is held, is of something that was
collected, so what is collected next has a number of its own; a run that the
outbox was emptied under then receives or acknowledges something that is kept,
or changes nothing. *Settled* keeps an assignment on record as long as no
intake in progress read the asset as unassigned (*StaleIntake*). For releases,
*Launching* says that the file of an update that waits to be started is not the
one of the offer in hand, and that the newest version is not offered again
while its own update is recent and still to be started: nothing replaces a file
between its verification and its start.

*For certificates*, *Installed* says that whoever is about to name the files,
or to record a certificate, has put them there or seen them; files are replaced
and never removed: a call that replaced one finds one there, its own or that of
another call (*Replaced*). For one alert per expiry, *Reported* says that once a
certificate was announced, as long as it stays in place, it is the one the
monitor warned of, and a job that is under way carries it along
(*Remembers*). Nothing is said of a certificate that was replaced: a call that
checked it before it expired may put it back, and then it is announced again.

*For deployment*, *Commands* says that no service runs while a command does,
that a server being configured has its role and no configuration yet, and that
an import or an upgrade has one; with it `ConfigMatchesRole` and
`RunsOnItsSchema` are inductive. *BackedUp* says that when an import is about
to restore, the database as it is then is in a backup, since no service writes
to it; a takeover restores over a database without records of this server
(*NotYetOwn*); the scripts do neither, and are named as the exception. *Sane*
says for each step of each command what state the database is in and which
secret it was written with (*Untouched*, *Replaced*, *Moved*, *NotYetOwn*), so
that a command that ends, or fails, leaves a server that is usable. What is not
covered is `broken`: a failure of provisioning, or of the Caddyfile when the
configuration is written; an import or a script that fails once it has begun to
restore; a command that is interrupted; and a script that restores what does
not fit the configuration. The code does not come back to any of these, so
`ConfiguredWorks` says nothing of a server in that state until the next
configuration, takeover, import or script that succeeds.

*For live chat*, an acceptance that was decided concerns a session that exists
and was asked for by somebody else (*Accepting*). Who asked never changes once
the session exists, so the fact survives any overlapping commit, also one that
reassigns the ticket. `StoredOnce` rests on the unique index only. An ended chat
has no overlapping request left that read it as open (*Recorded*).

*For self-service*, versions on record are exactly those up to the article's
(*Numbered*), so a handler that finds its next version free has read the
current one: text and approval are what it read, and the status is too unless
it was archived meanwhile, which makes no version (*ReadBefore*). The unique
constraint on versions thus does the work of a lock. The job's text was
published when it was read, and what was published stays so (*Suggestions*).
That the administrator also *saw* the text is not claimed: the request to publish
names no version, so a text edited after the page was loaded counts among the
`unseen`. A
suggestion is only made where there was none (*Unsuggested*), which, with
*Recorded*, is why a failed one returns to IT and the first answer stands.

**Only model-checked.** The properties under fairness (`ApprovedIsSettled`,
`InstallingIsSettled`, `OfferIsSettled`, `MailIsHandled`, `ExpiredIsReplaced`,
`NotServedIsReported`): liveness and ENABLED are out of the prover's reach.

**What the proofs changed.** Attempts that failed led back to the code in
these places. The health job computes its warning when it reads which TLS line is
configured, before it falls back, and not afterwards: `Https` had it the other
way round. `removals` of `Accounts` counted any two overlapping changes of
administrators; it now counts only removals of accounts that are active
administrators, so `AdministratorRemains` says more. `MCHttps` counts an alert
for every committed run of the job that adds one, also where the monitor stays
as it was. `SlaClock` had a guard of its own for calendars without open time; it
now gives up after `DayLimit` days as the code does, and takes time from a day
only if some is available. `LiveChat` did not say that its "nobody" is no user,
without which an acceptance by the one who asked could be claimed by no one. And
delegation in `Accounts` is a recursive function over roles
instead of a recursive operator, which allows proofs about the module.

## 5. What the models show about the code

Five disagreements between code and text, all behaviours of the models, and
noted with their hazards:

- The last remediation attempt is given up after 60 s while the agent gives its
  child 90 s: a slow success is recorded as a timeout.
- `exit-code.txt` is not removed before a retry, so an update that failed once
  can be recorded Failed again by the old code, and stays so after the restart
  with the new version; `docs/SYSTEM_UPDATES.md:54` says "On restart, Northstar
  records the release as `Installed`".
- The last approval sets the ticket's status whatever it is: a ticket its
  requester had closed meanwhile is put back to work.
- An inventory that is sent again, because its answer was lost, counts as a
  second observation and may assign the asset; `src/endpoint_agent/README.md:11`
  asks for two consecutive observations.
- Publishing names no version: an article that is edited after an administrator
  opened it is published with the edit, which nobody reviewed;
  `docs/ADMIN_GUIDE.md:80` says "review their requester-facing steps, and
  publish them".

Seen while modelling, without a text that promises otherwise (each with its
hazard in `PROJECT.json`): a directory staged by a server that died before
recording it blocks the same package; two sessions of a chat can be opened at
once; bulk updates bypass the guards of single ones; working on a blocked
checklist unblocks it; a heartbeat changes the observed person without
restarting the count; two administrators who remove each other at the same time
leave none; a sign-in that overlaps a password reset puts its session on record
after the others were deleted; two releases that follow each other within
seconds may be installed in the wrong order; the health job records the
certificate it read over a newer one; an import that stops between the restore
and the merge leaves credentials that cannot be read; only `update_ticket` ends
an SLA pause, so the mark of a wait that ended otherwise makes the next one too
long; a target moves by the elapsed time of a wait, also where the calendar was
closed; a rule that is rolled back is not validated; `restore` and
`import-migration` of `database_ops.py`, which the documentation tells
operators to run through scripts, replace the live database and make no backup
of it; a Caddyfile that cannot be written leaves the configuration of a server
that was never completed; two installations of a certificate that overlap may
leave the certificate of one with the key of the other; while a later job of
the worker raises in every run, the certificate monitor never counts to two,
and neither repairs nor reports; the IMAP loop flags a message when it fetches
it and commits at the end of the run, so that when one message raises, those
before it are lost, without attempts and without manual review.

## 6. Plan

Done, in order of weight: remediation (with its contract), updates, approvals,
chat, self-service, mail, inventory and agent releases, certificates,
deployment, accounts, intake with routing, SLA clocks and telephony; all with
proofs.

Next:

1. Workflows edited while a request is pending: the steps as a variable, and
   what approvals recorded so far then mean.
2. `TicketApproval` composed with `EndpointActions` and `Desk`: what closing a
   ticket means for its actions, and one set of status handlers for all.
3. The SLA and retention jobs of the worker, beside `Desk`.
4. Enrollment codes and device matching in `Inventory`.

Theorems worth proving next: abstract specifications for `LiveChat` (a
conversation) and for `Deployment` (records that move with the secret they need),
with refinement proofs like those of `RemediationContract`, `TicketRegister`,
`DurableQueue` and `Mailbox`.

## 7. Not modelled, and why

- Reports, search and dashboards: read-only queries.
- Ticket catalogs, forms and Studio; assets and employees; groups, categories,
  announcements, notification rules: data entry in single transactions on
  single rows, which nothing modelled here decides on.
- SLA and retention jobs of the worker: each marks what it has done in the
  transaction that does it; see the plan.
- Chat notices in Teams: they build links and texts, and keep no state.
- AssetPilot: a vendored program; its bridge imports rows of its database.
- Endpoint agent, collectors, tray and enrollment page: Windows calls and user
  interface; what they report is an input of `Inventory` and `Remediation`.
  Self-repair runs a script and reports what it said.
- The browser client: its requests are the inputs of the models, in any order,
  repeated and overlapping.
- Migrations: generated schema changes, run once; `Deployment` follows the
  schema as a release number.
- The filter that restricts each query to one organization: all modules look at
  one organization.
- Inside the modelled parts: notices, audit, texts, attachments, provisioning
  of senders, matching of employees and assets (any match may come out),
  conditions of rules (the samples they match), child process internals, HTTP
  details, the warning of `caddy_tls.py` about certificate files that cannot be
  read, messages without a Message-ID (dropped as duplicates), time zones and
  holidays of calendars, the one-way copy from SQLite to PostgreSQL,
  `configure-local`, and the Windows side of the installer. Nightly backups are
  those an export makes; that operators stop the service before they run a
  restore script, as it asks, is assumed, since nothing enforces it.

