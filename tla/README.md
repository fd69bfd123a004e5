# The Tazama case-management system in TLA+

TLA+ modules for the backend of the case-management system (`src/backend`, NestJS with Prisma,
Postgres and CouchDB) and for what its web client (`src/frontend`, React) lets people do. The modules
follow a case from the alert that asks for it to its closing and reopening, with the documents it
collects, the process that Flowable keeps of it, the SLA clock, the emails it causes and the figures
reports show of it. TLC checks them on small instances, and TLAPS proves for any number of users,
requests, tasks, files, processes, checks and emails what holds of the case, its documents, the clock
and the queue, the refinement of the case's lifecycle included. Paths below are relative to
`src/backend/src/modules` unless they start with `src/`. `PROJECT.json` maps every definition to the
lines it models.

## Inventory

| component | state | operations | what is hard | what makes it correct |
|---|---|---|---|---|
| Alert intake (`alert`, `process-alert`, `nats`) | `alerts`, the first row of a case | ingest an ALRT or NALT message | three commits per message; depends on `TRIAGE_TYPE` | an alert that asks for a case leads to one |
| Triage (`triage`) | triage tasks, `cases`, `alerts` | manual and AI triage, auto-close, FRAUD_AND_AML split | compensation by hand; a transaction that waits for commits of other connections | no half of a split; what is handed over has its investigation |
| Case creation (`case/services/case-creation*.ts`, drafts in `case/case.service.ts`) | draft, pending and ready cases | create, save, complete, approve, reject, abandon | check, then link in a later transaction; nested transactions | no dead end; one live case per alert and type; every case leads to its alert |
| Investigation groups | `investigation_groups` | upsert, drop | shared by all of the above | every split is a pair |
| Task lifecycle (`task/`) | `tasks` (name, status, assignee); writes `cases` too | assign, reassign, unassign, PATCH, complete, claim | status checks before the transaction, unconditional writes in it | work is always with somebody; the case follows its investigation |
| Suspension (`case/case.service.ts`) | `cases.status`, investigations | suspend, resume | a transaction none of the inner calls uses | a suspended case can be resumed |
| Closure (`case/services/case-closure-approval.service.ts`) | `cases.status`, `final_outcome`, approval and SAR/STR tasks | close, approve, reject, return | several commits per request; auto-claim before other checks | a pending closure can be decided; a verdict is a supervisor's and is recorded |
| Reopening (`case/services/case-reopening.service.ts`) | the same | reopen, approve, reject | `createTask` outside the transaction that calls it | a reopened case offers work; a refused one is as before |
| Permissions (`src/backend/src/utils/rbac`) | none (a JSON matrix) | tier 1, 2, 3 checks | checked against a status that may be stale | - |
| Web client (`src/frontend/src/features`) | what it last fetched | which calls it offers | dead ends depend on it; answers out of order | - |
| Flowable mirror (`flowable`, `events`) | a process instance elsewhere | start, claim, unclaim, finish a task, set the status, terminate | sent inside transactions that may roll back; some calls not awaited | the process waits where the case does; no call is refused |
| Evidence (`evidence`, `couchdb`) | rows and files in two stores | upload, delete, download, verify | no common transaction; an insert nobody awaits; ids made of a millisecond | a row for each file; no file altered or replaced |
| Investigation reports (`report/report.service.ts`) | documents in the same store | generate, edit, approve | read, then `updateDocument` with a revision read anew | an approved report stays locked; its files stay |
| Dashboard and statistics (`report`, `case/services/case-query.service.ts`) | none | status, ageing, workload, trends; lists and links | parallel queries without a transaction; date arithmetic; one scope written three times | figures add up; what is counted can be opened |
| SLA (`alert-priority`, `shared/utils/sla-policy.util.ts`) | `sla_started_at`, `sla_due_at`, escalation records | restart, re-anchor, hourly check | look up, notify, record; read, look up the policy, write; handlers that write the case past it | the deadline follows the clock; a breach is recorded; nobody is chased without end |
| Email queue (`async-task/`) | `async_tasks`; one flag per process | queue, poll, send, retry, reset | no recovery of PROCESSING rows, several processes | nothing is lost or reported falsely, repetitions are bounded |
| Notifications | preferences; feeds the queue | send to a user or a group | - | - |
| Domain events and their deduplication | a window of recent events | - | the deduplicator is constructed nowhere | - |
| Comments (`comment`) | `comments` | add one | decide nothing but an approval, which looks at the latest five | a pending closure stays decidable |
| History, event log, audit; cache; lakehouse queries, filters, admin, users; authentication, guards, proxies, feature extraction; notebooks, docker, migrations | records, queries, settings | - | - | - |

Components interact through the database: the handlers of the case components read and write the
same row of `cases` and the same rows of `tasks`, from any number of concurrent HTTP requests, and
call one another (`suspendCase` calls `updateTask`; closure calls `claimTask` and `createTask`;
`completeCaseCreation` and triage call services that open transactions of their own while theirs is
open). Handlers queue emails by inserting rows that the worker of some process reads later. Flowable
is told of changes; what the rows say never depends on it, but a refusal fails the request that
awaits the call, or ends the process when nobody does. `PROJECT.json` lists, under `hazards`, where
this can go wrong, and which property looks at it.

## Modules

| module | models | state |
|---|---|---|
| `IntakeStore` | alerts, groups, cases and tasks until a case is READY; requests, row locks, time limits, the split | `triageType`, `alerts`, `groups`, `cases`, `tasks`, `req`, `calls` |
| `CaseCreation` | `CaseCreationService`, `CaseCreationApprovalService`, drafts in `CaseService` | |
| `AlertTriage` | `ProcessAlertService`, `AlertService`, `TriageService` | |
| `CaseIntake` | composes them; the properties of intake | |
| `CaseIntakeProofs` | theorems of `CaseIntake` for overlapping, lost and expiring requests | |
| `CaseIntakeSerialProofs` | what `CaseIntake` promises as long as one request at a time is handled: the promises of `IntakeSerial` | |
| `CaseStore` | the rows of one case, roles and tier-2 permissions, requests in flight, row locks, lost requests | `caseStatus`, `caseOwner`, `finalOutcome`, `later`, `tasks`, `newer`, `req` |
| `TaskWork` | `TaskLifecycleService`, `TaskService.updateTask`; the task table of the client | |
| `CaseSuspension` | `suspendCase`, `resumeCase` | |
| `CaseClosure` | `CaseClosureApprovalService`, the transactions of `CaseRepository` it runs | |
| `CaseReopening` | `CaseReopeningService` | |
| `CaseWorkflow` | composes them; all properties of the case | |
| `CaseLifecycle` | the abstract life of a case: stage, holder, verdict | `stage`, `holder`, `verdict` |
| `MCCaseWorkflow` | the symmetry of request slots | |
| `CaseWorkflowProofs` | what holds of `CaseWorkflow` whatever is called, overlaps or is lost, and what overlapping requests of the web client cannot break about a reopening; then what holds as long as one request at a time works on the case: the promises of `SerialUI`, the refinement of `CaseLifecycle` | |
| `FlowableProcess` | the process definition as the backend uses it (external): where an instance waits, what it accepts | `procs` |
| `FlowableMirror` | every handler as the script of its writes and its calls to Flowable | `status`, `owner`, `desk`, `script`, `loose`, `refused`, `odd`, `faults` |
| `FlowableMirrorProofs` | the invariants of `FlowableMirror`, for any staff, instances and calls on their way | |
| `DocumentStore` | the CouchDB database as `couchdb.service.ts` uses it: revisions, attachments, conflicts | `docs`, `rows`, `inserts`, `reqs`, `now`, `calls`, `phase`, `moves`, `died` |
| `Evidence` | `EvidenceService` | |
| `FraudReports` | generating, editing and approving in `ReportService` | |
| `CaseDocuments` | composes them; the properties of documents | |
| `MCCaseDocuments` | the symmetry of request slots | |
| `CaseDocumentsProofs` | theorems of `CaseDocuments` | |
| `CaseTable` | the table `cases` as reports see it; one action per committed change | `cases`, `today`, `changes` |
| `CaseReports` | scopes, `getCaseStatus`, `getCaseAgeing` with its trends | `report` |
| `CaseReportsProofs` | that the scopes of `CaseReports` nest and its figures add up, for any table, windows and bounds | |
| `EmailQueue` | `EmailWorkerService`, `AsyncTaskRepository`, `retryFailedTask` | `row`, `job`, `sent`, `resets`, `faults` |
| `EmailQueueProofs` | theorems of `EmailQueue` | |
| `SlaEscalation` | the clock in `CaseRepository.updateCase` and `createCase`, `AlertPriorityService`, `determineSlaState`, `changePriority` | `status`, `claimed`, `priority`, `started`, `due`, `records`, `mails`, `upd`, `chk`, `now`, `faults` |
| `MCSlaEscalation` | the policy of the instance | |
| `SlaEscalationProofs` | theorems of `SlaEscalation` | |

### How a handler becomes actions

A request is a slot of `req`. A handler is

1. one *Check* action: its last reads, its guards and early returns; it leaves a record of the write
   it owes, with what it has read (`AssignCheck`, `CloseCheck`, ...);
2. one action for every transaction it commits (`AssignCommit`; `SubmitClosure` and
   `RecommendClosure`; `SuspendCase`, then one `BlockTask` per task in any order).

Postgres runs at READ COMMITTED and Prisma's reads take no lock, so a read made inside a transaction
is as stale as one made before it: it belongs to the Check. The exception is a transaction that
keeps a row lock across a commit of another connection. `approveCaseReopening` updates the case and
the approval task and then, before it commits, has `createTask` insert an investigation outside the
transaction; `Holds` makes others wait for those two rows meanwhile. In `updateTask` called by
suspend and resume the read and the write are one action; the gap between them is modelled for the
same function behind PATCH.

`Fail` loses a request between two of its transactions (a crash, a database error, a call to
Flowable or another service that throws). What has been committed stays.

`ViaUI` restricts calls to those the client offers for the state of the rows: buttons and menus of
the case and task screens. `FALSE` allows every call the endpoints accept.

`newer` orders completed investigations by `updated_at`, all that `findCaseWithCompletedInvestigation`
needs to know of time. The order of `tasks` is `created_at`.

`later` counts, while a closure is pending, the comments since the one that recommends it, up to the
five that `validateCaseCompleteness` reads. Every handler that comments then is a `Commented`: an
assignment or release of another task, a suspension, `POST /comment` (`AddComment`, which the client has
a function for and calls nowhere). A comment that speaks of a recommended outcome itself starts the count
again. The priority and the creator that the same function asks for are columns that cannot be null, and
a case without a type is not made READY.

### Abstractions

- Every investigation the code creates is named 'Investigate Case'; the spellings and the 'Fraud' and
  'AML' variants it also looks for belong to no task. 'Complete New Case' tasks, completed before a
  case is READY, are left out.
- Statuses before READY (draft, pending creation) and 99 (abandoned) are `CaseIntake`'s.
- History, notifications, cache, the Flowable calls and their retries change no row of these modules;
  their errors are `Fail`. What the calls do to Flowable is `FlowableMirror`'s. Of comments only the
  number since the recommendation counts.
- `PATCH /task/:id` names an assignee or none: the caller, or whoever the task has, null included
  (`task.service.ts:106`). With null on an unassigned investigation the promoted case keeps the owner it
  has, or none. The client never sends null.
- A screen that shows old data offers what old data allow; the model evaluates the client's guards
  when the Check runs. Stale screens are therefore `ViaUI = FALSE`.
- `POST /task` and `PUT /cases/:id` (set any column) are not modelled: the client does not send them
  for these cases, and any status property would be about the caller.
- A case is made READY with one unassigned investigation, or was auto-closed with no task left:
  `HandsOver` of `CaseIntake` shows which cases start like that, and its exceptions are the cases of
  disabled triage (two investigations) and the parent of an AI split (none). A case that manual triage
  closes, with an outcome, starts where a decided closure ends.

### The email queue

`Tick` is `processEmailQueue` when it finds rows: the oldest `Limit` due ones become jobs, together,
each with the retry count its row had (`Promise.allSettled`). Each job then marks, sends, and
completes or reschedules, interleaved with the others and with the operator's `Reset`. The flag
`isProcessing` is `Busy`. `SendFails` lets the mail server have taken the message all the same.
`MarkFails` and `HandlingFails` are status writes that throw, `Crash` ends a process; the two kinds
are counted by `faults`. Time is one bit per row: whether `next_retry_at` is past. `sent` counts
copies the mail server has taken and is the only part that is not in the code.

### The SLA clock

The clock is the pair `sla_started_at`, `sla_due_at`. The four case components above and this module
write the same row but decide from different columns, so the module has its own, coarser view of the
case: `DRAFT` (00, 01), `READY` (02), `OPEN` (every later open status) and `CLOSED` (7x, 8x and 99),
and whether it has an owner.

An update has two actions. `Begin...` is `updateCase` up to the lookup of the policy: it reads the
priority (or is given one) and takes the time, for an entry into READY; or it reads `sla_started_at`,
for a priority change. `Restart` and `Reprioritise` are the write. `BeginComplete` and `Complete` are
`completeCaseCreation` by a supervisor, which writes READY itself; an assignment, its withdrawal and a
closure write the case directly too (`BeginPlain`, `WritePlain`). Which of them may follow which is
`CaseWorkflow`'s subject; here any may, from the statuses `From` names.

A check is four steps for a case: it reads the row and the time (`StartCheck`, which also decides whether
there is something to escalate), looks up the record (`Lookup`), notifies (`Notify`, `NotifyFails`) and
records (`Record`); `Lost` is a database error or the end of the process. The rows are read and the time is
taken one after the other in the code, and the model takes them together: they differ by milliseconds.
Checks of several processes overlap, and so may two of one process. `now` counts hours. `mails` counts the
emails queued for each state and is not in the code: one for `DUE_SOON`, none for the other two, since
`sendGroupNotification` takes its recipients from `metadata.groupEmails` and `escalate` does not set it. The
policy and the thresholds are constants of the instance; editing them while a case is open is left out.

### Intake and triage

The rows are the alerts, the cases and their tasks; statuses 7x and 8x are one, `CLOSED`, because triage is
the only thing here that writes them. A request keeps in `at` the transaction it owes next. Two handlers
hold row locks while services they call commit on other connections: `completeCaseCreation` (the case) while
`updateTask` completes the task, and `handleManualTriage` (the alert and the task) while `updateCaseStatus`
inserts the investigation and writes the case. The other writers of those rows wait (`FreeCase`,
`FreeAlert`, `FreeTask`), and `Expire` is the five-second limit of Prisma's interactive transactions: the
transaction is rolled back, the inner call goes on. `handleManualTriage` looks for the task in the case that
the alert led to when it checked, and then works on the case that the updated alert leads to, which another
request may have changed: a request keeps the first one in `home` and takes the second one in `TriageLock`.
`Fail` loses a request; `AmlThrows` lets a step of making the AML case fail, which starts the compensation.
`Answers` are the branches of `handleAITriage`; in this build `predictAlert` always says FRAUD and not a
true positive, so that it always closes; the other branches and types (`Predict`) are reached only by
changing it, and are kept because the code is there. Whoever creates, completes or triages a case may ask
for any `CaseType` (`ManualCreateCaseDto`, `UpdateCaseDto`, `ManualAlertUpdateDTO`): a case that is AML
alone has neither a group nor a partner. The FRAUD_AND_AML split of triage, completion and approval is one
operator (`Split`), since each of them is one transaction with the same effect; a completion upserts the
group, and the other two look the alert up, where the code does.

Left out: `TRIAGE_TYPE` changing while requests are in flight; the confidence thresholds; the columns
of an alert that decide nothing; what a request tells Flowable.

### The Flowable mirror

`FlowableProcess` is what the listeners count on: an instance waits at one of the tasks of the process
definition, can be claimed and unclaimed, and a finished task moves it along a gateway that looks at
the variables the backend sets. It is external and says nothing of Flowable's own failures: those are
`Lost`, a call that fails as often as it is tried.

A handler is a *script*: the writes it commits and the calls it makes in the order of the code, each
awaited, retried (and thrown at the end), wrapped in a `try`, or sent without awaiting. `loose` holds
the latter; they arrive in any order, and one that is refused ends the process, for `main.ts` installs
no handler of rejections. One request runs at a time, so that what the next one meets is what was left
behind; it may start while calls of the last one are still under way (`odd` notes that it did, and the
three other ways known to break the mirror). `desk` is who has which open task.

Left out: a start whose answer is lost and that is tried again (two instances); the retry of a manual
closing that half went through; the investigation action of a stale screen; variables that no gateway
reads.

### Documents

A document is its revision, the files its metadata lists, the attachments it holds and, for a report, its
version and whether it is locked, each of which the body of an edit may set (`Bodies`): the body is a
`Partial<FraudReport>` that nothing validates. A field that the copy of a handler lacks stays what it is
(`LockAfter`). CouchDB refuses a write that names an old revision, and an insertion of an id in use;
`updateDocument` reads the revision again before it writes, so it only notices what came in between the two.
A file's content is named by the request that sent it, because each encryption draws a new key, and among
the files of one name in a request by its number: the second of them replaces the first among the
attachments, and the document lists both. The row of an evidence file is inserted by a promise nobody awaits
(`inserts`, `RowArrives`): the primary key is the document's id, so the second file of one upload violates
it, and Node ends the process (`Dies`). `Tick` is `Date.now()`, `CaseMoves` the status of the case that
uploads and reports look at, `Breaks` an error of either store after any call.

Left out: the fields of a report that no other request looks at (`archived`, the texts); deleting a
report through the endpoint for evidence; `autoArchive`, which asks for a view that nothing
creates; encryption; reading and searching.

### Reports

`CaseTable` is the table of cases with what reports look at; each handler is the change it commits.
`getCaseStatus` sends its queries with `Promise.all` and no transaction, so a `report` is a pair of
queries, each answered at its own moment with cases changing between them (`Read`). The figures of ageing
and of the resolution trends come from one query each and are operators of the table (`AgeBuckets`,
`Percentages`, the month buckets). A range (`Ranges`) has a length and ends today or, as 'yesterday' and
'lastYear' do, earlier. A day stands for an instant and `MonthDays` days for a month.

Left out: the volume trend of `getInvestigatorWorkload`; the check of `checkUserCaseAccess` that the user's
id is a UUID, since the columns it is compared with are of that type and the list's own query throws for any
other; status 03, of which the comment at `report.service.ts:1207` speaks and which only `PUT /cases/:id` writes; the AI
closing a case somebody has come to own meanwhile.

## Runs

| run | instance | asks | result |
|---|---|---|---|
| `IntakeSerial` | 2 alerts, 6 calls, one request at a time, client's calls, all triage types, AML cases that cannot be made | dead ends, links, pairs, what is handed over | pass |
| `IntakeOverlap` | 1 alert, 4 calls, 2 requests, any calls, lost requests, expiring transactions | what races cannot break; termination | pass |
| `SerialUI` | 2 investigators, 1 supervisor, 1 compliance officer, 6 tasks, one request at a time, client's calls | dead ends, `ImplementsLifecycle` | pass |
| `SerialLoss` | 1 of each, 2 tasks, 2 verdicts, any call, requests may be lost | what a lost request cannot break | pass |
| `Overlap` | 1 investigator, 1 supervisor, 2 requests, 2 tasks, client's calls | what stale reads cannot break | pass |
| `FlowableMirror` | 1 of each role, 2 process instances, 1 call not awaited, 1 lost call | whether the process follows the case | pass |
| `CaseDocuments` | 1 task, uploads of 1 or 2 files of 2 names, 2 overlapping requests of 3, 2 versions, 2 milliseconds, 2 moves of the case, requests that break off; slots symmetric | what two stores keep together | pass |
| `CaseReports` | 2 cases, 3 changes, 2 users, ranges of 0 and 31 days that end today or 16 days ago, months of 16 days | whether figures add up | pass |
| `EmailQueue` | 3 emails, 1 worker, 2 attempts, batches of 2, 1 reset, 1 fault | delivery, bounds, settling | pass |
| `SlaEscalation` | 2 overlapping checks, 1 update at a time, targets of 1 and 3 hours, 3 hours, 1 fault | clock, ledger, escalation | pass |
| `FiledOnce` | 1 alert, 2 requests | "alert already has a case" | violated |
| `ResumeGoesThrough` | as `FlowableMirror`, no lost calls | "Resumes a suspended case, ... resumes associated task" | violated |

What the passing runs show:

- **IntakeSerial.** One request at a time, a draft has the task its completion needs and a pending
  case what approval and rejection need (`NoDeadEnds`); from every live case its alert can be reached;
  a READY case has one investigation and nothing else, and a closed one nothing; a split has exactly
  one case of either type, even when the compensation ran. Exempted is the AML row left behind when
  making it failed halfway (`HalfMade`): the compensation does not know of it, and it stays READY
  without a group.
- **IntakeOverlap.** Whatever overlaps, is lost or rolled back, an alert that asked for a case still
  leads to one (a half-made AML case is not among this run's faults), and every request ends. A case
  becomes AML because a request or the AI asked for just that, or as the partner of a split: then its
  group exists and holds an older case about fraud, and no case leaves its group (`SplitsHavePartners`).
  That it has that partner to itself does not hold, see the findings. The last property holds
  only by the time limit: triage holds the task while it waits for the case, completion the case while
  it waits for the task.
- **SerialUI.** One call at a time, a resting case always has the rows its next handler looks for: a READY
  case an unassigned investigation; an owner that `closeCase` accepts; a suspended case a blocked
  investigation and an owner; a pending closure an unassigned approval task, nothing else open and its
  recommendation among the latest comments (`NoDeadEnds`). A closed case leaves nobody with work, the filing
  excepted, a confirmed one has its filing, and nothing is closed uninvestigated (`ClosedIsComplete`).
  `ImplementsLifecycle` says that the case row moves only along `CaseLifecycle`: a verdict appears by a
  recommendation or a decision, a rejected closure returns to the same holder, a refused reopening keeps the
  verdict.
- **SerialLoss.** With any calls, and requests lost between two commits, two things are left: status
  and `final_outcome` agree in a closed case (`ClosedAsDecided`, which lets the outcome be missing), and a
  case in work, suspended or pending closure keeps an owner, but for a PATCH that takes it into work and
  says that nobody is the assignee (`KeepsOwner`). The others fail then,
  which the hazards list (an investigation still blocked in a resumed case, a confirmed case without
  filing).
- **Overlap.** With overlapping requests of the client the properties of resting cases fail, as the handlers
  decide from stale reads. Left are that an outcome is recorded before it is needed, that held tasks have
  holders, that a reopening that waits for a decision has an open approval task, that only a supervisor's
  request closes a case, and that an approved reopening leaves its investigation unassigned when it commits,
  although it was visible before.
- **FlowableMirror.** As long as no call fails, the process waits at every open task, nobody but the
  assignee has claimed it (a suspended case excepted), and a finished case leaves no process behind, but
  for those the AI's triage confirmed. Requests in turn are never refused anything, except after a
  request overtook what an earlier one had sent, after the AI's triage (whose "investigate" branch is
  always refused, and whose refutation never tells Flowable), after a suspension by someone else, or when a
  draft is completed by another user than the one it was saved by or sent back to, who keeps the claim of
  its task: that completion, which the client offers, is refused as often as it is tried.
- **CaseDocuments.** Under every name a document lists it holds a file that it lists, so that a name listed
  once is intact (`FilesIntact`): of two files of one name in a request, one is lost, and verifying it
  reports a mismatch. No document's files are replaced, be it by a second upload in the same millisecond or
  by a second report of the same version. An approved report stays locked, whatever overlaps, unless an
  edit's copy says `locked: false`, which only a body puts there (`StaysLocked`); until a process dies,
  every complete document has its row or the row is on its way.
- **CaseReports.** The figures of the dashboard that should agree differ by no more than the rows
  written while it was read, and not at all without any; every open case is in one band of age and the
  shares add up to 100; every case of a trend is in one month, and there are no more months than the
  limit. What an investigator is counted can be listed and opened, but for drafts of others, which the
  link refuses.
- **EmailQueue.** An email reported as delivered was sent, one given up used all its attempts, one
  worker sends at most `max_retries` copies per queueing, and every email settles.
- **SlaEscalation.** Between updates the deadline is the start plus the target of the priority, or
  there is no clock at all, whatever restarts, priority changes and direct writes came before (this
  counts on one update at a time: with two, a priority change that read the start before a restart
  writes the old deadline over it). A `DUE_SOON` record means that an email was queued. The owner of a
  case is chased at most once for each check that can overlap and once for each fault: "never
  re-notifies" would be false, because the ledger is read before and written after. A case past its
  deadline is recorded as breached, unless it is closed or given more time first.

### Bounds

Six tasks in `SerialUI` are the first investigation, a closure with its approval, a rejection that opens a
second investigation, its approval, the filing, and a reopening: every handler's task is created in some
order, and a round after the first. In `SerialLoss` and `Overlap` the calls are many and two tasks are
enough for an investigation next to an approval. Two overlapping requests are enough for every stale read,
since a handler acts on one snapshot. Five comments, the code's own number, are counted. The theorems hold
for any number of each.

In `IntakeSerial` the longest chain is five calls (draft, completion, rejection, completion, approval), and
a sixth belongs to another alert; two alerts let a link or a group be mixed up. In `IntakeOverlap` four
calls make the alert, then complete, triage and approve around each other; one alert is enough to see
how a link is taken away and put back, and the proofs are for any number of alerts, requests and calls.

In `FlowableMirror` a second process instance appears only by a split or a reopening; one call under way is
enough for a request to overtake it. In `CaseDocuments` two requests may overlap and a third finds what they
left; two milliseconds let ids collide or differ, two moves close the case and reopen it. Two files in a
request are the least with one name twice or with a second row (the endpoint takes ten, the client sends
one), two versions the least that can be drawn twice or left out. In `CaseReports` two cases are the least
that a share can be rounded between; three changes create, move and close one; the days are 0 and 31, the
first and the second month's last, with a limit of one bucket; a range that ends 16 days ago ends in the
first month.

In the queue three emails with a limit of two leave one waiting; two attempts are the least with a
retry; one reset and one fault can hit any step. For the clock, a target of one hour lets a case be
breached, restarted and breached again within three; with three hours and thresholds at 4 and 7 tenths
the case passes through AT_RISK, DUE_SOON and BREACHED. Two checks are enough for both orders of every
two steps, one fault can hit any step of either. Every action and disjunct fires in some run.

`CHECK_DEADLOCK FALSE` everywhere but in the clock's runs: a closed case may rest for ever, and the
bounds on calls, tasks, emails, changes and moves stop the rest. Updates of the clock never cease.

### Fairness

None in the modules about people: nothing obliges a person to make a call, and no property of them is
about progress. `CaseIntake` assumes weak fairness of the next step of every request, and of the time
limit of a transaction that holds rows (`Expire`): what a handler awaits is answered or throws, and Prisma
enforces the limit. `EmailQueue` assumes weak fairness of three things: the cron job of a process keeps
firing (`Tick`), a status write or a sending eventually answers or throws (`Attempt`; the mail client has
connection, greeting and socket timeouts), and time passes (`ComesDue`). It does not assume that a
sending ever succeeds. `SlaEscalation` assumes that a check is started as long as there is something
to escalate (the cron fires every hour) and that the calls of a check return or throw; a failure is a
fault, of which there are finitely many. Nothing is assumed of updates: one may stay unfinished.

## Proofs

`CaseWorkflowProofs` proves for any users, requests, verdicts and bounds, with lost and overlapping
requests:

- `TypeCorrect`, `OutcomeAlwaysRecorded`: `Spec => []...` of `TypeOK` and `OutcomeRecorded`, for any calls;
- `OnlySupervisorsClose`: the action property `ClosesBySupervisor`, for any calls;
- `HeldTasksAlwaysHaveHolder`: `Spec => []HeldTasksHaveHolder` for calls of the web client (`ViaUI`). It is
  false for any call: a PATCH may start a task and say that nobody is its assignee.

The inductive invariant `IInv` is the conjunction of the three invariants, the third under `ViaUI`. `TypeOK`
is more than types: its `RequestOK` says what a request in flight carries, which is what each later write
relies on. A request that owes a closing write was checked to be a supervisor's; the task it names exists; a
restored status that is not the fallback means that a final outcome exists. None of that can be read off the
rows once others have changed them, hence it has to be in the invariant. `LatestIsOne` (the latest of a
nonempty set of tasks is one of them) goes through the well-foundedness of `<`. There is one lemma per
handler group and one step per action.

It also proves, for any number of overlapping requests that the web client sends (`ViaUI`), any of
them lost: `ReopeningAlwaysHasApproval` and `ReopenedAlwaysOffersWork`. The argument is
about who may write a row. A row may have changed hands by the time a request writes it, so `RInv` says
at which rows the requests in flight aim: only the decision on a reopening aims at its approval task
(`Aimed`), which is therefore as it was inserted until it is completed (`Untouched`), together with the
status; and only an assignment aims at the investigation that a granted reopening has inserted
(`OfferKept`), which waits for the lock on the case.

Its second part assumes one request at a time (`OneAtATime`), first with any call and any of them
lost. `SInv` keeps for each step a request may owe what its check has read and is still so, and gives
`OwnersStay` and `AlwaysClosedAsDecided`.

It then adds that the calls come from the web client and that none is lost (`Careful`):
`NeverADeadEnd`, `ClosedAlwaysComplete` and `HandlersImplementLifecycle`. None of the three is inductive.
`UInv` says what the rows of a case look like in every status: of the tasks of one name only the last
can be open (`Sole`), and `Shape` which names have one and in whose hands. Within a request the rows have
other shapes, one for each step it may owe (`Flight`); TLC checked `UInv` on the instance of `SerialUI`
before it was proved. A lemma for each action shows that it ends in `Shape` or goes on to its `Flight`.
For the refinement each commit is put down as what it does to the row (`RowMoves`), and every such move
is shown to be a move of `CaseLifecycle` or to show nothing; liveness is not part of the abstract
specification.

`FlowableMirrorProofs` proves all four invariants of `FlowableMirror` for any users, process instances,
calls on their way and lost calls: `OpenTasksMirrored`, `ClaimsMirrored`, `OverIsOver` and
`NoneRefusedInTurn`. They speak of a case at rest, while between two rests a script is half done and what
was sent and forgotten is still on its way; none is inductive. That none is refused in turn
(`NoneRefusedInTurn`) has the exceptions of the run, the completion of somebody else's draft among them.
`FInv` (`CaseFollowsView`) says that as long as no call has failed the case follows a view: its row, and
where its one live instance will be and who will have claimed it once all that was sent has arrived. `Can`
says that the rest of the script leads the view to a rest (`Rest`: each stage of a case, with the tasks it
has open and where its instance waits) or to a call that will be refused; it is a fixed point over the steps
of a script and is shown for every script of every handler when its request starts. `Matches` says that the
instances and the calls on their way amount to the view, in whatever order they arrive: what is on its way
is at most one answer to a closure, a start that follows an ended instance, or the end of an abandoned one,
besides calls that only set a variable. `Lone` says, while each request waits for what the one before has
sent, that at most one call besides those is on its way and finds the instance it is meant for, so that
nothing can be refused. TLC checked `FInv`, with `Can` followed step by step, on two instances, one call on
its way and one lost call before it was proved.

`CaseDocumentsProofs` proves for any tasks, names, requests, calls and ticks `FilesStayIntact`,
`RowsFollow`, `FilesAreKept` and `ApprovedStaysLocked`. As long as the request that created a document is
attaching files, nobody has a list of files to write over it (`Unlisted`); afterwards nobody attaches, so
that any list read is intact with what is held (`OwnFiles`): for each file listed, one of that name is both
listed and held. This is all that two files of one name in a request leave. Both count on one creator
(`OneCreator`) although ids repeat within a millisecond: the id of a deleted document is never drawn
again (`Buried`). That an approved report stays locked needs that evidence is never locked, since both
kinds share one handler of attachments, and that no copy but an edit's says `locked: false`: what
generates a report says nothing of the lock, what approves one sets it.

`CaseIntakeProofs` proves for any number of alerts, overlapping requests and calls, with requests lost and
transactions expired, `IntakeTypeCorrect`, `OneAlertPerCase`, `AlertAlwaysKeepsCase` and
`SplitsAlwaysHavePartners`. A link may be overwritten by a request that read it long ago, and neither
property can be seen to survive that from the rows alone. The fact behind both is that a case is never about
two alerts: its link, its group and every request in flight about it name the same one (`Claims`, `OneAlert`
in `NInv`). So a link that is put back is put back to the right case, and a link is taken away only together
with putting the case in that alert's group, where it stays. `Moves` says once what a step about one alert
may do, `MovesKeepNInv` that such a step keeps `NInv`, and each action is shown to be one. For
`SplitsAlwaysHavePartners`, the FRAUD case that a supervisor's manual creation or the AI's split has made
and not yet paired is known to its own request only, so that no other takes it out of the group or changes
its type (`HalfOK`). The hypothesis `Whole` leaves out the compensation of a split whose AML case fails: it
drops the group without looking, and when a completion that overlapped had taken the link away by a split of
its own, the alert leads nowhere. Both theorems are false then.

`CaseIntakeSerialProofs` proves what the run `IntakeSerial` checks, for any number of alerts, calls and
cases: with one request at a time, of the web client's, none lost and any AML case of an AI split failing
at any of its steps (`Orderly`), `NeverADeadEnd`, `AlwaysLeadsToAlert`, `AlwaysHandsOver` and
`SplitsAreWhole`. The four say something only of the moments between requests, so none is inductive.
`XInv` says three things. A case nobody works on is at rest (`Rest`): a draft, a pending case, one handed
over, or one that is over, each with the tasks that go with it. The cases about an alert nobody is
splitting are a single one (`Solo`), or the two of a split beside their parent (`Pair`). And a request in
flight has its cases in the state that the step it owes starts from (`Flight`), the compensation of a
split included. `Settles` says once what a step about one alert that writes some cases has to show:
how it leaves those cases and that alert; the other cases and alerts stay as they were. That last part
needs `OneSubject`: what is written of one alert's cases is not about another alert. Each action is
shown to be such a step. TLC checked `XInv` on the instance of `IntakeSerial` first.

`EmailQueueProofs` proves for any number of emails, processes, attempts, resets and faults
`QueueTypeCorrect`, `CompletedAlwaysSent` and `FailedAlwaysExhausted`. Its invariant `QInv` is said of
each row and each job: a waiting row has an attempt left (so the count a job carries is less than
`max_retries`), and a job about to report a delivery has made one. `JobStepKeeps` says once what a
step of one job on one row keeps; each action is an instance of it. `CopiesAlwaysBounded` is for one
process (`OneWorker`): with two, both may mail the same row. `CInv` counts what has been mailed against
the retry count: every mail but the one just sent has been charged to the row, or its job is about to.

`SlaEscalationProofs` proves for any policy, thresholds, numbers of updates and checks, hours and
faults:

- `ClockTypeCorrect`, and `DueSoonAlwaysMailed` and `ChasesAlwaysBounded` for finitely many checks.
  The latter two come from `LedgerInv`, a count: as long as there is no record, there is at most one
  email for each check that has queued it and is about to record it, and one for each fault; once
  there is one, no new check gets past the lookup, and the emails together with the checks still about
  to notify are no more than checks and faults. A check about to record has queued its email.
- `DueAlwaysFollowsClock`, for one update at a time (`OneAtATime`). Its `ClockInv` adds what an update
  in progress has read: the start of the clock that the case still has, which only holds as long as no
  other update can restart it.

`CaseReportsProofs` proves all four invariants of `CaseReports`, and `TableTypeCorrect`, for any staff,
rows, changes, days, windows, months and number of months shown: `ScopesAlwaysNest`, `DashboardsAddUp`,
`AgeingsAddUp` and `TrendReportsAddUp`. That the reports and the lists agree is not in their queries alone:
an investigator's refuted case would count as open on the desk and not in the ageing report, and so would a
split container. `RowSound` says why there are none: what the AI refutes is still an untouched draft of the
alert, which nobody owns or works on, and a container is split before it gets any further. That the rows
have their type showed that a rejected alert's case is sent back to the system's user, who is no member of
staff.

A dashboard compares two answers that were read at different times, so that its figures agree cannot be
seen when it is answered. `DInv` compares each with what its query would read now (`Now`): the two sets
of rows differ by at most as many rows as were written since the dashboard was begun (`drift`). An answer
that comes in is what would be read now, which `PairsAgree` shows to be the same rows for both queries of
a pair; a change moves what would be read by no more than the rows it writes (`ChangeMoves`), for which
it must not remove any (`ChangeGrows`). What a chart adds up is how many rows it was made of: a sum of
counts is the number of things counted (`SumOver`), so that `PartsAddUp` is the one fact about sums the
charts, the bands of age and the months of a trend need. That the percentages add up to 100 takes that
fewer than four points are missing (`ShortOf`), and that exactly as many bands as points are missing have
fewer others before them (`Ranked`); both hold for any counts, as the order of the quartiles does for
sorted samples of any size (`QuartilesOf`). Which months a trend shows rests on days
and months being in the same order (`MonthsInOrder`).

The assumptions are those of the modules: roles are disjoint, `NoUser` is no user, verdicts are outcomes,
the marker of a task that is not open (`"none"`) is no user, bounds and targets are natural numbers, a null
timestamp is no time, and `max_retries` and the batch size are positive.

Every safety property that a passing run checks is proved. Only model-checked: liveness
(`EveryEmailSettles`, `BreachIsRecorded`, `EveryRequestEnds`), which is out of the prover's reach. No
module declares a recursive operator and nothing is claimed by induction over data.

## Findings

With a run that shows it:

1. Overlapping manual creations file one alert twice: `manualCaseCreation` and `saveCaseAsDraft` look
   at the alert in one query and link it in a later transaction (`FiledOnce`).
2. After a supervisor has suspended a case, its owner's resumption cannot claim the task in Flowable:
   the case is IN_PROGRESS and its investigation stays BLOCKED (`ResumeGoesThrough`).

Seen while modelling, and not refuted by a run of their own:

- Cases. Five comments by `POST /comment` on a pending closure leave only its rejection. A PATCH with a null
  assignee takes a READY case into work without an owner. An investigator's closure makes its approval task
  in a transaction of its own. With three requests at once, a second recommendation, checked before the
  first was decided, puts the decided case back to PENDING_CLOSURE after the approval task it had made was
  completed with the first: nobody can approve or reject it. A reopening writes status and task together and
  cannot get there. A closed case can become ASSIGNED, because `assignTaskToInvestigator` checks the status
  before its transaction and writes unconditionally. Rejecting the reopening of an auto-closed case closes
  it as inconclusive, because triage writes no `final_outcome`. A closure is approved while other tasks are
  open, though its comment says "All other tasks are completed". Returning a case for review always rolls
  back, having claimed the approval task: it looks for a task name that nothing creates.
- Intake. `completeCaseCreation` and triage of the same draft wait for each other until the limit of
  a transaction; a completion that rolls back after its task was completed leaves a draft that nobody
  can complete; approval and rejection that overlap put a split case back into draft, which, when a
  supervisor completes it as FRAUD_AND_AML once more, is split twice and has two AML cases; triage works
  on the case the alert leads to when it has the lock, not on the one it checked; the compensation
  of a split does not undo what the failing step had made, and the alert keeps pointing at the
  abandoned case; with triage disabled a case gets two investigations; a pending FRAUD_AND_AML case
  leaves the alert unlinked, so that the endpoint lets it be filed again.
- Flowable. Assignment, reassignment and release call Flowable inside the database transaction, and a
  rollback leaves the claim; the AI's triage to investigate is always refused; reopening a case that the
  AI confirmed gives it two live processes of one business key; a rejected closure leaves the new
  investigation unclaimed; a draft saved by one user, or sent back to its creator, cannot be completed by
  another, whose claim of its task Flowable refuses.
- Documents. Two files in one upload end the process; two of one name leave one of them lost and listed; the
  unvalidated body of an edit can unlock a report by overlapping its approval; deleting one attachment
  destroys the document with all of them; editing a report turns its list of files into an object that no
  download reads; a locked report can never be edited, for CouchDB refuses the new version; an edit that
  overlaps an approval takes the report out of the archive again, though the endpoint is to "Approve a fraud
  investigation report and archive it."
- Reports. `checkUserCaseAccess` says "EXACT SAME logic as the dashboard" and leaves DRAFT out;
  the last month of a volume trend ends at the first instant of its last day (`report.service.ts:944`,
  not modelled); a rejected draft
  that nobody owns is on its creator's desk and in no figure of ageing; `getUserWorkloadStats` counts
  auto-closed cases as active.
- Email. Two processes work on the same email: "FOR UPDATE SKIP LOCKED for safe concurrent processing"
  does not hold, as the row locks end with the query.
- SLA. A draft that a supervisor completes becomes READY without a clock, because the handler writes the
  row past `updateCase`: it never has a deadline and the hourly check never sees it. The notifications
  of AT_RISK and BREACHED have no recipients; overlapping updates leave a deadline that belongs to
  neither; records outlive a reopening, so the second breach of a case is silent.
- Web client. The list of cases drops the answer of a request that a later one follows; the view of a
  case and the triage dialog show whatever answer came last: a slow answer about one case replaces
  another case already opened (`ViewCaseModal.tsx:108`, `useCaseDashboard.ts:280`,
  `CaseModalsManager.tsx:495`), and the refresh after a triage fetches with the filters of the moment it
  was submitted (`CaseModalsManager.tsx:164`).

## Not modelled

History, the event log and audit are appended and decide nothing; of comments, only what an approval looks
at is modelled. The cache holds names for messages. Lakehouse
queries, filters, admin and users are single queries and single rows. Authentication, guards and
proxies pass calls on. The event deduplicator is used nowhere. Most of the code is presentation: React
components, forms, tables, DTOs, Swagger decorators and queries written out in the shape of their answers.
The modules model what those decide (which calls are offered, which rows are selected), and their text
and layout have no behaviour to model; so the mapped lines remain a small part of all lines.

## Plan

Done: intake and triage, the case workflow, the Flowable mirror, documents, reports, the email queue and
the SLA clock; the theorems above. Next:

1. Two requests at a time in `FlowableMirror`.
2. Two update slots of the clock, for what overlapping updates leave of the deadline.
