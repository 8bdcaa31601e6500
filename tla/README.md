# Verification of the call → task flow

This directory holds TLA+ specifications of the service in `src/`: telephony calls
are mirrored from Bitrix24, analysed by a model, and turned into Bitrix tasks by an
operator. The specifications are translated from the code; where the code and its
documentation disagree, the specification follows the code and a run shows the
disagreement.

Each `.cfg` is checked with `tlc -config X.cfg M`; each `*Proofs` module and
`DeliveryRefinement` with `tlapm M.tla`. `PROJECT.json` lists the runs, the source
lines of every definition, the hazards, the findings and the theorems.

## 1. The system

Four kinds of process share one PostgreSQL database and talk to Bitrix24 over HTTP:
the API (`backend/router.py`, FastAPI's thread pool, one connection and one
transaction per request), the sync daemon (`backend/sync_daemon.py`), the analysis
daemon (`backend/analysis_daemon.py`), and the migration step that runs before each
container's command (`backend/migrate.py`). A React page polls the API.

All of the interaction between processes goes through rows. PostgreSQL runs at its
default READ COMMITTED: a statement reads what is committed when it starts; a write
or `FOR UPDATE` that meets a row of another transaction waits, and then looks again
at that row but not at what its subqueries had read. Most of what is hard in this
code comes from that.

| Component | State | Operations | Correct when |
| --- | --- | --- | --- |
| Task delivery (`task_delivery.py`, `repository.py`, `router.py`) | `candidate_reviews`, `confirmed_tasks`, `bitrix_task_attempts` | confirm, retry, reject | one delivery of a candidate at a time; decision, delivery status, Bitrix ID and history agree; status moves only forward; no second task; every request ends |
| Call deletion (`repository.delete_call`) | `deleted_calls` and the cascade from `calls` | delete | no delivery for a deleted call; a deleted call is not imported again |
| Analysis worker (`analysis_daemon.py`, `analysis_store.py`) | `calls.transcription_status`, `task_candidates` | claim, persist, mark failed, requeue at start | a call is analysed once; a prediction belongs to its row and is never replaced; no two workers on a call; a claim ends |
| Analysis requests (`repository.request_call_analysis`) | `analysis_requested_at` | request, retry | a queued call is one a worker takes; a request is answered; a failed call can be retried |
| Call sync (`sync_bitrix.sync_calls`, `sync_daemon.py`, `python -m backend.sync_bitrix calls`) | `calls` | upsert of 48 hours by the service, of any number of days by hand, in one transaction each | as for deletion, also beside each other; does not disturb claims |
| Directory sync (`sync_bitrix.sync_directory`, `bitrix/mirror.py`) | `departments`, `operators`, `operator_departments` | upsert, deactivate | an empty answer deactivates nobody; a copy read in one piece is the portal; access and roles follow it; it comes to agree with a portal at rest |
| Task destination (`repository.resolve_task_destination`) | none: a recursive query | find the head of a department or of its nearest parent | it ends on cycles, finds the nearest head, and an inactive department cuts the chain |
| Candidate gate (`analyzer.py`, `task_create.py`, `task_policy.py`, migration 0011) | none: conditions on a prediction | accept or refuse | response model, domain object, SQL `CHECK`s, list and delivery agree; the facts of a complaint are in its transcript |
| Analytics (`repository.get_complaint_analytics`, `analytics_export.py`) | none: five statements | count, divide | percentages lie in 0..100 |
| Sessions (`bitrix_auth.py`, `repository.get_session_user`) | `user_sessions` | sign in, touch | the touched row is locked to the end of the request, which makes the requests of one session serial |
| Bitrix client (`bitrix/bit.py`) | none | `task_add`, paged lists, downloads | an answer with an ID means a task; paging ends and loses nothing |
| Transcript enhancement (`enhance_transcripts.py`) | `calls.transcript` | enhance, fall back to the raw text | what was heard is kept; the row tells how its transcript was made |
| Migrations (`migrate.py`, `deploy/entrypoint.py`) | `schema_migrations` | apply | the application serves on the complete schema only; scripts keep their order, whatever crashes or runs beside; it comes to serve |
| Frontend review flow (`App.tsx`, `TaskReviewModal.tsx`, `OwnCallsPanel.tsx`) | the lists on the page, the open modal, disabled buttons | load, poll, confirm, retry, reject, analyse, delete | one decision under way, with the buttons disabled just as long; no read brings a decided candidate back as undecided; nothing stale stays while the page polls |
| Frontend presentation, export layout, static files, containers | — | — | not state of the system |

How the components meet:

- **delivery × delivery**: requests of different sessions race on the same
  candidate. The status is read without a lock, the rows are written under one.
- **delivery × Bitrix**: `task_add` is sent in the middle of the transaction, before
  anything is committed.
- **delivery × deletion**: the delete cascades from the call to the rows the
  delivery holds.
- **delivery × analytics**: two statements of a reader on either side of a commit.
- **worker × worker**: by the claim (`FOR UPDATE SKIP LOCKED`) and by the requeue
  that runs when a worker starts.
- **worker × API**: a request or a deletion while the recording is being analysed,
  which takes minutes and happens outside any transaction.
- **sync × everything**: one transaction locks the rows of 48 hours, or of the days
  that a manual sync was given, while it reads page after page from Bitrix; nothing
  keeps the two syncs apart but the rows that both write; and the trigger on `calls`
  moves `updated_at`, by which the requeue judges claims.

- **portal × directory sync × access × destination**: the copy of the directory is
  put together from pages of different moments; sign-in, the role of each request
  and the destination of each task are read from it.
- **migrations × worker × backfill × delivery**: the worker is started when the
  application serves; scripts, worker and backfill write the same columns of a call,
  and list, gate and `CHECK`s judge the candidate that results.

- **page × server**: the page polls while a call is queued, and sends requests whose
  answers can overtake the answers of polls sent before or after them; whatever modal
  is open by then is not the one the request came from.

The hard behaviours are the entries of `hazards` in `PROJECT.json`, each at the line
where it bites and with the properties that would show it going wrong.

## 2. Modules

| Module | What it is |
| --- | --- |
| `Delivery` | confirm, retry, reject and delete as transactions with row locks; Bitrix; the attempts |
| `CandidateLifecycle` | the abstract specification of `Delivery`: the life of a candidate, one step per request |
| `DeliveryAnalytics` | `Delivery` and a reader that counts in two statements |
| `DeliveryProofs` | type correctness and safety of `Delivery` |
| `DeliveryRefinement` | `Delivery` with one session implements `CandidateLifecycle` |
| `MCDelivery` | symmetry for the runs of `Delivery` |
| `AnalysisQueue` | sync, workers, analysis requests and deletions on `calls` |
| `CallLifecycle` | the abstract specification of `AnalysisQueue`: a call and the worker that owns it |
| `AnalysisQueueProofs` | type correctness and safety of `AnalysisQueue`, and that it implements `CallLifecycle` |
| `MCAnalysisQueue` | symmetry for the runs of `AnalysisQueue` |
| `Destination` | the recursive query for the head responsible for a task |
| `DestinationProofs` | what the query finds, in any table of departments |
| `Directory` | the Bitrix portal, its copy, sign-in and destinations (EXTENDS `Destination`) |
| `DirectoryProofs` | type correctness and safety of `Directory` (EXTENDS `DestinationProofs`) |
| `MCDirectory` | a portal of four departments and three users, and what may happen to it |
| `TaskPolicy` | what becomes of an answer of the model: the rules of six places |
| `Startup` | the migrations, in several processes |
| `StartupProofs` | the invariant of the migrations |
| `Deployment` | one call from the migrations to its delivery (EXTENDS `TaskPolicy`, `Startup`) |
| `DeploymentProofs` | type correctness and safety of `Deployment` (EXTENDS `StartupProofs`) |
| `MCDeployment` | the name of the scripts of its run |
| `ReviewPage` | an operator's page, its requests in flight, and the server as it sees it |
| `ReviewPageProofs` | type correctness and safety of `ReviewPage` |
| `MCReviewPage` | a page with one call in the queue and one to decide on |

### Delivery

The committed rows are one function per column (`review`, `task`, `item`,
`attempts`, and `live` for the call and its candidate). A request has a place
(`pc`), what it was asked (`job`), the status it read (`seen`), what Bitrix returned
(`answer`) and the row locks of its transaction (`held`). `db.connect()` commits
when the handler returns and rolls back when it raises, and
`connection.transaction()` inside a handler is a savepoint of that transaction. So
row writes are published by one action at the end (`CommitDelivery`, `CommitReject`,
`CommitDelete`), and what others meet before are locks. The tests that PostgreSQL
makes when it gets a lock (the primary key of `candidate_reviews`, the foreign key
to the candidate, the `WHERE` of an `UPDATE`) are in the action that takes it.

| Action | Code |
| --- | --- |
| `Arrive`, `Authenticate` | the route and `current_user`, whose `UPDATE user_sessions` keeps the session's row |
| `CheckStatus` | `get_candidate` and the checks of `deliver_candidate`, `prepare_confirmed_task`, `reject_candidate` |
| `InsertReview`, `UpdateTask` | `prepare_confirmed_task`, first delivery and retry (also the reject of a pending candidate) |
| `UpdateReview` | `reject_candidate` of a failed one |
| `LockCall`, `DeleteRows` | `delete_call` and the cascade |
| `Send` | `task_add`: created or not, and a result, a `BitrixError`, or another exception |
| `CommitDelivery` | `finish_task_attempt` and the commit |
| `CommitReject`, `CommitDelete` | the commit of the others |
| `Abort` | anything that ends a handler before its commit |

Left out: the text of the task, departments and responsible persons
(`resolve_task_destination` either finds one or ends the request, which `Abort`
covers), priorities, users without access (refused without a change). `Deliverable`
stands for what the concrete-complaint gate lets through. The n-th `task_add` for a
candidate has number n and the task it creates has that ID, so that "which call made
which task" can be asked.

### AnalysisQueue

A call of `Calls` is a Bitrix statistic ID. `row[c]` is the primary key of its row,
0 when there is none; a call that is deleted and imported again gets the next one.
Jobs and requests carry the key they saw, as the code carries the UUID. The service's
sync and manual ones are `Syncs`, each with a transaction of its own: it is `open`, has
calls still `todo`, one `upsert` whose `INSERT ... WHERE NOT EXISTS` has taken its
snapshot, and the rows it has `written`, for which the others wait. The window of the
service is 48 hours, that of a command any (`InWindow`). Theirs are the only
transactions that hold locks from one action to the next (`Locked`). All other
transactions touch one row of `calls` and are one action, or two where a value read
before the wait for the row is used after it: `Ask` takes the snapshot of `EXISTS
(task_candidates)`, `Queue` has the row. Time is `age` (in the lookback window of
the worker, of the sync, of none) and `stale` (`updated_at` is older than the stale
minutes), both of which only grow; every write of a row makes it fresh.

| Action | Code |
| --- | --- |
| `SyncOpen`, `SyncCheck`, `SyncWrite`, `SyncCommit`, `SyncFail` | `main` of `sync_daemon` and of `sync_bitrix`, `sync_calls`, `_upsert_call` |
| `Start` | `main`'s `_requeue_stale_calls` |
| `Claim` | `_claim_next_call`: the guard, the order, `SKIP LOCKED` |
| `AnalysisFails`, `Persist`, `PersistRefused`, `ReadBack` | `process_next_call` and `persist_call_analysis`, whose transaction is committed before its last read |
| `MarkFailed`, `MarkFailedRaises` | the `except` of `process_next_call`: without a row it raises and ends the process |
| `Crash` | a kill; the container is restarted (`Start`) |
| `Ask`, `Queue`, `QueueRefused`, `Delete` | `request_call_analysis`, `delete_call` |
| `GrowStale`, `GrowOld` | time |

`CallLifecycle` is what the queue is for, without rows, locks, times or a sync: a call
is absent, pending, processing, completed or failed, and has one owner or none. A
worker takes a pending call and owns it; the owner alone completes or fails it; only a
call whose owner was lost is put back. In `AnalysisQueue`, the owners of a call are
the workers whose job is its present row and who have neither stored nor given up.

Left out: the content of recordings, transcripts and predictions; operators (any
user without access is refused without a change); `bitrix_call_id` and the other
columns of an upsert.

### Directory and Destination

The portal is part of the model: its departments form a forest (`Forest`), may be
added, changed and closed, and its users, who are in departments that exist
(`Housed`), come and go, between any two pages. `department`,
`operator` and `member` are the tables. A syncer has the lists it has read so far
(`fetch`), and at the end writes them in one transaction. A page is the entries from
an offset on, in the order of their IDs, of the list as it then is; so a closed
department moves the next one before the offset, and it is never read. The daemon
and one `python -m backend.sync_bitrix directory` run at the same time. Their
transactions both write the row of the scope department and are serial from there
on, so each is one step; it is rolled back whole (`Refuse`, `Fail`). A sign-in is two
statements, and a sync may commit between them: the first finds no active operator
for a listed bypass user (`SignIn`), the second makes the row a supervisor's whatever
it has become since (`UpsertSupervisor`).

| Action or operator | Code |
| --- | --- |
| `ReadDepartments`, `ReadUsers`, `Page`, `More` | `iter_departments`, `iter_users`, `iter_list` |
| `SyncedDepartment`, `SyncedMember`, `SyncedOperator`, `Role`, `Dropped`, `Commit` | the transaction of `sync_directory` |
| `Refused`, `Refuse` | a list without the scope department, the `CHECK` on names, the foreign keys; the `except` of `sync_daemon.main` |
| `Fail` | any other error of a cycle |
| `SignIn`, `UpsertSupervisor`, `Supervisor` | `open_bitrix_session`, `upsert_bypass_supervisor` |
| `CurrentUser`, `Supervises` | `get_session_user` and `get_operator_by_id`, `_require_supervisor` |
| `Origin`, `Resolve`, `Chain`, `Responsible` | the two statements of `resolve_task_destination` |

`Chain` is a recursive function over depths, as the query is; `NearestHead` says
what it is for without depth or query, by the least set of departments passed on the
way.

Left out: names and labels (a request for a label or for the default department is a
request for one of `Requested`), which of the memberships is primary, sessions as
rows (a session from any time is taken to be live: its expiry only takes access
away), the calls synced in the same cycle.

### TaskPolicy, Startup and Deployment

`TaskPolicy` is the pure part: an answer of the model is a record of the fields that
any rule looks at, a text a phrase, nothing, white space or punctuation, and a
transcript the set of the phrases in it. The rules are in six places, each with a
definition: `Valid` (the response model), `Grounded` (the spans), `Accepted` (the
domain object), `Admitted` (the `CHECK`s of five migrations), `Offered` (the list),
`Concrete` (the gate). A `CHECK` is three-valued: it admits a row for which it comes
to NULL (`TypeCheck`, `ConcreteCheck`). Ten task types with the same rules are one,
`"classified"`.

`Startup` is `migrate()`, statement by statement: `List` reads the records once,
`Execute` is the transaction of a script, `Record` the `INSERT`. `executed` is what
the database is, `recorded` what its table says. A script that is executed a second
time fails, except the ones that only replace a row or a view (`Repeatable`). `Stop`
is any exception: the container starts again, a command does not. What a process has
read is forgotten when it leaves `migrate()`.

`Deployment` puts a call into it. `Upgrade` is what script 0010 does to its row;
`StartWorker` is `depends_on: service_healthy`; `Analyze` is a whole job, with any
transcript, any result or failure of the enhancement and any answer; `Select`,
`RecordSuccess`, `RecordFailure` are the two transactions of a backfill; `Deliver`
and `Reject` are one step each (their interleavings are the subject of `Delivery`).
The call is new or was analysed by an earlier release, with the columns that the
executed scripts give it. `heard` remembers what was transcribed.

| Action | Code |
| --- | --- |
| `List`, `Skip`, `Execute`, `ExecuteFails`, `Record`, `Finish` | `migrate()`, `entrypoint.main` |
| `Interrupt` | a lost connection or a kill between two statements |
| `Analyze`, `Refusal`, `Store`, `Unanswered` | `process_next_call`, `_enhance_with_fallback`, `AnalyzeText.analyze`, `persist_call_analysis`, `mark_transcription_failed` |
| `Request` | `request_call_analysis` |
| `Select`, `RecordSuccess`, `RecordFailure` | `enhance_existing_transcripts` |
| `Deliver`, `Reject` | `deliver_candidate` behind `_require_concrete_complaint`, `reject_candidate` |

Left out: descriptions, priorities and lengths of texts, models' names, and the
scripts' other effects.

### ReviewPage

The state is what `App.tsx` keeps (`ownCalls`, `candidates`, `reviewCandidate` as
`review`, `reviewBusy` as `busy`, `requestingCallId` as `requesting`), what is in
flight (`polls`, `requests`), and the rows of the server that the page is about. A handler
is one action up to its `await` and another from there on. React renders some time
after a list was set (`changed`), and only then does the polling effect clean up and
run again (`Effect`); until then an answer to an old poll is still `active`. A poll
is two requests that read at two moments.

A request is a transaction of the page's session. It takes the row of the session
(`txn`), looks at a status (`Look`), waits for the rows that it writes, and is ended by
what it finds there: by an error (`Raise`), by a commit and then an answer
(`CommitAndAnswer`), or by the answer and then the commit (`AnswerFirst`, `Commit`),
which may fail (`CommitFails`). The commit is the exit of a yield-dependency
(`router.py:66-68`), and which of the two comes first depends on the version of
FastAPI; `requirements.txt` permits both. The reads of a poll take the row of the
session too, so each waits for the end of a request that has it. Other sessions do not
wait for that row: a request of theirs looked at some earlier time (`failed` remembers
which candidates had failed by then) and meets what the page's request has locked, so
that finding 1 happens here as well (`Others`, and `Written` with the status in
`txn.seen`). Of finding 5 the page sees that a completed call is called failed
(`Misjudge`). The row of the session is the one of a cookie; with `DEV_BITRIX_USER_ID`
there is none, and that mode is not modelled.

| Action | Code |
| --- | --- |
| `ReadCalls`, `ReadCandidates`, `Answer`, `ReadFails` | the `Promise.all` of the load and of a poll |
| `Effect`, `Tick` | the polling effect and its interval |
| `Open`, `Close` | the list and the modal, with Escape, backdrop and cross |
| `Decide`, `Decided` | the buttons of the modal; `handleConfirm`, `handleRetry`, `handleReject` after the answer |
| `Analyse`, `Analysed`, `Delete`, `Deleted` | `handleRequestCallAnalysis`, `handleDeleteCall` |
| `Look`, `Raise`, `CommitAndAnswer`, `AnswerFirst`, `Commit`, `CommitFails` | `current_user`, the route's handler, `db.connect()` and the answer |
| `Break` | the connection breaks before or after the request is looked at |
| `Work`, `Misjudge` | the worker |
| `Others` | decisions, requests and deletions of other sessions |

Left out: the supervisor's page, the transcript modal, filters, texts, the start of a
session and a reload.

All state modules also hold variants of a few definitions with a slip that a change
to the code could make (a dropped condition, a missing lock), in front of the
definition or in a section of their own. None is part of `Next`; they are there to
confirm that each property notices when the corresponding code goes wrong.

## 3. Runs

| Run | Question | Result |
| --- | --- | --- |
| `delivery_sessions` | three requests of any kind from two sessions on a candidate, fair | deliveries exclude each other and deletions; rows and history agree with each other and with Bitrix; every call of `task_add` is recorded unless its request breaks off; no mix of requests deadlocks, each ends |
| `delivery_one_session` | four requests of one session on two candidates, one of them not deliverable | one recorded task or a rejection; implements `CandidateLifecycle` |
| `delivery_race`, `delivery_percent` | | findings 1 and 2 |
| `queue_overlap` | two workers that overlap, overrun and lose connections, a kill, three requests, the service's sync and a manual one beside it, re-imports | an analysis is made once, kept, and of its row; a settled deletion is final |
| `queue_service` | two workers, no overruns, no lost connections, one kill, two requests, fair | implements `CallLifecycle`; a call with a prediction is completed; every request is answered unless a worker is killed |
| `queue_reimport`, `queue_stuck`, `queue_no_retry` | | findings 3 to 5 |
| `directory` | a sync service and a manual sync read a portal of four departments and three users that changes twice between pages of two entries, with failures, sign-ins and deliveries, fair | a copy read without a change is faithful, and access follows it; torn copies never give access to anybody not read in the scope department or on the bypass list, and never lock everybody out; every table that results, with its cycles and inactive parents, leads to the nearest head; the copy comes to agree with a portal at rest |
| `deployment` | two processes migrate three scripts from any earlier state, with a kill or an edited file at any point; a worker gets any of the model's answers; two backfills; deliveries, fair | the application serves on the complete schema only, and comes to serve unless a script was torn from its record; the rules for an answer agree; the raw text and the grounding of complaints are kept; the list offers what the delivery takes |
| `review_page` | an operator's page while a call is analysed and another decided, with answers before and after the commit, and two events (requests of the page and of others, broken connections, failed commits) in any mix, fair | one decision at a time and the buttons disabled just as long, whatever is closed, opened or lost; no read that begins to look after an answered decision shows the candidate as undecided; a call does not stay "in the queue" on the page; a stale candidate is put right while the page polls |

**Bounds.** `Requests` is finite because each request is made once. A race on a failed
candidate needs a delivery that fails and two requests that meet: three. A request
locks rows of its session and its candidate only, so a second candidate adds waits
only through a shared session, which the one-session run has, with a fourth request to
follow up. `Ids` goes to one more than there are syncs: a call that was deleted is
imported again only by an upsert past its check of `deleted_calls`, of which each sync
has one at a time and, after the first tombstone, never another for that call.
`QueueTypes` proves that there are no more, so this bounds nothing. `queue_overlap`
has the service's sync and a manual one, which is what it takes to delete a
re-imported call and import it a third time; the others have the service's. The
queue's runs have one call, because every one of their questions is about one row; the
order among calls (`Precedes`) is in the model and decides which call a claim takes.
`MaxCrashes` bounds kills: with one, a worker dies at any point while the other goes
on. In the `directory` run two changes are enough for a torn copy: one moves the list
under the offset, or moves a department, the other undoes what was read; department 2
moved from 4 to 3 and then 4 put under 2 give the cycle when 2 was read before and 4 after. With pages of two entries the departments
are on two pages, between which the list can move, and a third user makes a second
page of users. `MaxDepth` is 3, the longest way between four departments, as the
code's 50 is meant to be longer than any way up; one that is longer is
cut off, and `FindsNearestHead` excepts the departments that have one. On a cycle the
depth only repeats departments that have been seen. In the `deployment` run script 1
stands for the repeatable ones, 2 for 0010, 3 for 0011; two phrases and the criteria 1
and 21 give every distinction the rules make; one fault is a kill or an edited file.
In `queue_service` no job overruns and no connection is lost, since with either its
properties are false (finding 5 and the end of section 5 on `AnalysisQueue`);
`queue_overlap` has both. With one call in the queue's runs, starvation among calls is
not exercised. In the `review_page` run there is one poll in flight beside the load,
which is enough for an answer to overtake a decision, and two events, which is enough
for two decisions, or a decision and the colleague, the lost connection or the failed
commit that gets in its way. The page begins with one call in the queue and one that
has a pending candidate (`First`), and the operator deletes the first only
(`Deletable`). The safety properties of these modules are proved for any number of
candidates, sessions, requests, calls, workers and kills, except where section 5 says
otherwise.

**Deadlock.** The `directory` run checks it. The others do not: when every request was
made and every call is old, or the call is rejected and the application serves, or a
page has nothing to poll for and nobody clicks, the models really stop. That requests
do not wait for each other for ever is `RequestsEnd`, under fairness.

**Fairness.** `Delivery`: weak fairness of each request's next statement. PostgreSQL
gives a free lock to a waiter, and `task_add` ends because its socket has a timeout.
Nothing else runs in a loop there. `AnalysisQueue`: weak fairness of the steps of each
sync once open (Bitrix answers or the sync fails) and of time; strong fairness of a
worker's start, claim and job steps and of a waiting request, because the row they
need is locked again and again by syncs, between which `main()` waits at least a
second, in which a waiting statement gets its row. `Directory`: weak fairness of the
service's next step; the loop of `main()` starts a cycle after every one.
`DirectoryConverges` assumes in addition that cycles cease to fail and that each user
has a name. `Startup`: weak fairness of each process's next statement; Docker starts
the container again. `ComesToServe` assumes that no script is torn from its record and
no recorded file was edited; in both cases the code refuses to serve, by design or for
want of a transaction around the two. `ReviewPage`: weak fairness of the reads, of the
rendering and of the interval, since the browser ends each request with an answer or
an error and runs timers and effects in its event loop; and of the end of a request
that has the row of the session (`Ending`), which is what `RequestsEnd` says of it.
Nothing else is assumed of clicks: a request may never be looked at, an answer never
be handled. No fairness is assumed of the worker as the page sees it, of the arrival
of requests, sign-ins, answers of the model, backfills, the opening of a sync,
failures, kills or the age of calls. `RequestIsAnswered` depends on requests being
finitely many: the claim takes the latest request first, so an endless stream of new
ones would starve an old one.

## 4. Findings

1. **A second outcome** (`delivery_race`). Reject and retry check the candidate's
   status before they wait for its rows and not after. When another session's retry
   was successful meanwhile, a reject turns a candidate with a task into a rejected
   one, and a second retry resets the row and sends a second task.
2. **A percentage above 100** (`delivery_percent`). The analytics divide counts of
   two statements; a deletion in between makes the response fail its validation.
3. **A deleted call comes back** (`queue_reimport`). The upsert's `NOT EXISTS
   (deleted_calls)` is evaluated before it waits for the row that is being deleted.
4. **Processing for ever** (`queue_stuck`). The requeue runs at the start of a
   worker only, for claims older than 30 minutes; a worker killed and restarted at
   once leaves a call that no worker takes and no request may queue.
5. **A failed call that cannot be retried** (`queue_no_retry`). The read after the
   commit of `persist_call_analysis` can raise; the completed call is then marked
   failed, and its retry is refused because it has a candidate. A second worker that
   took over a job that overran does the same with the `ConflictError` it gets.

Some behaviours are not the subject of a run of their own. The properties are stated
around them:

- `task_add` is sent before anything is committed, and only `BitrixError` is caught: a
  timeout while the response is read, or a crash, rolls back everything but the task
  in Bitrix. `migrations/README.md` promises a row for "every Bitrix task delivery
  attempt"; `EveryDeliveryRecorded` excepts the requests that broke off.
- `handleConfirm` shows "Задача создана" also for a candidate that came back `failed`
  (`App.tsx:463`), where `handleRetry` looks at the status. Notices are not modelled.
- A title of white space passes the response model and makes `TaskCandidate` raise
  (`task_create.py:81`), so that a call whose answer has one fails (`"untitled"`).
- A user of the scope department without a name makes every directory sync fail
  (`CHECK` on `operators.display_name`), and with it the call sync of that cycle,
  until the portal is corrected (`Sound`).
- After a crash between `migrate.py:49` and the `INSERT` that follows, a script that
  cannot be repeated fails at each start: the application does not serve until
  somebody records the script by hand (`Torn`). The order of the two at least keeps
  the raw transcripts (`HeardIsKept`).
- The answer to a decision closes whatever modal is open, also one that the operator
  has opened in the meantime (`Decided`).
- A poll that read before a decision and is answered after it shows the candidate as
  open again. The next poll puts that right; when that answer also ended the polling,
  the candidate looks open until the page is loaded again (`StaleIsRepaired` has the
  second case as an alternative), and a decision on it is refused by the server.
- With a version of FastAPI that ends its dependencies after the response (0.118 and
  later; `requirements.txt` has a lower bound only), the answer to a decision leaves
  before its commit. When that fails, the page shows what has not happened, until a
  poll that reads later (`CommitFails`; `DecisionsAreRead` is about all other answers).
- The two reads of a poll may be on either side of the end of an analysis. When the
  one of the calls is the later, polling ends without the new candidate.

Beside these, a transport error whose outcome is unknown is stored as a failed
delivery, although Bitrix may have created the task (`Send` has that outcome); a
retry then creates another. No code on this side could exclude it without asking
Bitrix.

## 5. Proofs

The proofs hold for every value of the constants that satisfies the named assumptions
(`DeliverableAssumption`: `Deliverable` is a set of candidates; `QueueAssumptions`:
calls are natural numbers, `None` is none of them, the syncs are finitely many and the
service's is one of them, the bounds have their types; `DirectoryAssumption`: finitely
many departments and users, a valid portal at the beginning; `PolicyAssumption`,
`StartupAssumption`, `DeploymentAssumption`: phrases are not blank, criteria and
scripts are numbers, 0010 is not repeatable; `PageAssumptions`: no call is none, the
load is not a poll, the first statuses and the bounds have their types). Beyond these
there is no assumption on finiteness or on how many sessions, requests, workers or
calls there are.

**Delivery** (`DeliveryProofs`). None of the properties is inductive by itself. The
argument: each request has, at each place, certain rows locked (`RowsHeld`); locks
of two requests never conflict (`Exclusive`); so what a request found when it got
its rows is still there when it sends and commits (`RowsFound`); therefore the
commit keeps the rows in agreement (`RowsAgree`). `RowsInv` is the conjunction with
`TypeOK`, and gives `OneDeliveryAtATime` and `NoDeliveryForDeletedCall`.
`DeliveryInv` adds that the call a request has made is the latest of its candidate
(`AnswerIsLatest`), which a commit needs to keep `HistoryIsTrue`.
`EveryDeliveryRecorded` compares two numbers, and neither of them says which call is
whose; `RecordedInv` adds that the unrecorded calls of a live candidate are never more
than the requests that sent one and have not committed. A `Send` adds one to both, a
commit takes its own from both, and a request that breaks off stays in the second.
That the requests which have started are finitely many is part of the invariant and
not assumed of `Requests`.

**Refinement** (`DeliveryRefinement`). With at most one session (`OneSession`), a
request holds the session's row from its authentication on, so only one is past it,
and the status it read still holds when it commits. Each commit is then a step of
`CandidateLifecycle` and everything else a stutter. With two sessions it is false:
finding 1 is its counterexample. From the same invariant comes `OneOutcome`: only
the last attempt in a history can be a success (`OutcomeInv`), and a commit adds an
attempt, or a rejection, to a candidate whose task is not created.

**AnalysisQueue** (`AnalysisQueueProofs`). `QueueInv` adds to `TypeOK` what is true of
each call by itself (`CallOK`): its row has the last ID given out, a call without a
row has no prediction and, if it ever had one, a tombstone; a call without a tombstone
was imported once at most; and of one with a tombstone the imports and the upserts
that are past the check (`Upserts`) are together no more than one and the number of
syncs. The last part is what makes the bound on `Ids` inductive: a tombstone is never
removed, so that there are no new upserts of the call, and each import uses up one,
whichever syncs run beside each other. That a prediction is of its row needs the job's
ID (`JobOK`). From the invariant follow `TypeOK`, `AnalyzedOnce`, `PredictionOfItsRow`
and the action properties `PredictionIsImmutable` and `DeletionSettles`.

`JobsAreApart` has the hypothesis that no job overruns (`~Overruns`), which is what
the 30 minutes of the code assume; without it the requeue gives a call to a second
worker while the first is still at it, as the run `queue_overlap` has it. The
invariant is the reason why the claim is safe: the row of a job, as long as it is
there, is completed, or in processing and not stale (`JobKept`). Then the requeue
passes it over, no claim finds it pending, and a delete and an import give the call
another ID, so that no job is of the new row. `PredictedIsCompleted` needs in addition
that no connection is lost between the commit and the read after it
(`~ConnectionLoss`; with it, finding 5 is the counterexample). Its invariant
(`CompletedInv`) says that a job about to be marked failed has stored nothing
(`Unstored`).

Under these two hypotheses the queue implements `CallLifecycle` (`CallsHaveLifecycle`).
The one fact that the steps need is `OwnerAlone`: a call that has an owner is there, in
processing and not stale, and has no other. So what a restart puts back, a claim takes
or a request queues has no owner, and what a worker stores or fails is its own. With
overruns it is false, by the restart that puts a call back whose owner is at it; with
lost connections, by the completed call that is marked failed. `JobsAreApart`, which
`CallLifecycle` contains, is proved but not the property of a run of its own.

**Directory** (`DirectoryProofs`). `CopyIsFaithful` is about the end of a cycle, so
the invariant has to say what a cycle knows on its way: as long as the portal has
not changed since its first page, what it has read is exactly the portal's entries
before its offset, and nothing of the others (`ReadInStep`). A change of the portal
makes the premise false for every syncer at once; a page moves the offset; the last
page makes the list complete. Then one commit puts the tables in step. The roles of
bypass users are not part of that: the second statement of a sign-in that began before
the commit makes a supervisor of whatever the commit wrote (`OperatorInStep`).
`ScopedUnlessBypass` is part of the invariant because sign-in and commit need it of
each other. `NeverLocksOut` follows from what a commit does to one operator.

**Destination** (`DestinationProofs`). The query is a recursive function over depths,
what it is for is a least set, and there is no induction theorem to cite. Instead of
it, every set of numbers that is not empty has a least one (`LeastNumber`), and a fact
that failed at some depth would fail at a least one, which the depth before it
forbids. In this way: the function exists (`ClimbExists`), a depth holds at most one
department (`OnePerDepth`), the depths hold exactly the departments that `Passed`
has (`DepthsArePassed`), and as long as no head was found each depth holds a new one,
on a cycle too (`NewAtEveryDepth`). So when not more than `MaxDepth + 1` departments
are on the way up, the query finds the nearest head (`FindsNearest`); whatever it
finds is the nearest head in any case (`FoundIsNearest`). About the tables that syncs
leave: `NearestHeadsFound` is for each department, in a portal of any size, whose way up
has not more than `MaxDepth + 1` departments, 51 in the code, since a longer one is cut
off; `DestinationsAreCurrent` is for every way up.

**Deployment** (`StartupProofs`, `DeploymentProofs`). The invariant of the
migrations says of each process that the records it read are still there, unchanged,
and that every script it passed is recorded (`ProcessOK`): rows of
`schema_migrations` are never changed, so an old list is never wrong, only
incomplete. Together with `ScriptsInOrder` it gives `ServesCompleteSchema`. For the
call, that 0010 is executed at most once, and before any new worker writes
(`RawScriptFirst`), makes the raw text that it copies what was heard. The rules of
`TaskPolicy` are compared by lemmas without state: `ValidIsAccepted` (a valid answer
makes an accepted and admitted candidate), `ConcreteIsGrounded`, `OfferedIsConcrete`
(an admitted candidate that is offered passes the gate).

**ReviewPage** (`ReviewPageProofs`). `OneDecision` and `ButtonsFollow` need each
other: no second decision is sent while the buttons are disabled, and one answer may
free them because there is no second decision.
An answer is of the kind of its request because both, and the transaction between
them, have a number that no other request under way has (`Numbered`); an answer that is
given up or comes late does not change how many decisions are under way
(`RepliedDecision`). `DecisionsAreReadLater` is about reads and decisions of any order
and of any session. Its invariant (`DecidedInv`) says that the candidate of a decision
that was answered is not pending, unless the transaction that answered has not
committed (`ReadInv`, `Staged`), and that the rows of that transaction stay fit for its
commit (`LockInv`), since whatever others write meets a lock. A read has the row of the
session, so there is no such transaction when it looks. Nothing is claimed of the order
in which other sessions decide: by finding 1 a confirmed candidate may become rejected
or failed.

**Only model-checked.** Liveness (`RequestsEnd`, `RequestIsAnswered`,
`DirectoryConverges`, `ComesToServe`, `QueueIsRefreshed`, `StaleIsRepaired`), which
needs `ENABLED`. Each invariant and each other action property of a passing run has a
theorem, some under a hypothesis: one session (`OneOutcome`, `LifecycleSpec`), no
overruns and no lost connections (`PredictedIsCompleted`, `CallLifecycleSpec`). The
runs have the same restrictions. Without the first, finding 1 happens, without the
second, finding 5.

## 6. Plan

What would add most next:

1. An abstract specification for `Deployment`, in which a migration is one step and
   the application serves on the last version only, and the proof that `Startup`
   implements it.
2. The same for `ReviewPage`: a page that shows, of each candidate, a status that it
   had or was answered to have, and never again an older one after the poll that
   corrects it.
3. The owner of a call and of its candidate, once it is decided which of the two
   columns means it.

## 7. Not modelled

- **The rest of the frontend**: the supervisor's page uses the handlers of
  `ReviewPage` on a second pair of lists; the transcript modal shows a copy of a call
  taken when it was opened; filters and searches are functions of the lists; a reload
  is the initial state of `ReviewPage`. A page that is open while a deleted call is
  imported again (finding 3) shows it as a new call with an ID of its own.
- **Presentation, the layout of the export, static files, containers**: no state of
  the system; the restart policies are in the fairness, the order of the start is in
  `Deployment`.
- **The statements inside `finish_task_attempt`**, and the order of the writes inside
  other transactions: they are seen only through the commit as a whole.
- **A worker of an earlier release** that runs on while the migrations do: the worker
  of `Deployment` is the new one, which starts after them.
- **I/O and conversion**: downloads, TLS, the parsing of Bitrix values, masking of
  phone numbers, the validation of the Bitrix profile, prompts.
- **`max_records` and the limit on calls per operator**: configuration that only
  cuts a list short.
- **The deadlock of the requeue and the sync** on rows: PostgreSQL ends it with an
  error for one of them; both outcomes are steps of `AnalysisQueue` (`SyncFail`,
  `Crash`), the deadlock itself is not.
