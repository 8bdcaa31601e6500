------------------------------ MODULE Delivery ------------------------------
(***************************************************************************)
(* The operator's decision on a task candidate and its delivery to Bitrix. *)
(*                                                                         *)
(* PATCH /api/candidates/{id}/confirm, /retry and /reject and              *)
(* DELETE /api/calls/{id} run in FastAPI's thread pool, each on its own    *)
(* PostgreSQL connection.  One connection is one transaction: `connect()`  *)
(* commits when the handler returns and rolls back when it raises, and the *)
(* `connection.transaction()` blocks inside the handlers are savepoints of *)
(* it.  So a request publishes everything at its end or nothing, and until *)
(* then other requests meet only the row locks it holds.  The call to      *)
(* Bitrix happens in the middle of that transaction.                       *)
(*                                                                         *)
(* PostgreSQL runs at READ COMMITTED: each statement reads what is         *)
(* committed when it starts, and a write that meets another transaction's  *)
(* row waits for that transaction to end.                                  *)
(***************************************************************************)
EXTENDS Naturals, Sequences, FiniteSets

CONSTANTS
    Candidates,     \* task candidates, each with the call it was made from
    Deliverable,    \* those the concrete-complaint gate lets through
    Sessions,       \* user_sessions rows: one per signed-in iframe
    Requests        \* the HTTP requests of a behaviour, each made at most once

ASSUME DeliverableAssumption == Deliverable \subseteq Candidates

VARIABLES
    (***********************************************************************)
    (* What is committed in PostgreSQL, per candidate                      *)
    (***********************************************************************)
    live,       \* the call and its candidate still exist
    review,     \* candidate_reviews.decision
    task,       \* confirmed_tasks.delivery_status
    item,       \* confirmed_tasks.bitrix_item_id, 0 for NULL
    attempts,   \* bitrix_task_attempts in the order of attempt_no
    (***********************************************************************)
    (* Bitrix, per candidate: the n-th task_add call made for a candidate  *)
    (* is number n, and a task it creates has the ID n                     *)
    (***********************************************************************)
    sends,      \* how many task_add calls Bitrix was sent
    accepted,   \* the calls for which Bitrix created a task
    (***********************************************************************)
    (* The requests                                                        *)
    (***********************************************************************)
    pc,         \* where the handler stands
    job,        \* what was asked, for which candidate, under which session
    seen,       \* the candidate status the handler read
    answer,     \* what task_add returned to the handler
    held        \* the row locks of the request's transaction

db     == <<live, review, task, item, attempts>>
bitrix == <<sends, accepted>>
vars   == <<live, review, task, item, attempts, sends, accepted,
            pc, job, seen, answer, held>>

-----------------------------------------------------------------------------
(* Types *)

Operations == {"confirm", "retry", "reject", "delete"}
Reviews    == {"none", "confirmed", "rejected"}
Deliveries == {"none", "pending", "created", "failed"}
Statuses   == {"pending", "confirmed", "failed", "rejected"}
Job        == [op : Operations, cand : Candidates, sess : Sessions]
NoJob      == [op |-> "none"]
Attempt    == [send : Nat, ok : BOOLEAN]
Answer     == [send : Nat, ok : BOOLEAN]
NoAnswer   == [send |-> 0, ok |-> FALSE]

(* A handler is between two statements in each of the stages in the middle;
   "prepared" is after the rows are written and before task_add, "answered" is
   after task_add, "staged" is a reject or a delete with its rows written.   *)
Stages == {"idle", "arrived", "authed", "checked", "prepared", "answered",
           "staged", "done", "refused"}
Running == {"arrived", "authed", "checked", "prepared", "answered", "staged"}

(* The rows a transaction can lock.  "share" is the FOR KEY SHARE lock that a
   foreign key to task_candidates takes; the others are exclusive.           *)
SessionRow(s)   == <<"session", s>>
CandidateRow(c) == <<"candidate", c>>
CandidateKey(c) == <<"share", c>>
ReviewRow(c)    == <<"review", c>>
TaskRow(c)      == <<"task", c>>
Locks == {SessionRow(s) : s \in Sessions}
         \cup UNION {{CandidateRow(c), CandidateKey(c), ReviewRow(c), TaskRow(c)} :
                        c \in Candidates}

-----------------------------------------------------------------------------
(* Row locks *)

Blocks(l, m) ==
    /\ l[2] = m[2]
    /\ \/ l[1] = m[1] /\ l[1] # "share"
       \/ l[1] = "candidate" /\ m[1] = "share"
       \/ l[1] = "share" /\ m[1] = "candidate"

Grantable(r, ls) ==
    \A q \in Requests \ {r} : \A m \in held[q], l \in ls : ~Blocks(l, m)

(* The rows are free: the statement takes them and goes on to `stage`. *)
Acquire(r, ls, stage) ==
    /\ held' = [held EXCEPT ![r] = @ \cup ls]
    /\ pc' = [pc EXCEPT ![r] = stage]

(* The transaction ends: its locks go, and the response says how. *)
Finish(r, stage) ==
    /\ held' = [held EXCEPT ![r] = {}]
    /\ pc' = [pc EXCEPT ![r] = stage]

RollbackLeak(r) ==      \* the connection of a failed request left open
    /\ pc' = [pc EXCEPT ![r] = "refused"]
    /\ UNCHANGED held

Rollback(r) == Finish(r, "refused")

(* candidate_feed.status *)
Status(c) ==
    CASE review[c] = "rejected" -> "rejected"
      [] review[c] # "rejected" /\ task[c] = "created" -> "confirmed"
      [] review[c] # "rejected" /\ task[c] = "failed"  -> "failed"
      [] OTHER -> "pending"

-----------------------------------------------------------------------------
(* The same, with a slip that a change to the code could make.  Each stands in
   for the action it is named after when the checks of a property are tried.  *)

AuthenticateNoLock(r) ==        \* SELECT of the session instead of UPDATE
    /\ pc[r] = "arrived"
    /\ Acquire(r, {}, "authed")
    /\ UNCHANGED <<db, bitrix, job, seen, answer>>

ExpectedAnyOpen(op) ==          \* retry of whatever is not rejected
    CASE op = "confirm" -> {"pending"}
      [] op = "retry"   -> {"failed", "confirmed"}
      [] OTHER          -> {"pending", "failed"}

UpdateTaskNoWait(r) ==          \* the task's row written after task_add
    /\ pc[r] = "checked" /\ job[r].op = "retry"
    /\ pc' = [pc EXCEPT ![r] = "prepared"]
    /\ UNCHANGED <<db, bitrix, job, seen, answer, held>>

UpdateTaskAnyRow(r) ==          \* no look at what UPDATE ... RETURNING returned
    /\ pc[r] = "checked" /\ job[r].op = "retry"
    /\ Grantable(r, {TaskRow(job[r].cand)})
    /\ Acquire(r, {TaskRow(job[r].cand)}, "prepared")
    /\ UNCHANGED <<db, bitrix, job, seen, answer>>

SendTrusting(r) ==              \* any answer taken for a created task
    /\ pc[r] = "prepared"
    /\ sends' = [sends EXCEPT ![job[r].cand] = @ + 1]
    /\ answer' = [answer EXCEPT ![r] = [send |-> sends[job[r].cand] + 1, ok |-> TRUE]]
    /\ pc' = [pc EXCEPT ![r] = "answered"]
    /\ UNCHANGED <<db, accepted, job, seen, held>>

CommitFailureAsDecision(r) ==   \* the outcome stored as the decision
    /\ pc[r] = "answered"
    /\ review' = [review EXCEPT ![job[r].cand] = IF answer[r].ok THEN "confirmed" ELSE "failed"]
    /\ Finish(r, "done")
    /\ UNCHANGED <<live, task, item, attempts, bitrix, job, seen, answer>>

CommitOneAttempt(r) ==          \* ON CONFLICT (task) DO UPDATE of the last attempt
    LET c == job[r].cand IN
    /\ pc[r] = "answered"
    /\ attempts' = [attempts EXCEPT ![c] = <<answer[r]>>]
    /\ task' = [task EXCEPT ![c] = IF answer[r].ok THEN "created" ELSE "failed"]
    /\ item' = [item EXCEPT ![c] = IF answer[r].ok THEN answer[r].send ELSE 0]
    /\ review' = [review EXCEPT ![c] = IF job[r].op = "confirm" THEN "confirmed" ELSE @]
    /\ Finish(r, "done")
    /\ UNCHANGED <<live, bitrix, job, seen, answer>>

CommitKeepsItem(r) ==           \* bitrix_item_id not reset by a failed retry
    LET c == job[r].cand IN
    /\ pc[r] = "answered"
    /\ attempts' = [attempts EXCEPT ![c] = Append(@, answer[r])]
    /\ task' = [task EXCEPT ![c] = IF answer[r].ok THEN "created" ELSE "failed"]
    /\ item' = [item EXCEPT ![c] = IF answer[r].ok THEN answer[r].send ELSE @]
    /\ review' = [review EXCEPT ![c] = IF job[r].op = "confirm" THEN "confirmed" ELSE @]
    /\ Finish(r, "done")
    /\ UNCHANGED <<live, bitrix, job, seen, answer>>

(* The status each handler demands of the candidate it reads. *)
Expected(op) ==
    CASE op = "confirm" -> {"pending"}
      [] op = "retry"   -> {"failed"}
      [] op = "reject"  -> {"pending", "failed"}
      [] OTHER          -> Statuses

-----------------------------------------------------------------------------
Init ==
    /\ live = [c \in Candidates |-> TRUE]
    /\ review = [c \in Candidates |-> "none"]
    /\ task = [c \in Candidates |-> "none"]
    /\ item = [c \in Candidates |-> 0]
    /\ attempts = [c \in Candidates |-> <<>>]
    /\ sends = [c \in Candidates |-> 0]
    /\ accepted = [c \in Candidates |-> {}]
    /\ pc = [r \in Requests |-> "idle"]
    /\ job = [r \in Requests |-> NoJob]
    /\ seen = [r \in Requests |-> "pending"]
    /\ answer = [r \in Requests |-> NoAnswer]
    /\ held = [r \in Requests |-> {}]

(* An HTTP request arrives and gets its connection. *)
Arrive(r) ==
    /\ pc[r] = "idle"
    /\ \E j \in Job : job' = [job EXCEPT ![r] = j]
    /\ pc' = [pc EXCEPT ![r] = "arrived"]
    /\ UNCHANGED <<db, bitrix, seen, answer, held>>

(* current_user: UPDATE user_sessions SET last_seen_at opens the transaction
   and keeps the session's row until the request ends.                       *)
Authenticate(r) ==
    /\ pc[r] = "arrived"
    /\ Grantable(r, {SessionRow(job[r].sess)})
    /\ Acquire(r, {SessionRow(job[r].sess)}, "authed")
    /\ UNCHANGED <<db, bitrix, job, seen, answer>>

(* confirm, retry and reject read the candidate without locking it. *)
CheckStatus(r) ==
    LET c == job[r].cand IN
    /\ pc[r] = "authed"
    /\ job[r].op # "delete"
    /\ IF /\ live[c]
          /\ job[r].op \in {"confirm", "retry"} => c \in Deliverable
          /\ Status(c) \in Expected(job[r].op)
       THEN /\ pc' = [pc EXCEPT ![r] = "checked"]
            /\ seen' = [seen EXCEPT ![r] = Status(c)]
            /\ UNCHANGED held
       ELSE Rollback(r) /\ UNCHANGED seen
    /\ UNCHANGED <<db, bitrix, job, answer>>

(* INSERT INTO candidate_reviews, by confirm and by the reject of a pending
   candidate.  Its primary key waits for another transaction's row of the
   same candidate and its foreign key for a delete of the candidate; if that
   transaction committed, the statement raises and the request is over.      *)
InsertReview(r) ==
    LET c == job[r].cand IN
    /\ pc[r] = "checked"
    /\ \/ job[r].op = "confirm"
       \/ job[r].op = "reject" /\ seen[r] # "failed"
    /\ Grantable(r, {ReviewRow(c), CandidateKey(c)})
    /\ IF live[c] /\ review[c] = "none"
       THEN Acquire(r, {ReviewRow(c), CandidateKey(c)},
                    IF job[r].op = "confirm" THEN "prepared" ELSE "staged")
       ELSE Rollback(r)
    /\ UNCHANGED <<db, bitrix, job, seen, answer>>

(* retry: UPDATE confirmed_tasks ... WHERE candidate_id.  It waits for the
   row and then asks only that it exists, not that it is still failed.       *)
UpdateTask(r) ==
    LET c == job[r].cand IN
    /\ pc[r] = "checked"
    /\ job[r].op = "retry"
    /\ Grantable(r, {TaskRow(c)})
    /\ IF task[c] # "none"
       THEN Acquire(r, {TaskRow(c)}, "prepared")
       ELSE Rollback(r)
    /\ UNCHANGED <<db, bitrix, job, seen, answer>>

(* reject of a failed candidate: UPDATE candidate_reviews ... WHERE
   candidate_id, then get_candidate, which raises if the candidate went.     *)
UpdateReview(r) ==
    LET c == job[r].cand IN
    /\ pc[r] = "checked"
    /\ job[r].op = "reject"
    /\ seen[r] = "failed"
    /\ Grantable(r, {ReviewRow(c)})
    /\ IF live[c]
       THEN Acquire(r, {ReviewRow(c)}, "staged")
       ELSE Rollback(r)
    /\ UNCHANGED <<db, bitrix, job, seen, answer>>

(* delete_call: SELECT ... FOR UPDATE on the call, and the DELETE that cascades
   to the candidate, whose row is locked next.                               *)
LockCall(r) ==
    LET c == job[r].cand IN
    /\ pc[r] = "authed"
    /\ job[r].op = "delete"
    /\ Grantable(r, {CandidateRow(c)})
    /\ IF live[c] THEN Acquire(r, {CandidateRow(c)}, "checked") ELSE Rollback(r)
    /\ UNCHANGED <<db, bitrix, job, seen, answer>>

(* The cascade goes on to the candidate's review, task and attempts. *)
DeleteRows(r) ==
    LET c == job[r].cand IN
    /\ pc[r] = "checked"
    /\ job[r].op = "delete"
    /\ Grantable(r, {ReviewRow(c), TaskRow(c)})
    /\ Acquire(r, {ReviewRow(c), TaskRow(c)}, "staged")
    /\ UNCHANGED <<db, bitrix, job, seen, answer>>

(* task_add, one HTTP call that is not retried.  Bitrix creates the task or
   does not, and the client returns a result, raises a BitrixError, or raises
   something else (a read timeout), which deliver_candidate does not catch.
   Only a task that was created can be answered with its ID.                 *)
Send(r) ==
    LET c == job[r].cand
        n == sends[c] + 1
    IN
    /\ pc[r] = "prepared"
    /\ sends' = [sends EXCEPT ![c] = n]
    /\ \E created \in BOOLEAN :
          /\ accepted' = [accepted EXCEPT ![c] = IF created THEN @ \cup {n} ELSE @]
          /\ \/ /\ \E ok \in BOOLEAN :
                      /\ ok => created
                      /\ answer' = [answer EXCEPT ![r] = [send |-> n, ok |-> ok]]
                /\ pc' = [pc EXCEPT ![r] = "answered"]
                /\ UNCHANGED held
             \/ Rollback(r) /\ UNCHANGED answer
    /\ UNCHANGED <<db, job, seen>>

(* finish_task_attempt adds the attempt and settles the task, and the request's
   transaction commits these and what prepare_confirmed_task wrote.          *)
CommitDelivery(r) ==
    LET c == job[r].cand
        a == answer[r]
    IN
    /\ pc[r] = "answered"
    /\ attempts' = [attempts EXCEPT ![c] = Append(@, a)]
    /\ task' = [task EXCEPT ![c] = IF a.ok THEN "created" ELSE "failed"]
    /\ item' = [item EXCEPT ![c] = IF a.ok THEN a.send ELSE 0]
    /\ review' = [review EXCEPT ![c] = IF job[r].op = "confirm" THEN "confirmed" ELSE @]
    /\ Finish(r, "done")
    /\ UNCHANGED <<live, bitrix, job, seen, answer>>

CommitReject(r) ==
    /\ pc[r] = "staged"
    /\ job[r].op = "reject"
    /\ review' = [review EXCEPT ![job[r].cand] = "rejected"]
    /\ Finish(r, "done")
    /\ UNCHANGED <<live, task, item, attempts, bitrix, job, seen, answer>>

(* The call, and by ON DELETE CASCADE everything that hangs on it, is gone. *)
CommitDelete(r) ==
    LET c == job[r].cand IN
    /\ pc[r] = "staged"
    /\ job[r].op = "delete"
    /\ live' = [live EXCEPT ![c] = FALSE]
    /\ review' = [review EXCEPT ![c] = "none"]
    /\ task' = [task EXCEPT ![c] = "none"]
    /\ item' = [item EXCEPT ![c] = 0]
    /\ attempts' = [attempts EXCEPT ![c] = <<>>]
    /\ Finish(r, "done")
    /\ UNCHANGED <<bitrix, job, seen, answer>>

(* Anything else that ends a handler before its commit: an expired session, no
   access to the candidate, no department head, no Bitrix webhook, a lost
   database connection, the process killed.                                  *)
Abort(r) ==
    /\ pc[r] \in Running
    /\ Rollback(r)
    /\ UNCHANGED <<db, bitrix, job, seen, answer>>

(* The next statement of the handler. *)
Statement(r) ==
    \/ Authenticate(r)
    \/ CheckStatus(r)
    \/ InsertReview(r)
    \/ UpdateTask(r)
    \/ UpdateReview(r)
    \/ LockCall(r)
    \/ DeleteRows(r)
    \/ Send(r)
    \/ CommitDelivery(r)
    \/ CommitReject(r)
    \/ CommitDelete(r)

Next == \E r \in Requests : Arrive(r) \/ Statement(r) \/ Abort(r)

Spec == Init /\ [][Next]_vars

(* A thread that can run does: PostgreSQL grants a free lock, and task_add
   ends because its socket has a timeout.                                    *)
FairSpec == Spec /\ \A r \in Requests : WF_vars(Statement(r))

-----------------------------------------------------------------------------
(* Properties *)

TypeOK ==
    /\ live \in [Candidates -> BOOLEAN]
    /\ review \in [Candidates -> Reviews]
    /\ task \in [Candidates -> Deliveries]
    /\ item \in [Candidates -> Nat]
    /\ attempts \in [Candidates -> Seq(Attempt)]
    /\ sends \in [Candidates -> Nat]
    /\ accepted \in [Candidates -> SUBSET Nat]
    /\ pc \in [Requests -> Stages]
    /\ job \in [Requests -> Job \cup {NoJob}]
    /\ \A r \in Requests : pc[r] # "idle" => job[r] \in Job
    /\ seen \in [Requests -> Statuses]
    /\ answer \in [Requests -> Answer]
    /\ held \in [Requests -> SUBSET Locks]

(* A request whose row writes are made and whose outcome is not yet published. *)
Delivering(r) == pc[r] \in {"prepared", "answered"}

(* At most one delivery of a candidate is between its row writes and its commit,
   whichever mix of confirms and retries is running and under whichever
   sessions: a confirm is kept apart from confirms by the review's primary key,
   a retry from retries by the task's row, and the two from each other because
   one needs the rows that the other needs not to exist.                      *)
OneDeliveryAtATime ==
    \A q, r \in Requests :
        Delivering(q) /\ Delivering(r) /\ job[q].cand = job[r].cand => q = r

(* No task is sent to Bitrix for a call that was deleted, however the delete
   races the delivery (delete_call, prepare_confirmed_task).                  *)
NoDeliveryForDeletedCall ==
    \A r \in Requests : Delivering(r) => live[job[r].cand]

Last(s) == s[Len(s)]

(* What the committed rows say of a candidate agrees: a task has a decision, its
   delivery status and Bitrix ID are those of its last recorded attempt, and no
   reader ever sees the 'pending' of a delivery under way.                    *)
RowsAgreeOf(c) ==
    /\ ~live[c] => review[c] = "none"
    /\ review[c] = "none" => task[c] = "none"
    /\ review[c] = "confirmed" => task[c] # "none"
    /\ task[c] = "none" <=> attempts[c] = <<>>
    /\ task[c] = "none" => item[c] = 0
    /\ task[c] # "none" =>
          LET a == Last(attempts[c]) IN
          /\ task[c] = IF a.ok THEN "created" ELSE "failed"
          /\ item[c] = IF a.ok THEN a.send ELSE 0

RowsAgree == \A c \in Candidates : RowsAgreeOf(c)

(* The history is true: its attempts are distinct calls to Bitrix in the order
   they were made, and one recorded as successful did create a task.          *)
HistoryIsTrueOf(c) ==
    \A i \in DOMAIN attempts[c] :
        LET a == attempts[c][i] IN
        /\ a.send \in 1..sends[c]
        /\ a.ok => a.send \in accepted[c]
        /\ \A j \in DOMAIN attempts[c] : i < j => a.send < attempts[c][j].send

HistoryIsTrue == \A c \in Candidates : HistoryIsTrueOf(c)

(* The operator "either creates a ConfirmedTask or a RejectedTaskCandidate": a
   candidate gets at most one task that its rows know of, and none when it is
   rejected.                                                                  *)
OneOutcome ==
    \A c \in Candidates :
        /\ \A i, j \in DOMAIN attempts[c] :
              attempts[c][i].ok /\ attempts[c][j].ok => i = j
        /\ review[c] = "rejected" => task[c] # "created"

(* bitrix_task_attempts holds "every Bitrix task delivery attempt", whatever
   requests were made before and beside it: an unrecorded call of task_add is
   one of a request that is still running or broke off before its commit.     *)
EveryDeliveryRecorded ==
    \A c \in Candidates : live[c] =>
        LET unrecorded == {n \in 1..sends[c] :
                              \A i \in DOMAIN attempts[c] : attempts[c][i].send # n}
            brokenOff  == {r \in Requests : /\ pc[r] \in {"answered", "refused"}
                                            /\ job[r].cand = c}
        IN  Cardinality(unrecorded) <= Cardinality(brokenOff)

(* Delivery keeps what CandidateLifecycle promises, a request's commit being the
   step: the status and Bitrix ID that candidate_feed shows move only forward. *)
Lifecycle == INSTANCE CandidateLifecycle WITH
    status <- [c \in Candidates |-> IF live[c] THEN Status(c) ELSE "deleted"],
    taskId <- item

LifecycleSpec == Lifecycle!Spec

(* A request that arrived gets its response: no set of requests waits for each
   other's rows, whatever they ask of whichever candidates.                   *)
RequestsEnd ==
    \A r \in Requests : pc[r] = "arrived" ~> pc[r] \in {"done", "refused"}
=============================================================================
