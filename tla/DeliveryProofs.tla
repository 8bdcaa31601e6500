--------------------------- MODULE DeliveryProofs ---------------------------
(***************************************************************************)
(* Proofs about Delivery, for every number of candidates, sessions and     *)
(* requests.                                                               *)
(***************************************************************************)
EXTENDS Delivery, TLAPS, FiniteSetTheorems

(* The locks of Delivery are the members of Locks. *)
LEMMA LockTypes ==
    /\ \A s \in Sessions : SessionRow(s) \in Locks
    /\ \A c \in Candidates :
          {CandidateRow(c), CandidateKey(c), ReviewRow(c), TaskRow(c)} \subseteq Locks
BY DEF Locks

(* candidate_feed gives one of the four statuses. *)
LEMMA StatusType == \A c : Status(c) \in Statuses
BY DEF Status, Statuses

(* Taking known locks, or ending the transaction, keeps the types of the two
   variables it changes.                                                     *)
LEMMA AcquireType ==
    ASSUME TypeOK, NEW r \in Requests, NEW ls \in SUBSET Locks, NEW stage \in Stages,
           Acquire(r, ls, stage)
    PROVE  pc' \in [Requests -> Stages] /\ held' \in [Requests -> SUBSET Locks]
BY DEF TypeOK, Acquire

(* Ending the transaction: the same two variables, no locks left. *)
LEMMA FinishType ==
    ASSUME TypeOK, NEW r \in Requests, NEW stage \in Stages, Finish(r, stage)
    PROVE  pc' \in [Requests -> Stages] /\ held' \in [Requests -> SUBSET Locks]
BY DEF TypeOK, Finish

(* A request that runs a statement has a job. *)
LEMMA JobType ==
    ASSUME TypeOK, NEW r \in Requests, pc[r] # "idle"
    PROVE  job[r] \in Job /\ job[r].cand \in Candidates /\ job[r].sess \in Sessions
BY DEF TypeOK, Job

(* A statement takes rows of its own session or candidate, or ends the
   transaction, or only moves on; no other request's state changes.          *)
LEMMA StatementShape ==
    ASSUME TypeOK, NEW r \in Requests, Statement(r) \/ Abort(r)
    PROVE  /\ pc[r] # "idle"
           /\ job' = job
           /\ \/ \E ls \in SUBSET Locks, stage \in Stages : Acquire(r, ls, stage)
              \/ \E stage \in {"done", "refused"} : Finish(r, stage)
              \/ /\ pc' = [pc EXCEPT ![r] = "checked"] \/ pc' = [pc EXCEPT ![r] = "answered"]
                 /\ held' = held
<1> DEFINE c == job[r].cand
<1>0. pc[r] # "idle" /\ job' = job
  BY DEF Statement, Abort, Running, Authenticate, CheckStatus, InsertReview, UpdateTask,
         UpdateReview, LockCall, DeleteRows, Send, CommitDelivery, CommitReject,
         CommitDelete
<1>1. /\ {SessionRow(job[r].sess)} \in SUBSET Locks
      /\ {ReviewRow(c), CandidateKey(c)} \in SUBSET Locks
      /\ {TaskRow(c)} \in SUBSET Locks
      /\ {ReviewRow(c)} \in SUBSET Locks
      /\ {CandidateRow(c)} \in SUBSET Locks
      /\ {ReviewRow(c), TaskRow(c)} \in SUBSET Locks
  BY <1>0, JobType, LockTypes
<1>2. {"authed", "checked", "prepared", "staged"} \subseteq Stages
  BY DEF Stages
<1>3. CASE Authenticate(r)
  BY <1>0, <1>1, <1>2, <1>3 DEF Authenticate
<1>4. CASE CheckStatus(r)
  BY <1>0, <1>4 DEF CheckStatus, Rollback
<1>5. CASE InsertReview(r)
  <2>1. \/ Acquire(r, {ReviewRow(c), CandidateKey(c)}, "prepared")
        \/ Acquire(r, {ReviewRow(c), CandidateKey(c)}, "staged")
        \/ Finish(r, "refused")
    BY <1>5 DEF InsertReview, Rollback
  <2>2. QED
    BY <1>0, <1>1, <1>2, <2>1
<1>6. CASE UpdateTask(r)
  BY <1>0, <1>1, <1>2, <1>6 DEF UpdateTask, Rollback
<1>7. CASE UpdateReview(r)
  BY <1>0, <1>1, <1>2, <1>7 DEF UpdateReview, Rollback
<1>8. CASE LockCall(r)
  BY <1>0, <1>1, <1>2, <1>8 DEF LockCall, Rollback
<1>9. CASE DeleteRows(r)
  BY <1>0, <1>1, <1>2, <1>9 DEF DeleteRows
<1>10. CASE Send(r)
  BY <1>0, <1>10 DEF Send, Rollback
<1>11. CASE CommitDelivery(r) \/ CommitReject(r) \/ CommitDelete(r)
  BY <1>0, <1>11 DEF CommitDelivery, CommitReject, CommitDelete
<1>12. CASE Abort(r)
  BY <1>0, <1>12 DEF Abort, Rollback
<1>13. QED
  BY <1>3, <1>4, <1>5, <1>6, <1>7, <1>8, <1>9, <1>10, <1>11, <1>12 DEF Statement

(* Every action keeps every variable within its type. *)
LEMMA TypeStep == TypeOK /\ [Next]_vars => TypeOK'
<1> SUFFICES ASSUME TypeOK, [Next]_vars PROVE TypeOK'
  OBVIOUS
<1>1. ASSUME NEW r \in Requests, Arrive(r) PROVE TypeOK'
  BY <1>1 DEF Arrive, TypeOK, Stages, db, bitrix
<1>2. ASSUME NEW r \in Requests, Statement(r) \/ Abort(r) PROVE TypeOK'
  <2> DEFINE c == job[r].cand
  <2>1. pc[r] # "idle" /\ job' = job
    BY <1>2, StatementShape
  <2>2. job[r] \in Job /\ c \in Candidates
    BY <2>1, JobType
  <2>3. pc' \in [Requests -> Stages] /\ held' \in [Requests -> SUBSET Locks]
    <3>1. \A stage \in {"done", "refused", "checked", "answered"} : stage \in Stages
      BY DEF Stages
    <3>2. CASE \E ls \in SUBSET Locks, stage \in Stages : Acquire(r, ls, stage)
      BY <3>2, AcquireType
    <3>3. CASE \E stage \in {"done", "refused"} : Finish(r, stage)
      BY <3>1, <3>3, FinishType
    <3>4. CASE /\ pc' = [pc EXCEPT ![r] = "checked"] \/ pc' = [pc EXCEPT ![r] = "answered"]
               /\ held' = held
      BY <3>1, <3>4 DEF TypeOK
    <3>5. QED
      BY <1>2, <3>2, <3>3, <3>4, StatementShape
  <2>4. \A q \in Requests : pc'[q] # "idle" => job'[q] \in Job
    <3>1. \A q \in Requests \ {r} : pc'[q] = pc[q]
      BY <1>2, StatementShape DEF Acquire, Finish, TypeOK
    <3>2. QED
      BY <2>1, <2>2, <3>1 DEF TypeOK
  <2>5. seen' \in [Requests -> Statuses]
    <3>1. CASE CheckStatus(r)
      <4>1. seen' = seen \/ seen' = [seen EXCEPT ![r] = Status(c)]
        BY <3>1 DEF CheckStatus
      <4>2. Status(c) \in Statuses
        BY StatusType, <2>2
      <4>3. QED
        BY <4>1, <4>2 DEF TypeOK
    <3>2. CASE ~CheckStatus(r)
      BY <1>2, <3>2
         DEF Statement, Abort, Authenticate, InsertReview, UpdateTask, UpdateReview,
             LockCall, DeleteRows, Send, CommitDelivery, CommitReject, CommitDelete,
             TypeOK
    <3>3. QED
      BY <3>1, <3>2
  <2>6. CASE Send(r)
    <3>1. /\ sends' \in [Candidates -> Nat]
          /\ accepted' \in [Candidates -> SUBSET Nat]
          /\ UNCHANGED db
      BY <2>2, <2>6 DEF Send, TypeOK
    <3>2. answer' \in [Requests -> Answer]
      <4>1. \/ \E ok \in BOOLEAN :
                   answer' = [answer EXCEPT ![r] = [send |-> sends[c] + 1, ok |-> ok]]
            \/ answer' = answer
        BY <2>6 DEF Send
      <4>2. \A ok \in BOOLEAN : [send |-> sends[c] + 1, ok |-> ok] \in Answer
        BY <2>2 DEF TypeOK, Answer
      <4>3. QED
        BY <4>1, <4>2 DEF TypeOK
    <3>3. QED
      BY <2>1, <2>3, <2>4, <2>5, <3>1, <3>2 DEF TypeOK, db
  <2>7. CASE CommitDelivery(r)
    <3>1. /\ review' \in [Candidates -> Reviews]
          /\ task' \in [Candidates -> Deliveries]
      BY <2>2, <2>7 DEF CommitDelivery, TypeOK, Reviews, Deliveries
    <3>2. /\ item' \in [Candidates -> Nat]
          /\ attempts' \in [Candidates -> Seq(Attempt)]
      BY <2>2, <2>7 DEF CommitDelivery, TypeOK, Answer, Attempt
    <3>3. QED
      BY <2>1, <2>3, <2>4, <2>5, <2>7, <3>1, <3>2 DEF CommitDelivery, TypeOK, bitrix
  <2>8. CASE CommitReject(r)
    BY <2>1, <2>2, <2>3, <2>4, <2>5, <2>8 DEF CommitReject, TypeOK, Reviews, bitrix
  <2>9. CASE CommitDelete(r)
    BY <2>1, <2>2, <2>3, <2>4, <2>5, <2>9
       DEF CommitDelete, TypeOK, Reviews, Deliveries, bitrix
  <2>10. CASE UNCHANGED <<db, bitrix, answer>>
    BY <2>1, <2>3, <2>4, <2>5, <2>10 DEF TypeOK, db, bitrix
  <2>11. QED
    BY <1>2, <2>6, <2>7, <2>8, <2>9, <2>10
       DEF Statement, Abort, Authenticate, CheckStatus, InsertReview, UpdateTask,
           UpdateReview, LockCall, DeleteRows
<1>3. CASE UNCHANGED vars
  BY <1>3 DEF vars, TypeOK
<1>4. QED
  BY <1>1, <1>2, <1>3 DEF Next

(* An untouched candidate and an idle request have the types. *)
LEMMA InitType == Init => TypeOK
BY DEF Init, TypeOK, Reviews, Deliveries, Stages, Statuses, Answer, NoAnswer

(* The state of the delivery always has its type. *)
THEOREM TypeCorrect == Spec => []TypeOK
BY InitType, TypeStep, PTL DEF Spec

-----------------------------------------------------------------------------
(* The inductive invariant.  The rows that a request has locked at each stage
   (RowsHeld) keep apart the requests that must not run together (Exclusive),
   and so what a request found when it took them still holds (RowsFound) when
   it sends its task and when it commits.                                    *)

RowsHeldBy(r) ==
    LET c == job[r].cand IN
    /\ Delivering(r) => job[r].op \in {"confirm", "retry"}
    /\ Delivering(r) /\ job[r].op = "confirm" =>
          ReviewRow(c) \in held[r] /\ CandidateKey(c) \in held[r]
    /\ Delivering(r) /\ job[r].op = "retry" => TaskRow(c) \in held[r]
    /\ pc[r] = "staged" => job[r].op \in {"reject", "delete"}
    /\ pc[r] = "staged" => ReviewRow(c) \in held[r]
    /\ pc[r] \in {"checked", "staged"} /\ job[r].op = "delete" => CandidateRow(c) \in held[r]
    /\ pc[r] = "staged" /\ job[r].op = "delete" => TaskRow(c) \in held[r]

RowsHeld == \A r \in Requests : RowsHeldBy(r)

Exclusive ==
    \A q, r \in Requests : q # r => \A l \in held[q], m \in held[r] : ~Blocks(l, m)

RowsFoundBy(r) ==
    LET c == job[r].cand IN
    /\ Delivering(r) => live[c]
    /\ Delivering(r) /\ job[r].op = "confirm" => review[c] = "none"
    /\ Delivering(r) /\ job[r].op = "retry" => task[c] # "none"
    /\ pc[r] = "staged" /\ job[r].op = "reject" => live[c]

RowsFound == \A r \in Requests : RowsFoundBy(r)

(* The call a request made is the latest of its candidate. *)
AnswerIsLatestOf(r) ==
    LET c == job[r].cand IN
    pc[r] = "answered" =>
        /\ answer[r].send \in 1..sends[c]
        /\ answer[r].ok => answer[r].send \in accepted[c]
        /\ \A i \in DOMAIN attempts[c] : attempts[c][i].send < answer[r].send

AnswerIsLatest == \A r \in Requests : AnswerIsLatestOf(r)

RowsInv == TypeOK /\ RowsHeld /\ Exclusive /\ RowsFound /\ RowsAgree

DeliveryInv == RowsInv /\ AnswerIsLatest /\ HistoryIsTrue

(* A step of one request leaves the others' as they are. *)
LEMMA OthersUnchanged ==
    ASSUME TypeOK, NEW r \in Requests, Arrive(r) \/ Statement(r) \/ Abort(r),
           NEW q \in Requests \ {r}
    PROVE  /\ pc'[q] = pc[q]
           /\ job'[q] = job[q]
           /\ answer'[q] = answer[q]
           /\ held'[q] = held[q]
<1>1. CASE Arrive(r)
  BY <1>1 DEF Arrive, TypeOK
<1>2. CASE Statement(r) \/ Abort(r)
  <2>1. pc'[q] = pc[q] /\ job'[q] = job[q] /\ held'[q] = held[q]
    <3>1. CASE \E ls \in SUBSET Locks, stage \in Stages : Acquire(r, ls, stage)
      BY <1>2, <3>1, StatementShape DEF Acquire, TypeOK
    <3>2. CASE \E stage \in {"done", "refused"} : Finish(r, stage)
      BY <1>2, <3>2, StatementShape DEF Finish, TypeOK
    <3>3. CASE /\ pc' = [pc EXCEPT ![r] = "checked"] \/ pc' = [pc EXCEPT ![r] = "answered"]
               /\ held' = held
      BY <1>2, <3>3, StatementShape DEF TypeOK
    <3>4. QED
      BY <1>2, <3>1, <3>2, <3>3, StatementShape
  <2>2. CASE Send(r)
    <3>1. \/ \E ok \in BOOLEAN :
                 answer' = [answer EXCEPT ![r] = [send |-> sends[job[r].cand] + 1, ok |-> ok]]
          \/ answer' = answer
      BY <2>2 DEF Send
    <3>2. QED
      BY <2>1, <3>1 DEF TypeOK
  <2>3. CASE ~Send(r)
    BY <1>2, <2>1, <2>3
       DEF Statement, Abort, Authenticate, CheckStatus, InsertReview, UpdateTask,
           UpdateReview, LockCall, DeleteRows, CommitDelivery, CommitReject, CommitDelete
  <2>4. QED
    BY <2>1, <2>2, <2>3
<1>3. QED
  BY <1>1, <1>2

(* What Acquire and Finish leave in the two variables they change. *)
LEMMA AcquireHeld ==
    ASSUME TypeOK, NEW r \in Requests, NEW ls, NEW stage, Acquire(r, ls, stage)
    PROVE  pc'[r] = stage /\ held'[r] = held[r] \cup ls
BY DEF Acquire, TypeOK

(* A commit or a rollback leaves its request without locks. *)
LEMMA FinishHeld ==
    ASSUME TypeOK, NEW r \in Requests, NEW stage, Finish(r, stage)
    PROVE  pc'[r] = stage /\ held'[r] = {}
BY DEF Finish, TypeOK

(* A request locks rows only when they are free, and keeps them to its end. *)
LEMMA ExclusiveStep == TypeOK /\ Exclusive /\ [Next]_vars => Exclusive'
<1> SUFFICES ASSUME TypeOK, Exclusive, [Next]_vars PROVE Exclusive'
  OBVIOUS
<1>1. ASSUME NEW r \in Requests, Statement(r) \/ Abort(r) PROVE Exclusive'
  <2>1. \A q \in Requests \ {r} : held'[q] = held[q]
    BY <1>1, OthersUnchanged
  <2>2. \E ls : held'[r] \subseteq held[r] \cup ls /\ Grantable(r, ls)
    <3>1. CASE Authenticate(r)
      BY <3>1 DEF Authenticate, Acquire, TypeOK
    <3>2. CASE CheckStatus(r)
      <4>1. held'[r] \subseteq held[r] \cup {} /\ Grantable(r, {})
        BY <3>2 DEF CheckStatus, Rollback, Finish, Grantable, TypeOK
      <4>2. QED
        BY <4>1
    <3>3. CASE InsertReview(r)
      BY <3>3, AcquireHeld, FinishHeld DEF InsertReview, Rollback
    <3>4. CASE UpdateTask(r)
      BY <3>4, AcquireHeld, FinishHeld DEF UpdateTask, Rollback
    <3>5. CASE UpdateReview(r)
      BY <3>5, AcquireHeld, FinishHeld DEF UpdateReview, Rollback
    <3>6. CASE LockCall(r)
      BY <3>6, AcquireHeld, FinishHeld DEF LockCall, Rollback
    <3>7. CASE DeleteRows(r)
      BY <3>7 DEF DeleteRows, Acquire, TypeOK
    <3>8. CASE Send(r) \/ CommitDelivery(r) \/ CommitReject(r) \/ CommitDelete(r) \/ Abort(r)
      <4>1. held'[r] \subseteq held[r] \cup {} /\ Grantable(r, {})
        BY <3>8 DEF Send, CommitDelivery, CommitReject, CommitDelete, Abort, Rollback,
                    Finish, Grantable, TypeOK
      <4>2. QED
        BY <4>1
    <3>9. QED
      BY <1>1, <3>1, <3>2, <3>3, <3>4, <3>5, <3>6, <3>7, <3>8 DEF Statement
  <2>3. \A l, m : Blocks(l, m) <=> Blocks(m, l)
    BY DEF Blocks
  <2>4. QED
    BY <2>1, <2>2, <2>3 DEF Exclusive, Grantable
<1>2. ASSUME NEW r \in Requests, Arrive(r) PROVE Exclusive'
  BY <1>2 DEF Arrive, Exclusive
<1>3. CASE UNCHANGED vars
  BY <1>3 DEF vars, Exclusive
<1>4. QED
  BY <1>1, <1>2, <1>3 DEF Next

(* At each stage a request holds the rows that RowsHeld says. *)
LEMMA RowsHeldStep == TypeOK /\ RowsHeld /\ [Next]_vars => RowsHeld'
<1> SUFFICES ASSUME TypeOK, RowsHeld, [Next]_vars, NEW q \in Requests PROVE RowsHeldBy(q)'
  BY DEF RowsHeld
<1>0. RowsHeldBy(q)
  BY DEF RowsHeld
<1>1. ASSUME NEW r \in Requests, Arrive(r) \/ Statement(r) \/ Abort(r), q # r
      PROVE  RowsHeldBy(q)'
  BY <1>0, <1>1, OthersUnchanged DEF RowsHeldBy, Delivering
<1>2. CASE Arrive(q)
  BY <1>2 DEF Arrive, RowsHeldBy, Delivering, TypeOK
<1>3. CASE Statement(q) \/ Abort(q)
  <2>0. job' = job
    BY <1>3, StatementShape
  <2>1. CASE pc'[q] \in {"authed", "done", "refused"}
    BY <2>1 DEF RowsHeldBy, Delivering
  <2>2. CASE Authenticate(q)
    BY <2>1, <2>2, AcquireHeld DEF Authenticate
  <2>3. CASE CheckStatus(q)
    <3>1. pc'[q] \in {"checked", "refused"} /\ job[q].op # "delete"
      BY <2>3, FinishHeld DEF CheckStatus, Rollback, TypeOK
    <3>2. QED
      BY <2>0, <2>1, <3>1 DEF RowsHeldBy, Delivering
  <2>4. CASE InsertReview(q)
    <3>1. \/ pc'[q] = "refused"
          \/ /\ held'[q] = held[q] \cup {ReviewRow(job[q].cand), CandidateKey(job[q].cand)}
             /\ \/ pc'[q] = "prepared" /\ job[q].op = "confirm"
                \/ pc'[q] = "staged" /\ job[q].op = "reject"
      BY <2>4, AcquireHeld, FinishHeld DEF InsertReview, Rollback
    <3>2. QED
      BY <2>0, <2>1, <3>1 DEF RowsHeldBy, Delivering
  <2>5. CASE UpdateTask(q)
    <3>1. \/ pc'[q] = "refused"
          \/ /\ held'[q] = held[q] \cup {TaskRow(job[q].cand)}
             /\ pc'[q] = "prepared" /\ job[q].op = "retry"
      BY <2>5, AcquireHeld, FinishHeld DEF UpdateTask, Rollback
    <3>2. QED
      BY <2>0, <2>1, <3>1 DEF RowsHeldBy, Delivering
  <2>6. CASE UpdateReview(q)
    <3>1. \/ pc'[q] = "refused"
          \/ /\ held'[q] = held[q] \cup {ReviewRow(job[q].cand)}
             /\ pc'[q] = "staged" /\ job[q].op = "reject"
      BY <2>6, AcquireHeld, FinishHeld DEF UpdateReview, Rollback
    <3>2. QED
      BY <2>0, <2>1, <3>1 DEF RowsHeldBy, Delivering
  <2>7. CASE LockCall(q)
    <3>1. \/ pc'[q] = "refused"
          \/ /\ held'[q] = held[q] \cup {CandidateRow(job[q].cand)}
             /\ pc'[q] = "checked" /\ job[q].op = "delete"
      BY <2>7, AcquireHeld, FinishHeld DEF LockCall, Rollback
    <3>2. QED
      BY <2>0, <2>1, <3>1 DEF RowsHeldBy, Delivering
  <2>8. CASE DeleteRows(q)
    <3>1. /\ held'[q] = held[q] \cup {ReviewRow(job[q].cand), TaskRow(job[q].cand)}
          /\ pc[q] = "checked" /\ pc'[q] = "staged" /\ job[q].op = "delete"
      BY <2>8, AcquireHeld DEF DeleteRows
    <3>2. QED
      BY <1>0, <2>0, <3>1 DEF RowsHeldBy, Delivering
  <2>9. CASE Send(q)
    <3>1. \/ pc'[q] = "refused"
          \/ pc[q] = "prepared" /\ pc'[q] = "answered" /\ held' = held
      BY <2>9, FinishHeld DEF Send, Rollback, TypeOK
    <3>2. QED
      BY <1>0, <2>0, <2>1, <3>1 DEF RowsHeldBy, Delivering
  <2>10. CASE CommitDelivery(q) \/ CommitReject(q) \/ CommitDelete(q) \/ Abort(q)
    BY <2>1, <2>10, FinishHeld
       DEF CommitDelivery, CommitReject, CommitDelete, Abort, Rollback
  <2>11. QED
    BY <1>3, <2>2, <2>3, <2>4, <2>5, <2>6, <2>7, <2>8, <2>9, <2>10 DEF Statement
<1>4. CASE UNCHANGED vars
  BY <1>0, <1>4 DEF vars, RowsHeldBy, Delivering
<1>5. QED
  BY <1>1, <1>2, <1>3, <1>4 DEF Next

(* Two requests with the same candidate cannot both hold its review, both hold
   its task, or one its key and the other its row.                           *)
LEMMA RowsApart ==
    ASSUME Exclusive, NEW q \in Requests, NEW r \in Requests, q # r, NEW c
    PROVE  /\ ~(ReviewRow(c) \in held[q] /\ ReviewRow(c) \in held[r])
           /\ ~(TaskRow(c) \in held[q] /\ TaskRow(c) \in held[r])
           /\ ~(CandidateKey(c) \in held[q] /\ CandidateRow(c) \in held[r])
<1>1. /\ Blocks(ReviewRow(c), ReviewRow(c))
      /\ Blocks(TaskRow(c), TaskRow(c))
      /\ Blocks(CandidateKey(c), CandidateRow(c))
  BY DEF Blocks, ReviewRow, TaskRow, CandidateKey, CandidateRow
<1>2. QED
  BY <1>1 DEF Exclusive

(* What keeps a second delivery of a candidate out. *)
LEMMA RowsInvExcludes == RowsInv => OneDeliveryAtATime
<1> SUFFICES ASSUME RowsInv, NEW q \in Requests, NEW r \in Requests,
                    Delivering(q), Delivering(r), job[q].cand = job[r].cand, q # r
             PROVE  FALSE
  BY DEF OneDeliveryAtATime
<1> DEFINE c == job[q].cand
<1>1. RowsHeldBy(q) /\ RowsHeldBy(r) /\ RowsFoundBy(q) /\ RowsFoundBy(r)
  BY DEF RowsInv, RowsHeld, RowsFound
<1>2. c \in Candidates
  BY JobType DEF RowsInv, Delivering
<1>3. CASE job[q].op = "confirm" /\ job[r].op = "confirm"
  BY <1>1, <1>3, RowsApart DEF RowsInv, RowsHeldBy
<1>4. CASE job[q].op = "retry" /\ job[r].op = "retry"
  BY <1>1, <1>4, RowsApart DEF RowsInv, RowsHeldBy
<1>5. CASE job[q].op # job[r].op
  BY <1>1, <1>2, <1>5 DEF RowsInv, RowsHeldBy, RowsFoundBy, RowsAgree, RowsAgreeOf
<1>6. QED
  BY <1>1, <1>3, <1>4, <1>5 DEF RowsHeldBy

(* Only a commit changes the committed rows, and each commits for its own
   candidate.                                                                *)
LEMMA OnlyCommitsChangeRows ==
    ASSUME TypeOK, NEW r \in Requests, Arrive(r) \/ Statement(r) \/ Abort(r)
    PROVE  CommitDelivery(r) \/ CommitReject(r) \/ CommitDelete(r) \/ UNCHANGED db
<1>1. CASE Arrive(r) \/ Abort(r)
  BY <1>1 DEF Arrive, Abort
<1>2. CASE Statement(r)
  BY <1>2 DEF Statement, Authenticate, CheckStatus, InsertReview, UpdateTask,
              UpdateReview, LockCall, DeleteRows, Send
<1>3. QED
  BY <1>1, <1>2

(* The rows that a request found stay as it found them while it holds them. *)
LEMMA RowsFoundStep == RowsInv /\ [Next]_vars => RowsFound'
<1> SUFFICES ASSUME RowsInv, [Next]_vars, NEW q \in Requests PROVE RowsFoundBy(q)'
  BY DEF RowsFound
<1> USE DEF RowsInv
<1>0. RowsFoundBy(q) /\ RowsHeldBy(q)
  BY DEF RowsFound, RowsHeld
<1>1. ASSUME NEW r \in Requests, Arrive(r) \/ Statement(r) \/ Abort(r), q # r
      PROVE  RowsFoundBy(q)'
  <2> DEFINE c == job[q].cand
  <2>0. UNCHANGED <<pc[q], job[q]>>
    BY <1>1, OthersUnchanged
  <2>1. CASE UNCHANGED db \/ ~(Delivering(q) \/ pc[q] = "staged")
    BY <1>0, <2>0, <2>1 DEF RowsFoundBy, Delivering, db
  <2>2. CASE Delivering(q) \/ pc[q] = "staged"
    <3>0. /\ c \in Candidates /\ RowsHeldBy(r) /\ pc[q] # "idle"
      BY <2>2, JobType DEF Delivering, RowsHeld
    <3>1. CASE CommitDelivery(r)
      <4>0. Delivering(r) /\ job[r].cand \in Candidates
        BY <3>1, JobType DEF CommitDelivery, Delivering
      <4>1. CASE job[r].cand # c
        BY <1>0, <2>0, <3>0, <3>1, <4>0, <4>1
           DEF CommitDelivery, RowsFoundBy, Delivering, TypeOK
      <4>2. CASE job[r].cand = c
        <5>1. ~Delivering(q)
          BY <1>1, <4>0, <4>2, RowsInvExcludes DEF OneDeliveryAtATime
        <5>2. QED
          BY <1>0, <2>0, <3>1, <5>1 DEF CommitDelivery, RowsFoundBy, Delivering
      <4>3. QED
        BY <4>1, <4>2
    <3>2. CASE CommitReject(r)
      <4>0. job[r].cand \in Candidates /\ ReviewRow(job[r].cand) \in held[r]
        BY <3>0, <3>2, JobType DEF CommitReject, RowsHeldBy
      <4>1. Delivering(q) /\ job[q].op = "confirm" => job[r].cand # c
        BY <1>0, <1>1, <4>0, RowsApart DEF RowsHeldBy
      <4>2. QED
        BY <1>0, <2>0, <3>0, <3>2, <4>0, <4>1 DEF CommitReject, RowsFoundBy, Delivering, TypeOK
    <3>3. CASE CommitDelete(r)
      <4>0. /\ job[r].cand \in Candidates
            /\ ReviewRow(job[r].cand) \in held[r]
            /\ TaskRow(job[r].cand) \in held[r]
            /\ CandidateRow(job[r].cand) \in held[r]
        BY <3>0, <3>3, JobType DEF CommitDelete, RowsHeldBy
      <4>1. job[r].cand # c \/ (pc[q] = "staged" /\ job[q].op = "delete")
        BY <1>0, <1>1, <2>2, <4>0, RowsApart DEF RowsHeldBy
      <4>2. QED
        BY <1>0, <2>0, <3>0, <3>3, <4>0, <4>1 DEF CommitDelete, RowsFoundBy, Delivering, TypeOK
    <3>4. QED
      BY <1>1, <2>1, <3>1, <3>2, <3>3, OnlyCommitsChangeRows
  <2>3. QED
    BY <2>1, <2>2
<1>2. CASE Arrive(q)
  BY <1>2 DEF Arrive, RowsFoundBy, Delivering, TypeOK
<1>3. CASE Statement(q) \/ Abort(q)
  <2> DEFINE c == job[q].cand
  <2>0. job' = job /\ c \in Candidates
    BY <1>3, StatementShape, JobType
  <2>1. CASE pc'[q] \in {"authed", "checked", "done", "refused"}
    BY <2>1 DEF RowsFoundBy, Delivering
  <2>2. CASE Authenticate(q) \/ CheckStatus(q) \/ LockCall(q)
    BY <2>1, <2>2, AcquireHeld, FinishHeld
       DEF Authenticate, CheckStatus, LockCall, Rollback, TypeOK
  <2>3. CASE InsertReview(q)
    <3>1. \/ pc'[q] = "refused"
          \/ /\ live[c] /\ review[c] = "none"
             /\ \/ pc'[q] = "prepared" /\ job[q].op = "confirm"
                \/ pc'[q] = "staged" /\ job[q].op = "reject"
      BY <2>3, AcquireHeld, FinishHeld DEF InsertReview, Rollback
    <3>2. UNCHANGED db
      BY <2>3 DEF InsertReview
    <3>3. QED
      BY <2>0, <2>1, <3>1, <3>2 DEF RowsFoundBy, Delivering, db
  <2>4. CASE UpdateTask(q)
    <3>1. \/ pc'[q] = "refused"
          \/ task[c] # "none" /\ pc'[q] = "prepared" /\ job[q].op = "retry"
      BY <2>4, AcquireHeld, FinishHeld DEF UpdateTask, Rollback
    <3>2. UNCHANGED db
      BY <2>4 DEF UpdateTask
    <3>3. task[c] # "none" => live[c]
      BY <2>0 DEF RowsAgree, RowsAgreeOf
    <3>4. QED
      BY <2>0, <2>1, <3>1, <3>2, <3>3 DEF RowsFoundBy, Delivering, db
  <2>5. CASE UpdateReview(q)
    <3>1. \/ pc'[q] = "refused"
          \/ live[c] /\ pc'[q] = "staged" /\ job[q].op = "reject"
      BY <2>5, AcquireHeld, FinishHeld DEF UpdateReview, Rollback
    <3>2. UNCHANGED db
      BY <2>5 DEF UpdateReview
    <3>3. QED
      BY <2>0, <2>1, <3>1, <3>2 DEF RowsFoundBy, Delivering, db
  <2>6. CASE DeleteRows(q)
    <3>1. pc'[q] = "staged" /\ job[q].op = "delete"
      BY <2>6, AcquireHeld DEF DeleteRows
    <3>2. QED
      BY <2>0, <3>1 DEF RowsFoundBy, Delivering
  <2>7. CASE Send(q)
    <3>1. \/ pc'[q] = "refused"
          \/ pc[q] = "prepared" /\ pc'[q] = "answered"
      BY <2>7, FinishHeld DEF Send, Rollback, TypeOK
    <3>2. UNCHANGED db
      BY <2>7 DEF Send
    <3>3. QED
      BY <1>0, <2>0, <2>1, <3>1, <3>2 DEF RowsFoundBy, Delivering, db
  <2>8. CASE CommitDelivery(q) \/ CommitReject(q) \/ CommitDelete(q) \/ Abort(q)
    BY <2>1, <2>8, FinishHeld
       DEF CommitDelivery, CommitReject, CommitDelete, Abort, Rollback
  <2>9. QED
    BY <1>3, <2>2, <2>3, <2>4, <2>5, <2>6, <2>7, <2>8 DEF Statement
<1>4. CASE UNCHANGED vars
  BY <1>0, <1>4 DEF vars, RowsFoundBy, Delivering
<1>5. QED
  BY <1>1, <1>2, <1>3, <1>4 DEF Next

(* Each commit leaves the rows of its candidate in agreement. *)
LEMMA RowsAgreeStep == RowsInv /\ [Next]_vars => RowsAgree'
<1> SUFFICES ASSUME RowsInv, [Next]_vars PROVE RowsAgree'
  OBVIOUS
<1> USE DEF RowsInv
<1>1. CASE UNCHANGED db
  BY <1>1 DEF db, RowsAgree, RowsAgreeOf, Last
<1>2. ASSUME NEW r \in Requests, CommitDelivery(r) PROVE RowsAgree'
  <2> DEFINE c == job[r].cand
             a == answer[r]
  <2>1. /\ c \in Candidates /\ live[c] /\ a \in Answer
        /\ job[r].op = "confirm" \/ review[c] # "none"
    BY <1>2, JobType DEF CommitDelivery, RowsFound, RowsFoundBy, RowsHeld, RowsHeldBy,
                         Delivering, RowsAgree, RowsAgreeOf, TypeOK
  <2>2. attempts[c] \in Seq(Attempt) /\ a \in Attempt
    BY <2>1 DEF TypeOK, Answer, Attempt
  <2>3. Append(attempts[c], a) # <<>> /\ Last(Append(attempts[c], a)) = a
    BY <2>2 DEF Last
  <2>4. /\ attempts'[c] = Append(attempts[c], a)
        /\ task'[c] = IF a.ok THEN "created" ELSE "failed"
        /\ item'[c] = IF a.ok THEN a.send ELSE 0
        /\ review'[c] = IF job[r].op = "confirm" THEN "confirmed" ELSE review[c]
        /\ live' = live
    BY <1>2, <2>1 DEF CommitDelivery, TypeOK
  <2>5. \A d \in Candidates \ {c} :
          UNCHANGED <<attempts[d], task[d], item[d], review[d]>>
    BY <1>2, <2>1 DEF CommitDelivery, TypeOK
  <2>6. ASSUME NEW d \in Candidates PROVE RowsAgreeOf(d)'
    <3>1. CASE d = c
      BY <2>1, <2>3, <2>4, <3>1 DEF RowsAgreeOf
    <3>2. CASE d # c
      BY <2>4, <2>5, <3>2 DEF RowsAgree, RowsAgreeOf, Last
    <3>3. QED
      BY <3>1, <3>2
  <2>7. QED
    BY <2>6 DEF RowsAgree
<1>3. ASSUME NEW r \in Requests, CommitReject(r) PROVE RowsAgree'
  <2>1. job[r].cand \in Candidates /\ live[job[r].cand]
    BY <1>3, JobType DEF CommitReject, RowsFound, RowsFoundBy
  <2>2. QED
    BY <1>3, <2>1 DEF CommitReject, RowsAgree, RowsAgreeOf, TypeOK, Last
<1>4. ASSUME NEW r \in Requests, CommitDelete(r) PROVE RowsAgree'
  <2>1. job[r].cand \in Candidates
    BY <1>4, JobType DEF CommitDelete
  <2>2. QED
    BY <1>4, <2>1 DEF CommitDelete, RowsAgree, RowsAgreeOf, TypeOK, Last
<1>5. QED
  BY <1>1, <1>2, <1>3, <1>4, OnlyCommitsChangeRows DEF Next, vars, db

(* The conjunction of the facts about rows is inductive. *)
LEMMA RowsInvStep == RowsInv /\ [Next]_vars => RowsInv'
BY TypeStep, RowsHeldStep, ExclusiveStep, RowsFoundStep, RowsAgreeStep DEF RowsInv

(* Without rows and without requests the facts hold. *)
LEMMA RowsInvInit == Init => RowsInv
<1> SUFFICES ASSUME Init PROVE RowsInv
  OBVIOUS
<1>1. TypeOK
  BY InitType
<1>2. RowsHeld /\ Exclusive /\ RowsFound
  BY DEF Init, RowsHeld, RowsHeldBy, Exclusive, RowsFound, RowsFoundBy, Delivering
<1>3. RowsAgree
  BY DEF Init, RowsAgree, RowsAgreeOf
<1>4. QED
  BY <1>1, <1>2, <1>3 DEF RowsInv

(* Whatever requests race, under whichever sessions: one delivery of a candidate
   at a time, none for a deleted call, and rows that agree.                   *)
THEOREM DeliveriesExclude == Spec => []OneDeliveryAtATime
<1>1. Spec => []RowsInv
  BY RowsInvInit, RowsInvStep, PTL DEF Spec
<1>2. QED
  BY <1>1, RowsInvExcludes, PTL

(* The rows a delivery holds keep the deletion of its call waiting, and a
   deletion that came first leaves the delivery no row to go on with.         *)
THEOREM NoDeliveryAfterDelete == Spec => []NoDeliveryForDeletedCall
<1>1. RowsInv => NoDeliveryForDeletedCall
  BY DEF RowsInv, RowsFound, RowsFoundBy, NoDeliveryForDeletedCall
<1>2. QED
  BY <1>1, RowsInvInit, RowsInvStep, PTL DEF Spec

(* No commit, whatever ran beside it, leaves decision, delivery status, Bitrix ID
   and history of a candidate in contradiction.                               *)
THEOREM RowsAlwaysAgree == Spec => []RowsAgree
<1>1. RowsInv => RowsAgree
  BY DEF RowsInv
<1>2. QED
  BY <1>1, RowsInvInit, RowsInvStep, PTL DEF Spec

-----------------------------------------------------------------------------
(* Only task_add adds to what was sent to Bitrix, and only a commit adds to the
   history.                                                                  *)
LEMMA BitrixGrows ==
    ASSUME TypeOK, NEW r \in Requests, Arrive(r) \/ Statement(r) \/ Abort(r)
    PROVE  \A c \in Candidates : sends[c] <= sends'[c] /\ accepted[c] \subseteq accepted'[c]
<1>1. CASE Send(r)
  BY <1>1, JobType DEF Send, TypeOK
<1>2. CASE ~Send(r)
  <2>1. UNCHANGED bitrix
    BY <1>2 DEF Arrive, Abort, Statement, Authenticate, CheckStatus, InsertReview,
                UpdateTask, UpdateReview, LockCall, DeleteRows, CommitDelivery,
                CommitReject, CommitDelete
  <2>2. QED
    BY <2>1 DEF bitrix, TypeOK
<1>3. QED
  BY <1>1, <1>2

(* The call that a request made stays the latest of its candidate until the
   request ends, since no other delivery of it runs meanwhile.               *)
LEMMA AnswerIsLatestStep == DeliveryInv /\ [Next]_vars => AnswerIsLatest'
<1> SUFFICES ASSUME DeliveryInv, [Next]_vars, NEW q \in Requests PROVE AnswerIsLatestOf(q)'
  BY DEF AnswerIsLatest
<1> USE DEF DeliveryInv, RowsInv
<1>0. AnswerIsLatestOf(q)
  BY DEF AnswerIsLatest
<1>1. ASSUME NEW r \in Requests, Arrive(r) \/ Statement(r) \/ Abort(r), q # r
      PROVE  AnswerIsLatestOf(q)'
  <2> DEFINE c == job[q].cand
  <2>0. UNCHANGED <<pc[q], job[q], answer[q]>>
    BY <1>1, OthersUnchanged
  <2>1. SUFFICES ASSUME pc[q] = "answered" PROVE AnswerIsLatestOf(q)'
    BY <2>0 DEF AnswerIsLatestOf
  <2>2. c \in Candidates /\ answer[q] \in Answer
    BY <2>1, JobType DEF TypeOK
  <2>3. sends[c] <= sends'[c] /\ accepted[c] \subseteq accepted'[c]
        /\ sends[c] \in Nat /\ sends'[c] \in Nat
    BY <1>1, <2>2, BitrixGrows, TypeStep DEF TypeOK
  <2>4. \A i \in DOMAIN attempts'[c] : attempts'[c][i].send < answer[q].send
    <3>1. CASE CommitDelivery(r)
      <4>1. job[r].cand # c
        BY <1>1, <2>1, <3>1, RowsInvExcludes
           DEF CommitDelivery, Delivering, OneDeliveryAtATime
      <4>2. attempts'[c] = attempts[c]
        BY <2>2, <3>1, <4>1 DEF CommitDelivery, TypeOK
      <4>3. QED
        BY <1>0, <2>1, <4>2 DEF AnswerIsLatestOf
    <3>2. CASE CommitDelete(r)
      <4>1. attempts'[c] = attempts[c] \/ attempts'[c] = <<>>
        BY <2>2, <3>2 DEF CommitDelete, TypeOK
      <4>2. QED
        BY <1>0, <2>1, <4>1 DEF AnswerIsLatestOf
    <3>3. CASE attempts' = attempts
      BY <1>0, <2>1, <3>3 DEF AnswerIsLatestOf
    <3>4. QED
      BY <1>1, <3>1, <3>2, <3>3, OnlyCommitsChangeRows DEF CommitReject, db
  <2>5. QED
    BY <1>0, <2>0, <2>1, <2>2, <2>3, <2>4 DEF AnswerIsLatestOf, Answer
<1>2. ASSUME pc'[q] # "answered" PROVE AnswerIsLatestOf(q)'
  BY <1>2 DEF AnswerIsLatestOf
<1>3. CASE Send(q)
  <2> DEFINE c == job[q].cand
             n == sends[c] + 1
  <2>0. SUFFICES ASSUME pc'[q] = "answered" PROVE AnswerIsLatestOf(q)'
    BY <1>2
  <2>1. c \in Candidates /\ job' = job /\ attempts' = attempts /\ n \in Nat
    BY <1>3, JobType DEF Send, db, TypeOK
  <2>2. /\ answer'[q].send = n
        /\ answer'[q].ok => n \in accepted'[c]
        /\ sends'[c] = n
    <3>1. pc'[q] # "refused"
      BY <2>0
    <3>2. PICK created \in BOOLEAN, ok \in BOOLEAN :
            /\ ok => created
            /\ accepted' = [accepted EXCEPT ![c] = IF created THEN @ \cup {n} ELSE @]
            /\ answer' = [answer EXCEPT ![q] = [send |-> n, ok |-> ok]]
      BY <1>3, <3>1, FinishHeld DEF Send, Rollback
    <3>3. QED
      BY <1>3, <2>1, <3>2 DEF Send, TypeOK
  <2>3. \A i \in DOMAIN attempts[c] : attempts[c][i].send < n
    <3>1. \A i \in DOMAIN attempts[c] : attempts[c][i].send \in 1..sends[c]
      BY <2>1 DEF HistoryIsTrue, HistoryIsTrueOf
    <3>2. QED
      BY <2>1, <3>1 DEF TypeOK
  <2>4. n \in 1..n
    BY <2>1 DEF TypeOK
  <2>5. QED
    BY <2>1, <2>2, <2>3, <2>4 DEF AnswerIsLatestOf
<1>4. CASE Arrive(q)
  BY <1>2, <1>4 DEF Arrive, TypeOK
<1>5. CASE (Statement(q) \/ Abort(q)) /\ ~Send(q)
  <2>1. pc'[q] # "answered"
    <3>1. CASE CheckStatus(q)
      BY <3>1, FinishHeld DEF CheckStatus, Rollback, TypeOK
    <3>2. CASE InsertReview(q)
      <4>1. pc'[q] \in {"prepared", "staged", "refused"}
        BY <3>2, AcquireHeld, FinishHeld DEF InsertReview, Rollback
      <4>2. QED
        BY <4>1
    <3>3. CASE UpdateTask(q) \/ UpdateReview(q) \/ LockCall(q)
      BY <3>3, AcquireHeld, FinishHeld DEF UpdateTask, UpdateReview, LockCall, Rollback
    <3>4. CASE Authenticate(q) \/ DeleteRows(q)
      BY <3>4, AcquireHeld DEF Authenticate, DeleteRows
    <3>5. CASE CommitDelivery(q) \/ CommitReject(q) \/ CommitDelete(q) \/ Abort(q)
      BY <3>5, FinishHeld DEF CommitDelivery, CommitReject, CommitDelete, Abort, Rollback
    <3>6. QED
      BY <1>5, <3>1, <3>2, <3>3, <3>4, <3>5 DEF Statement
  <2>2. QED
    BY <1>2, <2>1
<1>6. CASE UNCHANGED vars
  BY <1>0, <1>6 DEF vars, AnswerIsLatestOf
<1>7. QED
  BY <1>1, <1>3, <1>4, <1>5, <1>6 DEF Next

(* A commit appends the latest call, so the history stays in order. *)
LEMMA HistoryStep == DeliveryInv /\ [Next]_vars => HistoryIsTrue'
<1> SUFFICES ASSUME DeliveryInv, [Next]_vars, NEW c \in Candidates PROVE HistoryIsTrueOf(c)'
  BY DEF HistoryIsTrue
<1> USE DEF DeliveryInv, RowsInv
<1>0. HistoryIsTrueOf(c)
  BY DEF HistoryIsTrue
<1>1. ASSUME NEW r \in Requests, Arrive(r) \/ Statement(r) \/ Abort(r)
      PROVE  HistoryIsTrueOf(c)'
  <2>1. sends[c] <= sends'[c] /\ accepted[c] \subseteq accepted'[c]
        /\ sends[c] \in Nat /\ sends'[c] \in Nat
    BY <1>1, BitrixGrows, TypeStep DEF TypeOK
  <2>2. CASE attempts'[c] = attempts[c]
    BY <1>0, <2>1, <2>2 DEF HistoryIsTrueOf
  <2>3. CASE attempts'[c] = <<>>
    BY <2>3 DEF HistoryIsTrueOf
  <2>4. CASE CommitDelivery(r) /\ job[r].cand = c
    <3> DEFINE a == answer[r]
               old == attempts[c]
    <3>1. old \in Seq(Attempt) /\ a \in Attempt
      BY DEF TypeOK, Answer, Attempt
    <3>2. attempts'[c] = Append(old, a)
      BY <2>4 DEF CommitDelivery, TypeOK
    <3>3. /\ a.send \in 1..sends[c]
          /\ a.ok => a.send \in accepted[c]
          /\ \A i \in DOMAIN old : old[i].send < a.send
      BY <2>4 DEF CommitDelivery, AnswerIsLatest, AnswerIsLatestOf
    <3>4. /\ DOMAIN Append(old, a) = DOMAIN old \cup {Len(old) + 1}
          /\ Append(old, a)[Len(old) + 1] = a
          /\ \A i \in DOMAIN old : Append(old, a)[i] = old[i] /\ i < Len(old) + 1
          /\ DOMAIN old = 1..Len(old) /\ Len(old) \in Nat
      BY <3>1
    <3>5. UNCHANGED bitrix
      BY <2>4 DEF CommitDelivery
    <3>6. QED
      BY <1>0, <3>2, <3>3, <3>4, <3>5 DEF HistoryIsTrueOf, bitrix
  <2>5. CASE CommitDelivery(r) /\ job[r].cand # c
    BY <2>2, <2>5 DEF CommitDelivery, TypeOK
  <2>6. CASE CommitDelete(r)
    BY <2>2, <2>3, <2>6 DEF CommitDelete, TypeOK
  <2>7. CASE CommitReject(r) \/ UNCHANGED db
    BY <2>2, <2>7 DEF CommitReject, db
  <2>8. QED
    BY <1>1, <2>4, <2>5, <2>6, <2>7, OnlyCommitsChangeRows
<1>2. CASE UNCHANGED vars
  BY <1>0, <1>2 DEF vars, HistoryIsTrueOf
<1>3. QED
  BY <1>1, <1>2 DEF Next

(* Together these are inductive. *)
LEMMA DeliveryInvInit == Init => DeliveryInv
<1> SUFFICES ASSUME Init PROVE DeliveryInv
  OBVIOUS
<1>1. RowsInv
  BY RowsInvInit
<1>2. AnswerIsLatest /\ HistoryIsTrue
  BY DEF Init, AnswerIsLatest, AnswerIsLatestOf, HistoryIsTrue, HistoryIsTrueOf
<1>3. QED
  BY <1>1, <1>2 DEF DeliveryInv

(* The facts about rows together with those about Bitrix are inductive. *)
LEMMA DeliveryInvStep == DeliveryInv /\ [Next]_vars => DeliveryInv'
BY RowsInvStep, AnswerIsLatestStep, HistoryStep DEF DeliveryInv

(* The history of a candidate never lists a call to Bitrix that was not made, a
   task that does not exist, or two calls out of order.                      *)
THEOREM HistoryAlwaysTrue == Spec => []HistoryIsTrue
<1>1. DeliveryInv => HistoryIsTrue
  BY DEF DeliveryInv
<1>2. QED
  BY <1>1, DeliveryInvInit, DeliveryInvStep, PTL DEF Spec

-----------------------------------------------------------------------------
(* Every call to Bitrix *)

Started == {r \in Requests : pc[r] # "idle"}

Unrecorded(c) == {n \in 1..sends[c] : \A i \in DOMAIN attempts[c] : attempts[c][i].send # n}
BrokenOff(c)  == {r \in Requests : pc[r] \in {"answered", "refused"} /\ job[r].cand = c}

(* For each call that is not in the history there is a request that made it and
   has not committed; there are finitely many, because each has arrived.     *)
RecordedOf(c) == live[c] => Cardinality(Unrecorded(c)) <= Cardinality(BrokenOff(c))

RecordedInv == IsFiniteSet(Started) /\ \A c \in Candidates : RecordedOf(c)

(* The sets that are counted are finite. *)
LEMMA CountedAreFinite ==
    ASSUME TypeOK, RecordedInv, NEW c \in Candidates
    PROVE  /\ IsFiniteSet(Unrecorded(c)) /\ Cardinality(Unrecorded(c)) \in Nat
           /\ IsFiniteSet(BrokenOff(c)) /\ Cardinality(BrokenOff(c)) \in Nat
<1>1. sends[c] \in Int /\ IsFiniteSet(1..sends[c])
  BY FS_Interval DEF TypeOK
<1>2. IsFiniteSet(Unrecorded(c))
  <2>1. Unrecorded(c) \subseteq 1..sends[c]
    BY DEF Unrecorded
  <2>2. QED
    BY <1>1, <2>1, FS_Subset
<1>3. IsFiniteSet(BrokenOff(c))
  <2>1. BrokenOff(c) \subseteq Started
    BY DEF BrokenOff, Started
  <2>2. QED
    BY <2>1, FS_Subset DEF RecordedInv
<1>4. QED
  BY <1>2, <1>3, FS_CardinalityType

(* A step starts one request at most. *)
LEMMA StartedStep ==
    ASSUME TypeOK, RecordedInv, NEW r \in Requests, Arrive(r) \/ Statement(r) \/ Abort(r)
    PROVE  IsFiniteSet(Started')
<1>1. Started' \subseteq Started \cup {r}
  BY OthersUnchanged DEF Started
<1>2. IsFiniteSet(Started \cup {r})
  BY FS_AddElement DEF RecordedInv
<1>3. QED
  BY <1>1, <1>2, FS_Subset

(* task_add is called for one request and by it: one more of each. *)
LEMMA SendRecorded ==
    ASSUME DeliveryInv, RecordedInv, NEW r \in Requests, Send(r),
           NEW c \in Candidates, c = job[r].cand
    PROVE  RecordedOf(c)'
<1> DEFINE n == sends[c] + 1
<1>0. TypeOK /\ HistoryIsTrue /\ pc[r] = "prepared"
  BY DEF DeliveryInv, RowsInv, Send
<1>1. sends[c] \in Nat
  BY <1>0 DEF TypeOK
<1>2. /\ sends' = [sends EXCEPT ![c] = n]
      /\ UNCHANGED db /\ job' = job
      /\ \E s \in {"answered", "refused"} : pc' = [pc EXCEPT ![r] = s]
  BY DEF Send, Rollback, Finish
<1>3. sends'[c] = n /\ attempts'[c] = attempts[c] /\ live'[c] = live[c]
  BY <1>0, <1>1, <1>2 DEF TypeOK, db
<1>4. Unrecorded(c)' = Unrecorded(c) \cup {n}
  <2>1. \A i \in DOMAIN attempts[c] : attempts[c][i].send \in 1..sends[c]
    BY <1>0, <1>1 DEF HistoryIsTrue, HistoryIsTrueOf
  <2>2. \A m : m \in 1..n <=> m \in 1..sends[c] \/ m = n
    BY <1>1
  <2>3. \A i \in DOMAIN attempts[c] : attempts[c][i].send # n
    BY <1>1, <2>1
  <2> HIDE DEF n
  <2>4. QED
    BY <1>2, <1>3, <2>2, <2>3 DEF Unrecorded
<1>5. n \notin Unrecorded(c)
  BY <1>1 DEF Unrecorded
<1>6. BrokenOff(c)' = BrokenOff(c) \cup {r} /\ r \notin BrokenOff(c)
  BY <1>0, <1>2 DEF BrokenOff, TypeOK
<1> HIDE DEF n
<1>7. /\ Cardinality(Unrecorded(c)') = Cardinality(Unrecorded(c)) + 1
      /\ Cardinality(BrokenOff(c)') = Cardinality(BrokenOff(c)) + 1
  <2>1. IsFiniteSet(Unrecorded(c)) /\ IsFiniteSet(BrokenOff(c))
    BY <1>0, CountedAreFinite
  <2>2. QED
    BY <1>4, <1>5, <1>6, <2>1, FS_AddElement
<1>8. /\ Cardinality(Unrecorded(c)) \in Nat /\ Cardinality(BrokenOff(c)) \in Nat
      /\ RecordedOf(c)
  BY <1>0, CountedAreFinite DEF RecordedInv
<1>9. QED
  BY <1>3, <1>7, <1>8 DEF RecordedOf

(* A commit puts the one call of its request, the latest, into the history. *)
LEMMA CommitRecorded ==
    ASSUME DeliveryInv, RecordedInv, NEW r \in Requests, CommitDelivery(r),
           NEW c \in Candidates, c = job[r].cand
    PROVE  RecordedOf(c)'
<1>0. TypeOK /\ AnswerIsLatest /\ pc[r] = "answered"
  BY DEF DeliveryInv, RowsInv, CommitDelivery
<1> PICK a \in Attempt : a = answer[r]
  BY <1>0 DEF TypeOK, Answer, Attempt
<1>1. attempts[c] \in Seq(Attempt)
  BY <1>0 DEF TypeOK
<1>2. /\ attempts' = [attempts EXCEPT ![c] = Append(@, a)]
      /\ pc' = [pc EXCEPT ![r] = "done"]
      /\ live' = live /\ sends' = sends /\ job' = job
  BY DEF CommitDelivery, Finish, bitrix
<1>3. attempts'[c] = Append(attempts[c], a)
  BY <1>0, <1>1, <1>2 DEF TypeOK
<1>4. Unrecorded(c)' = Unrecorded(c) \ {a.send}
  <2>1. ASSUME NEW m
        PROVE  (\A i \in DOMAIN attempts'[c] : attempts'[c][i].send # m) <=>
                   (\A i \in DOMAIN attempts[c] : attempts[c][i].send # m) /\ a.send # m
    <3>1. DOMAIN attempts'[c] = DOMAIN attempts[c] \cup {Len(attempts[c]) + 1}
      BY <1>1, <1>3
    <3>2. /\ \A i \in DOMAIN attempts[c] : attempts'[c][i] = attempts[c][i]
          /\ attempts'[c][Len(attempts[c]) + 1] = a
      BY <1>1, <1>3
    <3>3. QED
      BY <3>1, <3>2
  <2>2. Unrecorded(c)' = {m \in 1..sends[c] :
                             \A i \in DOMAIN attempts'[c] : attempts'[c][i].send # m}
    BY <1>2 DEF Unrecorded
  <2>3. QED
    BY <2>1, <2>2 DEF Unrecorded
<1>5. a.send \in Unrecorded(c)
  <2>1. a.send \in 1..sends[c] /\ \A i \in DOMAIN attempts[c] : attempts[c][i].send < a.send
    BY <1>0 DEF AnswerIsLatest, AnswerIsLatestOf
  <2>2. \A i \in DOMAIN attempts[c] : attempts[c][i].send \in Nat
    <3>1. \A i \in DOMAIN attempts[c] : attempts[c][i] \in Attempt
      BY <1>1
    <3>2. QED
      BY <3>1 DEF Attempt
  <2>3. QED
    BY <2>1, <2>2 DEF Unrecorded
<1>6. BrokenOff(c)' = BrokenOff(c) \ {r} /\ r \in BrokenOff(c)
  BY <1>0, <1>2 DEF BrokenOff, TypeOK
<1>7. /\ Cardinality(Unrecorded(c)') = Cardinality(Unrecorded(c)) - 1
      /\ Cardinality(BrokenOff(c)') = Cardinality(BrokenOff(c)) - 1
  <2>1. IsFiniteSet(Unrecorded(c)) /\ IsFiniteSet(BrokenOff(c))
    BY <1>0, CountedAreFinite
  <2>2. QED
    BY <1>4, <1>5, <1>6, <2>1, FS_RemoveElement
<1>8. /\ Cardinality(Unrecorded(c)) \in Nat /\ Cardinality(BrokenOff(c)) \in Nat
      /\ RecordedOf(c)
  BY <1>0, CountedAreFinite DEF RecordedInv
<1>9. QED
  BY <1>2, <1>7, <1>8 DEF RecordedOf

(* Any other step leaves what was sent and recorded for a candidate as it is, and
   no request that broke off comes back.                                     *)
LEMMA OthersRecorded ==
    ASSUME DeliveryInv, RecordedInv, NEW r \in Requests,
           Arrive(r) \/ Statement(r) \/ Abort(r), NEW c \in Candidates,
           ~(Send(r) /\ c = job[r].cand), ~(CommitDelivery(r) /\ c = job[r].cand)
    PROVE  RecordedOf(c)'
<1>0. TypeOK /\ RecordedOf(c) /\ (pc[r] = "idle" \/ job[r].cand \in Candidates)
  BY JobType DEF DeliveryInv, RowsInv, RecordedInv
<1>1. CASE ~live'[c]
  BY <1>1 DEF RecordedOf
<1>2. CASE live'[c]
  <2>1. live[c] /\ sends'[c] = sends[c] /\ attempts'[c] = attempts[c]
    <3>1. CASE Send(r)
      <4>1. /\ c # job[r].cand /\ UNCHANGED db
            /\ sends' = [sends EXCEPT ![job[r].cand] = sends[job[r].cand] + 1]
        BY <3>1 DEF Send
      <4>2. QED
        BY <1>0, <1>2, <4>1 DEF db, TypeOK
    <3>2. CASE CommitDelivery(r)
      BY <1>0, <1>2, <3>2 DEF CommitDelivery, bitrix, TypeOK
    <3>3. CASE CommitReject(r) \/ CommitDelete(r)
      BY <1>0, <1>2, <3>3 DEF CommitReject, CommitDelete, bitrix, TypeOK
    <3>4. CASE UNCHANGED <<live, sends, attempts>>
      BY <1>2, <3>4
    <3>5. QED
      BY <3>1, <3>2, <3>3, <3>4
         DEF Arrive, Abort, Statement, Authenticate, CheckStatus, InsertReview, UpdateTask,
             UpdateReview, LockCall, DeleteRows, db, bitrix
  <2>2. Unrecorded(c)' = Unrecorded(c)
    BY <2>1 DEF Unrecorded
  <2>3. BrokenOff(c) \subseteq BrokenOff(c)'
    <3>1. ASSUME NEW q \in BrokenOff(c) PROVE q \in BrokenOff(c)'
      <4>0. q \in Requests /\ pc[q] \in {"answered", "refused"} /\ job[q].cand = c
        BY DEF BrokenOff
      <4>1. CASE q # r
        BY <4>0, <4>1, OthersUnchanged, <1>0 DEF BrokenOff, DeliveryInv, RowsInv
      <4>2. CASE q = r
        <5>1. Abort(r)
          BY <4>0, <4>2 DEF Arrive, Statement, Authenticate, CheckStatus, InsertReview,
             UpdateTask, UpdateReview, LockCall, DeleteRows, Send, CommitDelivery,
             CommitReject, CommitDelete
        <5>2. QED
          BY <1>0, <4>0, <4>2, <5>1, FinishHeld DEF Abort, Rollback, BrokenOff
      <4>3. QED
        BY <4>1, <4>2
    <3>2. QED
      BY <3>1
  <2>4. IsFiniteSet(BrokenOff(c)')
    <3>1. IsFiniteSet(Started')
      BY <1>0, StartedStep
    <3>2. BrokenOff(c)' \subseteq Started'
      BY DEF BrokenOff, Started
    <3>3. QED
      BY <3>1, <3>2, FS_Subset
  <2>5. /\ Cardinality(BrokenOff(c)) <= Cardinality(BrokenOff(c)')
        /\ Cardinality(BrokenOff(c)') \in Nat
    BY <2>3, <2>4, FS_Subset, FS_CardinalityType
  <2>6. Cardinality(Unrecorded(c)) \in Nat /\ Cardinality(BrokenOff(c)) \in Nat
    BY <1>0, CountedAreFinite
  <2>7. QED
    BY <1>0, <2>1, <2>2, <2>5, <2>6 DEF RecordedOf
<1>3. QED
  BY <1>1, <1>2

(* Every step keeps the two counts in this relation. *)
LEMMA RecordedStep == DeliveryInv /\ RecordedInv /\ [Next]_vars => RecordedInv'
<1> SUFFICES ASSUME DeliveryInv, RecordedInv, [Next]_vars PROVE RecordedInv'
  OBVIOUS
<1>1. ASSUME NEW r \in Requests, Arrive(r) \/ Statement(r) \/ Abort(r) PROVE RecordedInv'
  <2>1. IsFiniteSet(Started)'
    BY <1>1, StartedStep DEF DeliveryInv, RowsInv
  <2>2. ASSUME NEW c \in Candidates PROVE RecordedOf(c)'
    BY <1>1, SendRecorded, CommitRecorded, OthersRecorded
  <2>3. QED
    BY <2>1, <2>2 DEF RecordedInv
<1>2. CASE UNCHANGED vars
  BY <1>2 DEF vars, RecordedInv, Started, RecordedOf, Unrecorded, BrokenOff
<1>3. QED
  BY <1>1, <1>2 DEF Next

(* Nothing was sent before the first request. *)
LEMMA RecordedInit == Init => RecordedInv
<1> SUFFICES ASSUME Init PROVE RecordedInv
  OBVIOUS
<1>1. Started = {}
  BY DEF Init, Started
<1>2. ASSUME NEW c \in Candidates PROVE RecordedOf(c)
  <2>1. Unrecorded(c) = {} /\ BrokenOff(c) = {}
    BY DEF Init, Unrecorded, BrokenOff
  <2>2. QED
    BY <2>1, FS_EmptySet DEF RecordedOf
<1>3. QED
  BY <1>1, <1>2, FS_EmptySet DEF RecordedInv

(* A call to Bitrix that is not in the history of its candidate is one of a
   request that has not committed, one call for each such request at most, for
   any number of requests, candidates and sessions.                          *)
THEOREM DeliveriesRecorded == Spec => []EveryDeliveryRecorded
<1>1. RecordedInv => EveryDeliveryRecorded
  BY DEF RecordedInv, RecordedOf, Unrecorded, BrokenOff, EveryDeliveryRecorded
<1>2. QED
  BY <1>1, RecordedInit, RecordedStep, DeliveryInvInit, DeliveryInvStep, PTL DEF Spec
=============================================================================
