------------------------- MODULE DeliveryRefinement -------------------------
(***************************************************************************)
(* Delivery implements CandidateLifecycle when all requests come from one  *)
(* session: the session's row, which Authenticate locks, makes each wait   *)
(* for the one before it.                                                  *)
(***************************************************************************)
EXTENDS DeliveryProofs

OneSession == \A s, t \in Sessions : s = t

InSession(r) == pc[r] \in {"authed", "checked", "prepared", "answered", "staged"}
Decided(r)   == pc[r] \in {"checked", "prepared", "answered", "staged"}

SessionHeldBy(r) == InSession(r) => SessionRow(job[r].sess) \in held[r]
SessionHeld == \A r \in Requests : SessionHeldBy(r)

(* What a handler read is still so. *)
SeenHoldsFor(r) ==
    LET c == job[r].cand IN
    Decided(r) =>
        /\ live[c]
        /\ job[r].op # "delete" => Status(c) \in Expected(job[r].op)

SeenHolds == \A r \in Requests : SeenHoldsFor(r)

(* Requests keep their session's row from Authenticate to the end. *)
LEMMA SessionHeldStep == TypeOK /\ SessionHeld /\ [Next]_vars => SessionHeld'
<1> SUFFICES ASSUME TypeOK, SessionHeld, [Next]_vars, NEW q \in Requests
             PROVE  SessionHeldBy(q)'
  BY DEF SessionHeld
<1>0. SessionHeldBy(q)
  BY DEF SessionHeld
<1>1. ASSUME NEW r \in Requests, Arrive(r) \/ Statement(r) \/ Abort(r), q # r
      PROVE  SessionHeldBy(q)'
  BY <1>0, <1>1, OthersUnchanged DEF SessionHeldBy, InSession
<1>2. CASE Arrive(q)
  BY <1>2 DEF Arrive, SessionHeldBy, InSession, TypeOK
<1>3. CASE Statement(q) \/ Abort(q)
  <2>0. job' = job
    BY <1>3, StatementShape
  <2>1. CASE Authenticate(q)
    BY <2>0, <2>1, AcquireHeld DEF Authenticate, SessionHeldBy
  <2>2. CASE ~Authenticate(q)
    <3>1. InSession(q) \/ Abort(q)
      BY <1>3, <2>2 DEF Statement, CheckStatus, InsertReview, UpdateTask, UpdateReview,
                        LockCall, DeleteRows, Send, CommitDelivery, CommitReject,
                        CommitDelete, InSession
    <3>2. CASE \E ls \in SUBSET Locks, stage \in Stages : Acquire(q, ls, stage)
      <4>1. held[q] \subseteq held'[q]
        BY <3>2, AcquireHeld
      <4>2. CASE Abort(q)
        BY <4>2, FinishHeld DEF Abort, Rollback, SessionHeldBy, InSession
      <4>3. QED
        BY <1>0, <2>0, <3>1, <4>1, <4>2 DEF SessionHeldBy
    <3>3. CASE \E stage \in {"done", "refused"} : Finish(q, stage)
      BY <3>3, FinishHeld DEF SessionHeldBy, InSession
    <3>4. CASE held' = held
      <4>1. CASE Abort(q)
        BY <4>1, FinishHeld DEF Abort, Rollback, SessionHeldBy, InSession
      <4>2. QED
        BY <1>0, <2>0, <3>1, <3>4, <4>1 DEF SessionHeldBy
    <3>5. QED
      BY <1>3, <3>2, <3>3, <3>4, StatementShape
  <2>3. QED
    BY <2>1, <2>2
<1>4. CASE UNCHANGED vars
  BY <1>0, <1>4 DEF vars, SessionHeldBy, InSession
<1>5. QED
  BY <1>1, <1>2, <1>3, <1>4 DEF Next

(* With one session, one request at a time is past Authenticate. *)
LEMMA OneInSession ==
    ASSUME OneSession, TypeOK, Exclusive, SessionHeld,
           NEW q \in Requests, NEW r \in Requests, InSession(q), InSession(r)
    PROVE  q = r
<1>1. job[q].sess = job[r].sess
  BY JobType DEF OneSession, InSession
<1>2. Blocks(SessionRow(job[q].sess), SessionRow(job[q].sess))
  BY DEF Blocks, SessionRow
<1>3. QED
  BY <1>1, <1>2 DEF SessionHeld, SessionHeldBy, Exclusive

(* A request's own statements leave the rows as it read them until it commits,
   and with one session there are no others.                                 *)
LEMMA SeenHoldsStep ==
    ASSUME OneSession
    PROVE  TypeOK /\ Exclusive /\ SessionHeld /\ SeenHolds /\ [Next]_vars => SeenHolds'
<1> SUFFICES ASSUME TypeOK, Exclusive, SessionHeld, SeenHolds, [Next]_vars,
                    NEW q \in Requests
             PROVE  SeenHoldsFor(q)'
  BY DEF SeenHolds
<1>0. SeenHoldsFor(q)
  BY DEF SeenHolds
<1>1. ASSUME NEW r \in Requests, Arrive(r) \/ Statement(r) \/ Abort(r), q # r
      PROVE  SeenHoldsFor(q)'
  <2>1. UNCHANGED <<pc[q], job[q]>>
    BY <1>1, OthersUnchanged
  <2>2. CASE Decided(q)
    <3>1. ~InSession(r)
      BY <1>1, <2>2, OneInSession DEF Decided, InSession
    <3>2. UNCHANGED db
      BY <1>1, <3>1, OnlyCommitsChangeRows
         DEF CommitDelivery, CommitReject, CommitDelete, InSession
    <3>3. QED
      BY <1>0, <2>1, <3>2 DEF SeenHoldsFor, Decided, db, Status
  <2>3. CASE ~Decided(q)
    BY <2>1, <2>3 DEF SeenHoldsFor, Decided
  <2>4. QED
    BY <2>2, <2>3
<1>2. CASE pc'[q] \in {"arrived", "authed", "done", "refused"}
  BY <1>2 DEF SeenHoldsFor, Decided
<1>3. CASE Arrive(q)
  BY <1>2, <1>3 DEF Arrive, TypeOK
<1>4. CASE Statement(q) \/ Abort(q)
  <2> DEFINE c == job[q].cand
  <2>0. job' = job
    BY <1>4, StatementShape
  <2>1. CASE Authenticate(q)
    BY <1>2, <2>1, AcquireHeld DEF Authenticate
  <2>2. CASE CheckStatus(q)
    <3>1. pc'[q] = "refused" \/ (live[c] /\ Status(c) \in Expected(job[q].op))
      BY <2>2, FinishHeld DEF CheckStatus, Rollback
    <3>2. UNCHANGED db
      BY <2>2 DEF CheckStatus
    <3>3. QED
      BY <1>2, <2>0, <3>1, <3>2 DEF SeenHoldsFor, db, Status
  <2>3. CASE LockCall(q)
    <3>1. pc'[q] = "refused" \/ (live[c] /\ job[q].op = "delete")
      BY <2>3, FinishHeld DEF LockCall, Rollback
    <3>2. UNCHANGED db
      BY <2>3 DEF LockCall
    <3>3. QED
      BY <1>2, <2>0, <3>1, <3>2 DEF SeenHoldsFor, db
  <2>4. CASE InsertReview(q) \/ UpdateTask(q) \/ UpdateReview(q) \/ DeleteRows(q) \/ Send(q)
    <3>1. Decided(q) /\ UNCHANGED db
      BY <2>4 DEF InsertReview, UpdateTask, UpdateReview, DeleteRows, Send, Decided
    <3>2. QED
      BY <1>0, <2>0, <3>1 DEF SeenHoldsFor, db, Status
  <2>5. CASE CommitDelivery(q) \/ CommitReject(q) \/ CommitDelete(q) \/ Abort(q)
    BY <1>2, <2>5, FinishHeld DEF CommitDelivery, CommitReject, CommitDelete, Abort, Rollback
  <2>6. QED
    BY <1>4, <2>1, <2>2, <2>3, <2>4, <2>5 DEF Statement
<1>5. CASE UNCHANGED vars
  BY <1>0, <1>5 DEF vars, SeenHoldsFor, Decided, Status
<1>6. QED
  BY <1>1, <1>3, <1>4, <1>5 DEF Next

RefinementInv == DeliveryInv /\ SessionHeld /\ SeenHolds

(* It holds before the first request, and every step keeps it. *)
LEMMA RefinementInvInit == Init => RefinementInv
<1> SUFFICES ASSUME Init PROVE SessionHeld /\ SeenHolds
  BY DeliveryInvInit DEF RefinementInv
<1>1. QED
  BY DEF Init, SessionHeld, SessionHeldBy, InSession, SeenHolds, SeenHoldsFor, Decided

LEMMA RefinementInvStep ==
    ASSUME OneSession
    PROVE  RefinementInv /\ [Next]_vars => RefinementInv'
BY DeliveryInvStep, SessionHeldStep, SeenHoldsStep DEF RefinementInv, DeliveryInv, RowsInv

-----------------------------------------------------------------------------
(* A commit is the step of CandidateLifecycle named for its outcome, and every
   other step is no step of it.                                              *)
LEMMA StepRefines ==
    ASSUME OneSession
    PROVE  RefinementInv /\ [Next]_vars => [Lifecycle!Next]_(Lifecycle!vars)
<1> SUFFICES ASSUME RefinementInv, [Next]_vars PROVE [Lifecycle!Next]_(Lifecycle!vars)
  OBVIOUS
<1> USE DEF RefinementInv, DeliveryInv, RowsInv
<1>1. CASE UNCHANGED db
  BY <1>1 DEF db, Lifecycle!vars, Status
<1>2. ASSUME NEW r \in Requests, CommitDelivery(r) PROVE Lifecycle!Next
  <2> DEFINE a == answer[r]
  <2>0. PICK c \in Candidates : c = job[r].cand
    BY <1>2, JobType DEF CommitDelivery
  <2>1. /\ live[c] /\ a.send \in Nat \ {0}
        /\ Status(c) \in {"pending", "failed"}
        /\ job[r].op \in {"confirm", "retry"}
    <3>1. pc[r] = "answered"
      BY <1>2 DEF CommitDelivery
    <3>2. job[r].op \in {"confirm", "retry"}
      BY <3>1 DEF RowsHeld, RowsHeldBy, Delivering
    <3>3. live[c] /\ Status(c) \in Expected(job[r].op)
      BY <2>0, <3>1, <3>2 DEF SeenHolds, SeenHoldsFor, Decided
    <3>4. a.send \in 1..sends[c]
      BY <2>0, <3>1 DEF AnswerIsLatest, AnswerIsLatestOf
    <3>5. QED
      BY <3>2, <3>3, <3>4 DEF Expected, TypeOK
  <2>2. /\ review[c] # "rejected"
        /\ item[c] = 0
    BY <2>0, <2>1 DEF Status, RowsAgree, RowsAgreeOf, TypeOK, Deliveries
  <2>3. /\ task' = [task EXCEPT ![c] = IF a.ok THEN "created" ELSE "failed"]
        /\ item' = [item EXCEPT ![c] = IF a.ok THEN a.send ELSE 0]
        /\ review' = [review EXCEPT ![c] = IF job[r].op = "confirm" THEN "confirmed" ELSE @]
        /\ live' = live
    BY <1>2, <2>0 DEF CommitDelivery
  <2>4. /\ review'[c] # "rejected"
        /\ task'[c] = IF a.ok THEN "created" ELSE "failed"
        /\ \A d \in Candidates \ {c} : review'[d] = review[d] /\ task'[d] = task[d]
    BY <2>2, <2>3 DEF TypeOK
  <2>5. /\ Status(c)' = IF a.ok THEN "confirmed" ELSE "failed"
        /\ \A d \in Candidates \ {c} : Status(d)' = Status(d)
    BY <2>4 DEF Status
  <2>6. CASE a.ok
    <3>1. Lifecycle!Confirm(c)
      BY <2>1, <2>3, <2>5, <2>6 DEF Lifecycle!Confirm, Lifecycle!Open, Lifecycle!Become, TypeOK
    <3>2. QED
      BY <3>1 DEF Lifecycle!Next
  <2>7. CASE ~a.ok
    <3>1. Lifecycle!Fail(c)
      BY <2>1, <2>2, <2>3, <2>5, <2>7 DEF Lifecycle!Fail, Lifecycle!Open, Lifecycle!Become, TypeOK
    <3>2. QED
      BY <3>1 DEF Lifecycle!Next
  <2>8. QED
    BY <2>6, <2>7
<1>3. ASSUME NEW r \in Requests, CommitReject(r) PROVE Lifecycle!Next
  <2>0. PICK c \in Candidates : c = job[r].cand
    BY <1>3, JobType DEF CommitReject
  <2>1. live[c] /\ Status(c) \in {"pending", "failed"}
    BY <1>3, <2>0 DEF CommitReject, SeenHolds, SeenHoldsFor, Decided, Expected
  <2>2. /\ review' = [review EXCEPT ![c] = "rejected"]
        /\ UNCHANGED <<live, task, item>>
    BY <1>3, <2>0 DEF CommitReject
  <2>3. /\ Status(c)' = "rejected"
        /\ \A d \in Candidates \ {c} : Status(d)' = Status(d)
    BY <2>2 DEF Status, TypeOK
  <2>4. Lifecycle!Reject(c)
    BY <2>1, <2>2, <2>3 DEF Lifecycle!Reject, Lifecycle!Open, Lifecycle!Become, TypeOK
  <2>5. QED
    BY <2>4 DEF Lifecycle!Next
<1>4. ASSUME NEW r \in Requests, CommitDelete(r) PROVE Lifecycle!Next
  <2>0. PICK c \in Candidates : c = job[r].cand
    BY <1>4, JobType DEF CommitDelete
  <2>1. live[c]
    BY <1>4, <2>0 DEF CommitDelete, SeenHolds, SeenHoldsFor, Decided
  <2>2. /\ live' = [live EXCEPT ![c] = FALSE]
        /\ review' = [review EXCEPT ![c] = "none"]
        /\ task' = [task EXCEPT ![c] = "none"]
        /\ item' = [item EXCEPT ![c] = 0]
    BY <1>4, <2>0 DEF CommitDelete
  <2>3. \A d \in Candidates \ {c} : Status(d)' = Status(d)
    BY <2>2 DEF Status, TypeOK
  <2>4. Status(c) # "deleted"
    BY StatusType DEF Statuses
  <2>5. Lifecycle!Delete(c)
    BY <2>1, <2>2, <2>3, <2>4 DEF Lifecycle!Delete, Lifecycle!Become, TypeOK
  <2>6. QED
    BY <2>5 DEF Lifecycle!Next
<1>5. QED
  BY <1>1, <1>2, <1>3, <1>4, OnlyCommitsChangeRows DEF Next, vars, db

(* With one session, the requests move the candidates only as CandidateLifecycle
   allows: no task is created twice, nothing follows a confirmed or a rejected
   candidate but the deletion of its call.                                    *)
THEOREM DeliveryRefines ==
    ASSUME OneSession
    PROVE  Spec => LifecycleSpec
<1>1. Init => RefinementInv /\ Lifecycle!Init
  BY RefinementInvInit DEF Init, Lifecycle!Init, Status
<1>2. RefinementInv /\ [Next]_vars => RefinementInv'
  BY RefinementInvStep
<1>3. RefinementInv /\ [Next]_vars => [Lifecycle!Next]_(Lifecycle!vars)
  BY StepRefines
<1>4. QED
  BY <1>1, <1>2, <1>3, PTL DEF Spec, LifecycleSpec, Lifecycle!Spec

-----------------------------------------------------------------------------
(* One outcome *)

(* Only the last attempt of a candidate can have succeeded, and not when the
   candidate was rejected.                                                   *)
OutcomeInvOf(c) ==
    /\ \A i \in DOMAIN attempts[c] : attempts[c][i].ok => i = Len(attempts[c])
    /\ review[c] = "rejected" => task[c] # "created"

OutcomeInv == \A c \in Candidates : OutcomeInvOf(c)

(* A candidate whose task is not created has no successful attempt. *)
LEMMA NothingSucceeded ==
    ASSUME RowsInv, NEW c \in Candidates, OutcomeInvOf(c), task[c] # "created"
    PROVE  \A i \in DOMAIN attempts[c] : ~attempts[c][i].ok
<1> SUFFICES ASSUME NEW i \in DOMAIN attempts[c], attempts[c][i].ok PROVE FALSE
  OBVIOUS
<1>1. i = Len(attempts[c]) /\ Last(attempts[c]).ok
  BY DEF OutcomeInvOf, Last
<1>2. attempts[c] # <<>>
  OBVIOUS
<1>3. QED
  BY <1>1, <1>2 DEF RowsInv, RowsAgree, RowsAgreeOf

(* A delivery and a rejection commit for a candidate that is still open: what
   they read under the session's lock is so.                                 *)
LEMMA OutcomeStep ==
    ASSUME OneSession
    PROVE  RefinementInv /\ OutcomeInv /\ [Next]_vars => OutcomeInv'
<1> SUFFICES ASSUME RefinementInv, OutcomeInv, [Next]_vars, NEW c \in Candidates
             PROVE  OutcomeInvOf(c)'
  BY DEF OutcomeInv
<1> USE DEF RefinementInv, DeliveryInv, RowsInv
<1>0. OutcomeInvOf(c) /\ attempts[c] \in Seq(Attempt)
  BY DEF OutcomeInv, TypeOK
<1>1. CASE UNCHANGED <<attempts[c], review[c], task[c]>>
  BY <1>0, <1>1 DEF OutcomeInvOf
<1>2. ASSUME NEW r \in Requests, CommitDelivery(r), c = job[r].cand PROVE OutcomeInvOf(c)'
  <2>1. /\ attempts'[c] = Append(attempts[c], answer[r])
        /\ review'[c] \in {review[c], "confirmed"}
    BY <1>2 DEF CommitDelivery, TypeOK
  <2>2. Status(c) \in {"pending", "failed"}
    <3>1. pc[r] = "answered" /\ job[r].op \in {"confirm", "retry"}
      BY <1>2 DEF CommitDelivery, RowsHeld, RowsHeldBy, Delivering
    <3>2. QED
      BY <1>2, <3>1 DEF SeenHolds, SeenHoldsFor, Decided, Expected
  <2>3. review[c] # "rejected" /\ task[c] # "created"
    BY <2>2 DEF Status
  <2>4. \A i \in DOMAIN attempts[c] : ~attempts[c][i].ok
    BY <1>0, <2>3, NothingSucceeded
  <2>5. \A i \in DOMAIN attempts'[c] : attempts'[c][i].ok => i = Len(attempts'[c])
    BY <1>0, <2>1, <2>4 DEF TypeOK
  <2>6. QED
    BY <2>1, <2>3, <2>5 DEF OutcomeInvOf
<1>3. ASSUME NEW r \in Requests, CommitReject(r), c = job[r].cand PROVE OutcomeInvOf(c)'
  <2>1. Status(c) \in {"pending", "failed"}
    BY <1>3 DEF CommitReject, SeenHolds, SeenHoldsFor, Decided, Expected
  <2>2. task[c] # "created" \/ review[c] = "rejected"
    BY <2>1 DEF Status
  <2>3. QED
    BY <1>0, <1>3, <2>2 DEF CommitReject, OutcomeInvOf
<1>4. ASSUME NEW r \in Requests, CommitDelete(r), c = job[r].cand PROVE OutcomeInvOf(c)'
  BY <1>4 DEF CommitDelete, OutcomeInvOf, TypeOK
<1>5. ASSUME NEW r \in Requests, CommitDelivery(r) \/ CommitReject(r) \/ CommitDelete(r),
             c # job[r].cand
      PROVE  UNCHANGED <<attempts[c], review[c], task[c]>>
  BY <1>5 DEF CommitDelivery, CommitReject, CommitDelete, TypeOK
<1>6. QED
  BY <1>1, <1>2, <1>3, <1>4, <1>5, OnlyCommitsChangeRows DEF Next, vars, db

(* With one session, a candidate gets at most one task that its rows know of,
   and none when it is rejected, for any number of requests.                 *)
THEOREM OutcomesAreOne ==
    ASSUME OneSession
    PROVE  Spec => []OneOutcome
<1>1. Init => RefinementInv /\ OutcomeInv
  BY RefinementInvInit DEF Init, OutcomeInv, OutcomeInvOf
<1>2. RefinementInv /\ OutcomeInv /\ [Next]_vars => (RefinementInv /\ OutcomeInv)'
  BY RefinementInvStep, OutcomeStep
<1>3. OutcomeInv => OneOutcome
  BY DEF OutcomeInv, OutcomeInvOf, OneOutcome
<1>4. QED
  BY <1>1, <1>2, <1>3, PTL DEF Spec
=============================================================================
