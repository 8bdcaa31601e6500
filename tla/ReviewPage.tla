----------------------------- MODULE ReviewPage -----------------------------
(***************************************************************************)
(* The page of an operator (frontend/src/App.tsx): the list of calls with  *)
(* their candidates, the modal in which a candidate is decided, and the    *)
(* polling that goes on while a call on the page is queued or processed.   *)
(*                                                                         *)
(* JavaScript runs one handler at a time, but between a request and its    *)
(* answer anything can happen: another click, another answer, a step of    *)
(* the worker or of a colleague.  A changed list is rendered, and the      *)
(* polling effect runs again, some time after the handler that changed it. *)
(*                                                                         *)
(* A request is a transaction at READ COMMITTED (Delivery, AnalysisQueue): *)
(* it takes the row of its session until it ends, looks at a status, waits *)
(* for the rows it writes, and publishes at its end.  The end is that of a *)
(* yield-dependency: by the version of FastAPI before the answer or after. *)
(***************************************************************************)
EXTENDS Naturals

CONSTANTS
    Calls,
    First,          \* what calls and candidates may be when the page is opened
    Deletable,      \* the calls that the operator deletes (a bound)
    None,           \* no call
    Load,           \* the load of an opened page, which no effect ends
    Polls,          \* polls in flight at a time are at most as many (a bound)
    MaxEvents       \* requests of the operator and of others, and what breaks,
                    \* together (a bound)

Analysis == {"idle", "queued", "processing", "completed", "failed", "gone"}
Statuses == {"none", "pending", "failed", "confirmed", "rejected"}
Decisions == {"confirm", "retry", "reject"}
Operations == Decisions \cup {"analyse", "delete"}
Reads == Polls \cup {Load}

ASSUME PageAssumptions ==
    /\ First \subseteq [row : [Calls -> Analysis], cand : [Calls -> Statuses]]
    /\ Deletable \subseteq Calls
    /\ None \notin Calls /\ Load \notin Polls
    /\ MaxEvents \in Nat

VARIABLES
    (* The server *)
    row,        \* a call: "idle" and "queued" are pending without and with a request
    asked,      \* the calls with analysis_requested_at
    judged,     \* the calls with a row in task_candidates
    cand,       \* its status, "none" unless list_candidates shows it
    failed,     \* calls whose candidate has ever been "failed" (history)
    sent,       \* requests of the page the server has not looked at
    txn,        \* the transaction of the request of the page that has its session
    decided,    \* calls of the decisions of the page that were carried out, or
                \* answered and not rolled back (history)
    (* The page *)
    ownCalls, candidates,   \* a call that is not in the list is "gone", "none"
    changed,    \* ownCalls was set since the polling effect ran
    timer,      \* the interval of the polling effect
    polls,      \* per read: whether it is awaited, and the answers that came
    review,     \* the call of the open modal, and the status it was opened with
    busy,       \* reviewBusy
    requesting, \* requestingCallId
    requests,   \* the requests of the operator under way
    events      \* how many of MaxEvents there were

tables == <<row, asked, judged, cand, failed>>
server == <<row, asked, judged, cand, failed, sent, txn, decided>>
lists  == <<ownCalls, candidates, changed>>
modal  == <<review, busy, requesting>>
vars   == <<row, asked, judged, cand, failed, sent, txn, decided,
            ownCalls, candidates, changed, timer, polls, review, busy, requesting, requests, events>>

NoRead == [on |-> FALSE, calls |-> {}, rows |-> {}]
Sent == [on |-> TRUE, calls |-> {}, rows |-> {}]
Closed == [call |-> None, status |-> "none"]
Waiting == "waiting"    \* there is no answer yet
Refused == "refused"    \* the answer is an error, or will not come
Nothing == "nothing"    \* the handler has not answered before its commit

(* A transaction: its request, the status it saw, and what it has answered. *)
NoTxn == [n |-> 0, op |-> "none", call |-> None, seen |-> "none", out |-> Nothing]
Txn(a) == [n |-> a.n, op |-> a.op, call |-> a.call, seen |-> cand[a.call], out |-> Nothing]

(* One more of the events that are bounded. *)
Count == events < MaxEvents /\ events' = events + 1

Busy(s) == s \in {"queued", "processing"}
Listed(r) == IF r = "completed" THEN {"none", "pending"} ELSE {"none"}

-----------------------------------------------------------------------------
(* The worker *)

(* A request that was answered still locks the row of the call. *)
CallLocked(c) ==
    txn.out # Nothing /\ txn.call = c /\ txn.op \in {"analyse", "delete"}

Claim(c) ==
    /\ row[c] \in {"idle", "queued"} /\ c \notin judged
    /\ ~CallLocked(c)
    /\ row' = [row EXCEPT ![c] = "processing"]
    /\ UNCHANGED <<asked, judged, cand>>

(* The analysis is stored with its candidate at once, or has failed, or its
   worker was restarted.                                                     *)
Finish(c) ==
    /\ row[c] = "processing"
    /\ ~CallLocked(c)
    /\ \E r \in {"completed", "failed", IF c \in asked THEN "queued" ELSE "idle"} :
          \E s \in Listed(r) :
             /\ row' = [row EXCEPT ![c] = r] /\ cand' = [cand EXCEPT ![c] = s]
             /\ judged' = IF r = "completed" THEN judged \cup {c} ELSE judged
    /\ UNCHANGED asked

Work ==
    /\ \E c \in Calls : Claim(c) \/ Finish(c)
    /\ UNCHANGED <<failed, sent, txn, decided, lists, timer, polls, modal, requests, events>>

(* The worker cannot read back what it stored, and calls that a failure. *)
Misjudge(c) ==
    /\ row[c] = "completed"
    /\ ~CallLocked(c)
    /\ Count
    /\ row' = [row EXCEPT ![c] = "failed"]
    /\ UNCHANGED <<asked, judged, cand, failed, sent, txn, decided,
                   lists, timer, polls, modal, requests>>

-----------------------------------------------------------------------------
(* The requests on the server *)

(* What a handler asks for when it looks, before it waits for any row but the
   session's.                                                                *)
May(op, c) ==
    \/ op = "confirm" /\ cand[c] = "pending"
    \/ op = "retry"   /\ cand[c] = "failed"
    \/ op = "reject"  /\ cand[c] \in {"pending", "failed"}
    \/ op = "analyse" /\ row[c] # "gone" /\ c \notin judged
    \/ op = "delete"  /\ row[c] # "gone"

(* What the statements that write ask for when they have the rows: confirm and
   the reject of a pending candidate that there is no decision, retry and the
   reject of a candidate seen as failed only that it is there.               *)
Writable(op, c, seenFailed) ==
    \/ op = "confirm" /\ cand[c] = "pending"
    \/ op = "retry"   /\ seenFailed /\ cand[c] # "none"
    \/ op = "reject"  /\ (cand[c] = "pending" \/ (seenFailed /\ cand[c] # "none"))
    \/ op = "analyse" /\ row[c] \in {"idle", "queued", "failed"}
    \/ op = "delete"  /\ row[c] # "gone"

(* The rows of a call that are written, and locked until the end. *)
Rows(op) ==
    CASE op = "confirm" -> {"decision", "task"}
      [] op = "retry"   -> {"task"}
      [] op = "reject"  -> {"decision"}
      [] op = "analyse" -> {"call"}
      [] OTHER          -> {"call", "decision", "task"}

Outcomes(op) ==
    CASE op = "reject"  -> {"rejected"}
      [] op = "analyse" -> {"queued"}
      [] op = "delete"  -> {"gone"}
      [] OTHER          -> {"confirmed", "failed"}

(* candidate_feed looks at the decision first: a task that is delivered for a
   candidate rejected meanwhile does not show.                               *)
Shown(op, c, o) == IF op = "retry" /\ cand[c] = "rejected" THEN "rejected" ELSE o

Publish(op, c, o) ==
    /\ row' = IF op \in Decisions THEN row ELSE [row EXCEPT ![c] = o]
    /\ asked' = CASE op = "analyse" -> asked \cup {c}
                  [] op = "delete"  -> asked \ {c}
                  [] OTHER          -> asked
    /\ judged' = IF op = "delete" THEN judged \ {c} ELSE judged
    /\ cand' = CASE op \in Decisions -> [cand EXCEPT ![c] = Shown(op, c, o)]
                 [] op = "delete"    -> [cand EXCEPT ![c] = "none"]
                 [] OTHER            -> cand
    /\ failed' = IF cand'[c] = "failed" THEN failed \cup {c} ELSE failed

(* A supervisor, or the same operator elsewhere.  Their requests looked at some
   time before and waited: for a candidate that was failed then, for a call that
   had no candidate yet.                                                     *)
Others ==
    /\ Count
    /\ \E op \in Operations, c \in Calls :
          /\ Writable(op, c, c \in failed)
          /\ ~(txn.out # Nothing /\ txn.call = c /\ Rows(txn.op) \cap Rows(op) # {})
          /\ \E o \in Outcomes(op) : Publish(op, c, o)
    /\ UNCHANGED <<sent, txn, decided, lists, timer, polls, modal, requests>>

(* The page gets the answer, unless it has given up waiting. *)
Reply(n, a) ==
    requests' = {IF q.n = n /\ q.answer = Waiting THEN [q EXCEPT !.answer = a] ELSE q :
                    q \in requests}

(* The next request of the page has the row of the session to itself. *)
Look(a) ==
    /\ txn = NoTxn
    /\ sent' = sent \ {a}
    /\ IF May(a.op, a.call)
       THEN txn' = Txn(a) /\ UNCHANGED requests
       ELSE Reply(a.n, Refused) /\ UNCHANGED txn
    /\ UNCHANGED <<tables, decided, lists, timer, polls, modal, events>>

(* A row is not as it must be, Bitrix cannot be asked, the connection is lost. *)
Raise ==
    /\ txn # NoTxn /\ txn.out = Nothing
    /\ Reply(txn.n, Refused)
    /\ txn' = NoTxn
    /\ UNCHANGED <<tables, sent, decided, lists, timer, polls, modal, events>>

(* The rows are written, and it has come to this. *)
Written(o) ==
    /\ txn # NoTxn /\ txn.out = Nothing
    /\ Writable(txn.op, txn.call, txn.seen = "failed")
    /\ o \in Outcomes(txn.op)
    /\ Reply(txn.n, Shown(txn.op, txn.call, o))
    /\ decided' = IF txn.op \in Decisions THEN decided \cup {txn.call} ELSE decided
    /\ UNCHANGED <<sent, lists, timer, polls, modal, events>>

(* The commit, and then the answer ... *)
CommitAndAnswer(o) == Written(o) /\ Publish(txn.op, txn.call, o) /\ txn' = NoTxn

(* ... or the answer, and then the commit, ... *)
AnswerFirst(o) == Written(o) /\ txn' = [txn EXCEPT !.out = o] /\ UNCHANGED tables

Commit ==
    /\ txn.out # Nothing
    /\ Publish(txn.op, txn.call, txn.out)
    /\ txn' = NoTxn
    /\ UNCHANGED <<sent, decided, lists, timer, polls, modal, requests, events>>

(* ... which may fail: what was answered has not happened. *)
CommitFails ==
    /\ txn.out # Nothing
    /\ Count
    /\ txn' = NoTxn
    /\ decided' = decided \ {txn.call}
    /\ UNCHANGED <<tables, sent, lists, timer, polls, modal, requests>>

(* The connection breaks.  What has not reached the server by then may still do
   so, or is never looked at.                                                *)
Break(q) ==
    /\ q \in requests /\ q.answer # Refused
    /\ Count
    /\ requests' = (requests \ {q}) \cup {[q EXCEPT !.answer = Refused]}
    /\ UNCHANGED <<tables, sent, txn, decided, lists, timer, polls, modal>>

-----------------------------------------------------------------------------
(* The same, with a slip that a change to the code could make.  Each stands in
   for the action it is named after when the checks of a property are tried.  *)

WatchedQueueOnly ==         \* the effect without "processing"
    \E c \in Calls : ownCalls[c] = "queued"

AnswerCallsOnly(i) ==       \* without setCandidates
    /\ polls[i].on /\ polls[i].calls # {} /\ polls[i].rows # {}
    /\ ownCalls' \in polls[i].calls
    /\ polls' = [polls EXCEPT ![i] = NoRead]
    /\ changed' = TRUE
    /\ UNCHANGED <<server, candidates, timer, modal, requests, events>>

CloseFrees ==               \* onClose with setReviewBusy(false)
    /\ review # Closed
    /\ review' = Closed /\ busy' = FALSE
    /\ UNCHANGED <<server, lists, timer, polls, requesting, requests, events>>

FreeOnSuccess(q) ==         \* setReviewBusy(false) in the try, not in finally
    busy' = (busy /\ q.answer = Refused)

ShowPayload(q) ==           \* what was sent, not what came back
    candidates' = [candidates EXCEPT ![q.call] = IF @ = "none" THEN @ ELSE q.op]

ReadAnyTime(i) ==           \* the session looked up with a SELECT
    /\ polls[i].on /\ polls[i].rows = {}
    /\ polls' = [polls EXCEPT ![i].rows = {cand}]
    /\ UNCHANGED <<server, lists, timer, modal, requests, events>>

-----------------------------------------------------------------------------
(* Loading and polling *)

(* The two requests of one Promise.all reach the server one after the other, in
   either order.  Each waits for the row of the session.                     *)
ReadCalls(i) ==
    /\ txn = NoTxn
    /\ polls[i].on /\ polls[i].calls = {}
    /\ polls' = [polls EXCEPT ![i].calls = {row}]
    /\ UNCHANGED <<server, lists, timer, modal, requests, events>>

ReadCandidates(i) ==
    /\ txn = NoTxn
    /\ polls[i].on /\ polls[i].rows = {}
    /\ polls' = [polls EXCEPT ![i].rows = {cand}]
    /\ UNCHANGED <<server, lists, timer, modal, requests, events>>

(* Both are there and the read is still `active`. *)
Answer(i) ==
    /\ polls[i].on /\ polls[i].calls # {} /\ polls[i].rows # {}
    /\ ownCalls' \in polls[i].calls /\ candidates' \in polls[i].rows
    /\ polls' = [polls EXCEPT ![i] = NoRead]
    /\ changed' = TRUE
    /\ UNCHANGED <<server, timer, modal, requests, events>>

(* Promise.all rejects: an error is shown and the lists stay. *)
ReadFails(i) ==
    /\ polls[i].on
    /\ Count
    /\ polls' = [polls EXCEPT ![i] = NoRead]
    /\ UNCHANGED <<server, lists, timer, modal, requests>>

Watched == \E c \in Calls : Busy(ownCalls[c])

(* The lists are rendered: the effect that depends on ownCalls gives up its
   polls and its interval, and starts anew when there is something to watch.  *)
Effect ==
    /\ changed
    /\ changed' = FALSE
    /\ timer' = Watched
    /\ polls' = [i \in Reads |-> IF i = Load THEN polls[i] ELSE NoRead]
    /\ UNCHANGED <<server, ownCalls, candidates, modal, requests, events>>

Tick ==
    /\ timer
    /\ \E i \in Polls : ~polls[i].on /\ polls' = [polls EXCEPT ![i] = Sent]
    /\ UNCHANGED <<server, lists, timer, modal, requests, events>>

-----------------------------------------------------------------------------
(* The operator *)

Open(c) ==
    /\ review = Closed /\ candidates[c] # "none"
    /\ review' = [call |-> c, status |-> candidates[c]]
    /\ UNCHANGED <<server, lists, timer, polls, busy, requesting, requests, events>>

(* Escape, the backdrop or the cross: also while a decision is under way. *)
Close ==
    /\ review # Closed
    /\ review' = Closed
    /\ UNCHANGED <<server, lists, timer, polls, busy, requesting, requests, events>>

(* A request has the first number that no other request has. *)
Numbers == {q.n : q \in requests \cup sent \cup {txn}}
Unused(n) == n \notin Numbers /\ 1 .. n - 1 \subseteq Numbers

Send(op, c) ==
    /\ Count
    /\ \E n \in 1 .. MaxEvents :
          /\ Unused(n)
          /\ requests' = requests \cup {[n |-> n, op |-> op, call |-> c, answer |-> Waiting]}
          /\ sent' = sent \cup {[n |-> n, op |-> op, call |-> c]}
    /\ UNCHANGED <<tables, txn, decided, lists, timer, polls, review>>

(* The modal chooses between confirm and retry by the status it was opened with. *)
Decide(op) ==
    /\ review # Closed /\ ~busy
    /\ \/ op = "confirm" /\ review.status = "pending"
       \/ op = "retry"   /\ review.status = "failed"
       \/ op = "reject"  /\ review.status \in {"pending", "failed"}
    /\ busy' = TRUE
    /\ Send(op, review.call)
    /\ UNCHANGED requesting

Analyse(c) ==
    /\ review = Closed
    /\ ownCalls[c] # "gone" /\ candidates[c] = "none"
    /\ ~Busy(ownCalls[c]) /\ requesting # c
    /\ requesting' = c
    /\ Send("analyse", c)
    /\ UNCHANGED busy

(* From the list, or from the modal. *)
Delete(c) ==
    /\ c \in Deletable
    /\ ownCalls[c] # "gone" \/ candidates[c] # "none"
    /\ review = Closed \/ (review.call = c /\ ~busy)
    /\ Send("delete", c)
    /\ UNCHANGED <<busy, requesting>>

(* applyCandidate: a candidate that is not in the list is not added. *)
Show(q) == candidates' = [candidates EXCEPT ![q.call] = IF @ = "none" THEN @ ELSE q.answer]

(* `finally` frees the buttons, whatever came back. *)
Free(q) == busy' = FALSE

(* A decision is answered: whatever modal is open by now is closed. *)
Decided(q) ==
    /\ q \in requests /\ q.op \in Decisions /\ q.answer # Waiting
    /\ requests' = requests \ {q}
    /\ Free(q)
    /\ IF q.answer = Refused
       THEN UNCHANGED <<candidates, review>>
       ELSE /\ Show(q)
            /\ review' = Closed
    /\ UNCHANGED <<server, ownCalls, changed, timer, polls, requesting, events>>

Analysed(q) ==
    /\ q \in requests /\ q.op = "analyse" /\ q.answer # Waiting
    /\ requests' = requests \ {q}
    /\ requesting' = None
    /\ IF q.answer = Refused
       THEN UNCHANGED <<ownCalls, changed>>
       ELSE /\ ownCalls' = [ownCalls EXCEPT ![q.call] = IF @ = "gone" THEN @ ELSE "queued"]
            /\ changed' = TRUE
    /\ UNCHANGED <<server, candidates, timer, polls, review, busy, events>>

Deleted(q) ==
    /\ q \in requests /\ q.op = "delete" /\ q.answer # Waiting
    /\ requests' = requests \ {q}
    /\ IF q.answer = Refused
       THEN UNCHANGED <<ownCalls, candidates, changed, review>>
       ELSE /\ ownCalls' = [ownCalls EXCEPT ![q.call] = "gone"]
            /\ candidates' = [candidates EXCEPT ![q.call] = "none"]
            /\ changed' = TRUE
            /\ review' = IF review.call = q.call THEN Closed ELSE review
    /\ UNCHANGED <<server, timer, polls, busy, requesting, events>>

-----------------------------------------------------------------------------

Init ==
    /\ \E f \in First : row = f.row /\ cand = f.cand
    /\ \A c \in Calls : cand[c] \in Listed(row[c])
    /\ asked = {c \in Calls : row[c] = "queued"}
    /\ judged = {c \in Calls : row[c] = "completed"}
    /\ failed = {} /\ sent = {} /\ txn = NoTxn /\ decided = {}
    /\ ownCalls = [c \in Calls |-> "gone"]
    /\ candidates = [c \in Calls |-> "none"]
    /\ changed = FALSE /\ timer = FALSE
    /\ polls = [i \in Reads |-> IF i = Load THEN Sent ELSE NoRead]
    /\ review = Closed /\ busy = FALSE /\ requesting = None
    /\ requests = {} /\ events = 0

Read(i) == ReadCalls(i) \/ ReadCandidates(i) \/ Answer(i)
Handled(q) == Decided(q) \/ Analysed(q) \/ Deleted(q)
Write == \E o \in Outcomes(txn.op) : CommitAndAnswer(o) \/ AnswerFirst(o)
Ending == Raise \/ Write \/ Commit \/ CommitFails

Next ==
    \/ Work
    \/ \E c \in Calls : Misjudge(c)
    \/ Others
    \/ \E a \in sent : Look(a)
    \/ Ending
    \/ \E i \in Reads : Read(i) \/ ReadFails(i)
    \/ Effect
    \/ Tick
    \/ \E c \in Calls : Open(c) \/ Analyse(c) \/ Delete(c)
    \/ \E op \in Decisions : Decide(op)
    \/ Close
    \/ \E q \in requests : Handled(q) \/ Break(q)

(* Reads are answered or fail, React renders, the interval goes on, and a request
   that has the session's row ends (Delivery, RequestsEnd).  The worker, the people
   and the answers to their requests owe the page nothing.                   *)
Spec ==
    /\ Init /\ [][Next]_vars
    /\ WF_polls(\E i \in Reads : Read(i))
    /\ WF_changed(Effect) /\ WF_polls(Tick)
    /\ WF_txn(Ending)

-----------------------------------------------------------------------------

(* What a request of the kind can be answered with. *)
Answers(op) ==
    {Waiting, Refused} \cup Outcomes(op) \cup IF op = "retry" THEN {"rejected"} ELSE {}

Request ==
    UNION {[n : 1 .. MaxEvents, op : {op}, call : Calls, answer : Answers(op)] :
              op \in Operations}

Transactions ==
    UNION {[n : 1 .. MaxEvents, op : {op}, call : Calls, seen : Statuses,
            out : Outcomes(op) \cup {Nothing}] : op \in Operations}

(* Type invariant. *)
TypeOK ==
    /\ row \in [Calls -> Analysis] /\ asked \subseteq Calls /\ judged \subseteq Calls
    /\ cand \in [Calls -> Statuses]
    /\ sent \subseteq [n : 1 .. MaxEvents, op : Operations, call : Calls]
    /\ txn \in Transactions \cup {NoTxn} /\ failed \subseteq Calls
    /\ decided \subseteq Calls
    /\ ownCalls \in [Calls -> Analysis] /\ candidates \in [Calls -> Statuses]
    /\ changed \in BOOLEAN /\ timer \in BOOLEAN /\ busy \in BOOLEAN
    /\ polls \in [Reads -> [on : BOOLEAN, calls : SUBSET [Calls -> Analysis],
                            rows : SUBSET [Calls -> Statuses]]]
    /\ review \in [call : Calls, status : Statuses] \cup {Closed}
    /\ requesting \in Calls \cup {None}
    /\ requests \subseteq Request
    /\ events \in 0 .. MaxEvents

(* However the modals are left and opened, one decision is under way at a time:
   a second one waits for the answer to the first, on whatever candidate.    *)
OneDecision ==
    \A p, q \in requests : p.op \in Decisions /\ q.op \in Decisions => p = q

(* The buttons are disabled while a decision is under way and not longer, also
   when its answer was lost or its modal is gone.                            *)
ButtonsFollow == busy <=> \E q \in requests : q.op \in Decisions

(* What a read brings does not show as undecided a candidate whose decision was
   answered before, whoever else decides, and whether the answer left before the
   commit or after: the read waits for the row of the session.  Only when that
   commit fails is the candidate undecided again.                            *)
DecisionsAreRead ==
    [][\A i \in Reads : \A f \in polls'[i].rows \ polls[i].rows :
          \A c \in decided : f[c] # "pending"]_polls

(* "Refresh queued work": the page does not go on showing calls as queued or
   processed that are neither any more.                                      *)
Outdated == \E c \in Calls : Busy(ownCalls[c]) /\ ~Busy(row[c])
QueueIsRefreshed == Outdated ~> ~Outdated

(* A late answer to an old poll can show a decided candidate as open again.
   While there is something to poll for, a later poll puts that right.       *)
StaleIsRepaired == candidates # cand ~> candidates = cand \/ ~timer
=============================================================================
