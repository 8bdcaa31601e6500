---------------------------- MODULE AnalysisQueue ----------------------------
(***************************************************************************)
(* How a telephony call gets from Bitrix into `calls`, through the         *)
(* analysis worker, and out again.                                         *)
(*                                                                         *)
(* Three kinds of process share the table:                                 *)
(*   - backend.sync_daemon upserts the calls of the last 48 hours every    *)
(*     five minutes, all of them in one transaction whose row locks last   *)
(*     while it reads the next page from Bitrix; somebody may run          *)
(*     `python -m backend.sync_bitrix calls` beside it, for any number of  *)
(*     days;                                                               *)
(*   - backend.analysis_daemon claims one pending call at a time, spends   *)
(*     minutes on the recording outside any transaction, and stores the    *)
(*     result in a new one.  It is one container, restarted when it dies;  *)
(*     Workers is a set for the time two of them overlap;                  *)
(*   - the API queues a call for analysis or deletes it.                   *)
(*                                                                         *)
(* PostgreSQL runs at READ COMMITTED.  Only a sync holds a row lock from   *)
(* one action to the next.  A statement that waits for a row is two        *)
(* actions when what it read before the wait is used after it.             *)
(***************************************************************************)
EXTENDS Naturals, Sequences, FiniteSets

CONSTANTS
    Calls,          \* Bitrix statistic IDs; a greater one started later
    Automatic,      \* calls of the automatic operators, long enough
    Syncs,          \* processes that run sync_calls
    Service,        \* sync_daemon, one of them; the others are run by hand
    Workers,        \* analysis_daemon processes
    Requests,       \* the API requests of a behaviour, each made at most once
    None,           \* no call, no job
    MaxCrashes,     \* how often a worker is killed (a bound)
    ConnectionLoss, \* whether the read after the commit can fail
    Overruns        \* whether a job can outlast ANALYSIS_STALE_PROCESSING_MINUTES

ASSUME QueueAssumptions ==
    /\ Calls \subseteq Nat /\ Automatic \subseteq Calls
    /\ IsFiniteSet(Syncs) /\ Service \in Syncs
    /\ None \notin Calls /\ None \notin Workers
    /\ MaxCrashes \in Nat /\ ConnectionLoss \in BOOLEAN /\ Overruns \in BOOLEAN

VARIABLES
    (* Committed rows, per call *)
    row,        \* calls.id, 0 when there is no row; a re-import has the next id
    status,     \* calls.transcription_status
    recording,  \* calls.record_file_id is not NULL
    asked,      \* calls with analysis_requested_at, in the order of that time
    stale,      \* updated_at is more than the stale minutes ago
    prediction, \* the task_candidates row: which job of which id made it
    tombstone,  \* deleted_calls has the statistic ID
    imported,   \* the last id given to a row of the call
    age,        \* which lookback windows the call is still in
    (* The transactions of the syncs *)
    open,       \* the syncs that have one open
    todo,       \* the calls still to upsert in it
    upsert,     \* the call whose INSERT has read deleted_calls
    written,    \* the calls it has written and holds locked
    (* The workers and the requests *)
    worker,     \* where process_next_call stands
    job,        \* the claimed call and its id
    crashes,
    pc,         \* where the request stands
    req         \* its call, and what its snapshot said of the candidate

rows  == <<row, status, recording, asked, stale, prediction, tombstone, imported>>
sync  == <<open, todo, upsert, written>>
works == <<worker, job, crashes>>
apis  == <<pc, req>>
vars  == <<row, status, recording, asked, stale, prediction, tombstone, imported,
           age, open, todo, upsert, written, worker, job, crashes, pc, req>>

(* A call is imported again at most once by each sync: by an upsert that had read
   deleted_calls before the first tombstone, of which a sync has one at a time. *)
Ids == 0 .. Cardinality(Syncs) + 1
TranscriptionStatuses == {"pending", "processing", "completed", "failed"}
Ages    == {"recent", "day", "old"}     \* in both windows, the sync's only, neither
Job     == [call : Calls, id : Ids]
NoJob   == [call |-> None, id |-> 0]
Made    == [by : Workers, id : Ids]
NotMade == [by |-> None, id |-> 0]
NoRequest == [call |-> None, id |-> 0, analyzed |-> FALSE]

-----------------------------------------------------------------------------
(* Rows *)

Exists(c) == row[c] # 0
Locked(c) == \E s \in Syncs : c \in written[s]

FoundByCall(j) ==               \* a slip: WHERE bitrix_statistic_id = %s
    row[j.call] # 0

(* The row a job or a request knows by its id is still there. *)
Found(j) == row[j.call] = j.id

Asked(c) == \E i \in DOMAIN asked : asked[i] = c
AskedAt(c) == IF Asked(c) THEN CHOOSE i \in DOMAIN asked : asked[i] = c ELSE 0
Without(c) ==
    IF Asked(c)
    THEN SubSeq(asked, 1, AskedAt(c) - 1) \o SubSeq(asked, AskedAt(c) + 1, Len(asked))
    ELSE asked

(* UPDATE calls SET transcription_status: the trigger sets updated_at. *)
SetStatus(c, s) ==
    /\ status' = [status EXCEPT ![c] = s]
    /\ stale' = [stale EXCEPT ![c] = FALSE]

-----------------------------------------------------------------------------
(* The same, with a slip that a change to the code could make.  Each stands in
   for the action it is named after when the checks of a property are tried.  *)

ClaimableAgain(c) ==            \* without NOT EXISTS (task_candidates)
    /\ Exists(c) /\ status[c] = "pending" /\ recording[c]
    /\ (c \in Automatic /\ age[c] = "recent") \/ Asked(c)
    /\ ~Locked(c)

RequeueableLive(c) ==           \* without the stale interval
    Exists(c) /\ status[c] = "processing" /\ prediction[c] = NotMade

MayQueueBySnapshot(q) ==        \* trusts EXISTS to stand for 'completed'
    /\ recording[req[q].call]
    /\ ~req[q].analyzed
    /\ status[req[q].call] # "processing"

PersistOver(w) ==               \* ON CONFLICT (call_id) DO UPDATE
    /\ worker[w] = "working"
    /\ Found(job[w]) /\ ~Locked(job[w].call)
    /\ SetStatus(job[w].call, "completed")
    /\ prediction' = [prediction EXCEPT ![job[w].call] = [by |-> w, id |-> job[w].id]]
    /\ worker' = [worker EXCEPT ![w] = "stored"]
    /\ UNCHANGED <<row, recording, asked, tombstone, imported, age,
                   sync, job, crashes, apis>>

MarkFailedIgnored(w) ==         \* except Exception: pass
    /\ worker[w] = "failing"
    /\ worker' = [worker EXCEPT ![w] = "polling"]
    /\ job' = [job EXCEPT ![w] = NoJob]
    /\ UNCHANGED <<rows, age, sync, crashes, apis>>

SyncCheckNoTombstone(s, c) ==   \* without WHERE NOT EXISTS (deleted_calls)
    /\ s \in open /\ upsert[s] = None /\ c \in todo[s]
    /\ todo' = [todo EXCEPT ![s] = @ \ {c}]
    /\ upsert' = [upsert EXCEPT ![s] = c]
    /\ UNCHANGED <<rows, age, open, written, works, apis>>

-----------------------------------------------------------------------------
(* sync_calls, of backend.sync_daemon and by hand *)

(* The lookback of the service is two days, that of a command any number. *)
InWindow(s, c) == s = Service => age[c] # "old"

SyncOpen(s) ==
    /\ s \notin open
    /\ open' = open \cup {s}
    /\ \E calls \in SUBSET {c \in Calls : InWindow(s, c)} :
          calls # {} /\ todo' = [todo EXCEPT ![s] = calls]
    /\ UNCHANGED <<rows, age, upsert, written, works, apis>>

(* INSERT ... WHERE NOT EXISTS (deleted_calls) starts: its snapshot decides. *)
SyncCheck(s, c) ==
    /\ s \in open /\ upsert[s] = None /\ c \in todo[s]
    /\ todo' = [todo EXCEPT ![s] = @ \ {c}]
    /\ upsert' = [upsert EXCEPT ![s] = IF tombstone[c] THEN None ELSE c]
    /\ UNCHANGED <<rows, age, open, written, works, apis>>

(* ... and inserts, or has the row of ON CONFLICT to itself, after the end of any
   transaction that has inserted or updated it.                              *)
SyncWrite(s) ==
    /\ upsert[s] # None
    /\ ~Locked(upsert[s])
    /\ written' = [written EXCEPT ![s] = @ \cup {upsert[s]}]
    /\ upsert' = [upsert EXCEPT ![s] = None]
    /\ UNCHANGED <<rows, age, open, todo, works, apis>>

SyncCommit(s) ==
    /\ s \in open /\ todo[s] = {} /\ upsert[s] = None
    /\ open' = open \ {s}
    /\ written' = [written EXCEPT ![s] = {}]
    /\ LET new == {c \in written[s] : ~Exists(c)}
       IN  /\ imported' = [c \in Calls |-> imported[c] + IF c \in new THEN 1 ELSE 0]
           /\ row' = [c \in Calls |-> IF c \in new THEN imported'[c] ELSE row[c]]
           /\ status' = [c \in Calls |-> IF c \in new THEN "pending" ELSE status[c]]
    /\ stale' = [c \in Calls |-> stale[c] /\ c \notin written[s]]
    /\ \E has \in SUBSET written[s] :
          recording' = [c \in Calls |-> IF c \in written[s] THEN c \in has ELSE recording[c]]
    /\ UNCHANGED <<asked, prediction, tombstone, age, todo, upsert, works, apis>>

(* Bitrix or the database fails: the service prints the error and sleeps, the
   command ends.                                                             *)
SyncFail(s) ==
    /\ s \in open
    /\ open' = open \ {s}
    /\ todo' = [todo EXCEPT ![s] = {}]
    /\ upsert' = [upsert EXCEPT ![s] = None]
    /\ written' = [written EXCEPT ![s] = {}]
    /\ UNCHANGED <<rows, age, works, apis>>

-----------------------------------------------------------------------------
(* backend.analysis_daemon *)

Requeueable(c) ==
    Exists(c) /\ status[c] = "processing" /\ stale[c] /\ prediction[c] = NotMade

(* main() requeues stale claims once, before its loop. *)
Start(w) ==
    /\ worker[w] = "down"
    /\ \A c \in Calls : Requeueable(c) => ~Locked(c)
    /\ status' = [c \in Calls |-> IF Requeueable(c) THEN "pending" ELSE status[c]]
    /\ stale' = [c \in Calls |-> stale[c] /\ ~Requeueable(c)]
    /\ worker' = [worker EXCEPT ![w] = "polling"]
    /\ UNCHANGED <<row, recording, asked, prediction, tombstone, imported, age,
                   sync, job, crashes, apis>>

Claimable(c) ==
    /\ Exists(c) /\ status[c] = "pending" /\ recording[c]
    /\ (c \in Automatic /\ age[c] = "recent") \/ Asked(c)
    /\ prediction[c] = NotMade
    /\ ~Locked(c)

(* Manual requests first, the latest of them first; then the latest call. *)
Precedes(c, d) ==
    AskedAt(c) > AskedAt(d) \/ (AskedAt(c) = AskedAt(d) /\ c >= d)

Claim(w) ==
    /\ worker[w] = "polling"
    /\ \E c \in Calls :
          /\ Claimable(c)
          /\ \A d \in Calls : Claimable(d) => Precedes(c, d)
          /\ SetStatus(c, "processing")
          /\ job' = [job EXCEPT ![w] = [call |-> c, id |-> row[c]]]
    /\ worker' = [worker EXCEPT ![w] = "working"]
    /\ UNCHANGED <<row, recording, asked, prediction, tombstone, imported, age,
                   sync, crashes, apis>>

(* The download, the transcription or the analysis raises. *)
AnalysisFails(w) ==
    /\ worker[w] = "working"
    /\ worker' = [worker EXCEPT ![w] = "failing"]
    /\ UNCHANGED <<rows, age, sync, job, crashes, apis>>

(* persist_call_analysis commits the call and its prediction. *)
Persist(w) ==
    /\ worker[w] = "working"
    /\ Found(job[w]) /\ ~Locked(job[w].call)
    /\ prediction[job[w].call] = NotMade
    /\ SetStatus(job[w].call, "completed")
    /\ prediction' = [prediction EXCEPT ![job[w].call] = [by |-> w, id |-> job[w].id]]
    /\ worker' = [worker EXCEPT ![w] = "stored"]
    /\ UNCHANGED <<row, recording, asked, tombstone, imported, age,
                   sync, job, crashes, apis>>

(* NotFoundError, or ConflictError with the UPDATE rolled back. *)
PersistRefused(w) ==
    /\ worker[w] = "working"
    /\ \/ ~Found(job[w])
       \/ ~Locked(job[w].call) /\ prediction[job[w].call] # NotMade
    /\ worker' = [worker EXCEPT ![w] = "failing"]
    /\ UNCHANGED <<rows, age, sync, job, crashes, apis>>

(* get_candidate after the commit: it raises when the call was deleted, or the
   connection lost, in between.                                              *)
ReadBack(w) ==
    /\ worker[w] = "stored"
    /\ \/ /\ Found(job[w])
          /\ worker' = [worker EXCEPT ![w] = "polling"]
          /\ job' = [job EXCEPT ![w] = NoJob]
       \/ /\ ~Found(job[w]) \/ ConnectionLoss
          /\ worker' = [worker EXCEPT ![w] = "failing"]
          /\ UNCHANGED job
    /\ UNCHANGED <<rows, age, sync, crashes, apis>>

(* mark_transcription_failed looks at no status. *)
MarkFailed(w) ==
    /\ worker[w] = "failing"
    /\ Found(job[w]) /\ ~Locked(job[w].call)
    /\ SetStatus(job[w].call, "failed")
    /\ worker' = [worker EXCEPT ![w] = "polling"]
    /\ job' = [job EXCEPT ![w] = NoJob]
    /\ UNCHANGED <<row, recording, asked, prediction, tombstone, imported, age,
                   sync, crashes, apis>>

(* Its NotFoundError is raised in the handler and ends the process. *)
MarkFailedRaises(w) ==
    /\ worker[w] = "failing"
    /\ ~Found(job[w])
    /\ worker' = [worker EXCEPT ![w] = "down"]
    /\ job' = [job EXCEPT ![w] = NoJob]
    /\ UNCHANGED <<rows, age, sync, crashes, apis>>

(* Killed by a deployment, by the host, or by a lost database connection. *)
Crash(w) ==
    /\ worker[w] # "down" /\ crashes < MaxCrashes
    /\ crashes' = crashes + 1
    /\ worker' = [worker EXCEPT ![w] = "down"]
    /\ job' = [job EXCEPT ![w] = NoJob]
    /\ UNCHANGED <<rows, age, sync, apis>>

-----------------------------------------------------------------------------
(* POST /api/calls/{id}/analysis and DELETE /api/calls/{id}, from a supervisor
   or the call's operator: any other user gets 403 and changes nothing.      *)

(* SELECT ... FOR UPDATE starts: EXISTS (task_candidates) is of its snapshot. *)
Ask(q) ==
    /\ pc[q] = "idle"
    /\ \E c \in Calls :
          /\ Exists(c)
          /\ req' = [req EXCEPT ![q] = [call |-> c, id |-> row[c],
                                        analyzed |-> prediction[c] # NotMade]]
    /\ pc' = [pc EXCEPT ![q] = "asking"]
    /\ UNCHANGED <<rows, age, sync, works>>

MayQueue(q) ==
    /\ recording[req[q].call]
    /\ ~req[q].analyzed
    /\ status[req[q].call] \notin {"completed", "processing"}

(* ... and has the row, as it is now. *)
Queue(q) ==
    /\ pc[q] = "asking"
    /\ Found(req[q]) /\ ~Locked(req[q].call)
    /\ MayQueue(q)
    /\ SetStatus(req[q].call, "pending")
    /\ asked' = Append(Without(req[q].call), req[q].call)
    /\ pc' = [pc EXCEPT ![q] = "done"]
    /\ req' = [req EXCEPT ![q] = NoRequest]
    /\ UNCHANGED <<row, recording, prediction, tombstone, imported, age, sync, works>>

QueueRefused(q) ==          \* 404 or 409
    /\ pc[q] = "asking"
    /\ ~Found(req[q]) \/ (~Locked(req[q].call) /\ ~MayQueue(q))
    /\ pc' = [pc EXCEPT ![q] = "done"]
    /\ req' = [req EXCEPT ![q] = NoRequest]
    /\ UNCHANGED <<rows, age, sync, works>>

(* The tombstone and the DELETE, with everything that cascades, in one
   transaction.  What a row had is not left behind for the next one.         *)
Delete(q) ==
    /\ pc[q] = "idle"
    /\ \E c \in Calls :
          /\ Exists(c) /\ ~Locked(c)
          /\ row' = [row EXCEPT ![c] = 0]
          /\ SetStatus(c, "pending")
          /\ recording' = [recording EXCEPT ![c] = FALSE]
          /\ asked' = Without(c)
          /\ prediction' = [prediction EXCEPT ![c] = NotMade]
          /\ tombstone' = [tombstone EXCEPT ![c] = TRUE]
    /\ pc' = [pc EXCEPT ![q] = "done"]
    /\ UNCHANGED <<imported, age, sync, works, req>>

-----------------------------------------------------------------------------
(* Time *)

(* A claim becomes old: only when its worker is gone, unless jobs overrun. *)
GrowStale(c) ==
    /\ status[c] = "processing" /\ ~stale[c]
    /\ Overruns \/ \A w \in Workers : job[w] # [call |-> c, id |-> row[c]]
    /\ stale' = [stale EXCEPT ![c] = TRUE]
    /\ UNCHANGED <<row, status, recording, asked, prediction, tombstone, imported,
                   age, sync, works, apis>>

GrowOld(c) ==
    /\ age[c] # "old"
    /\ age' = [age EXCEPT ![c] = IF @ = "recent" THEN "day" ELSE "old"]
    /\ UNCHANGED <<rows, sync, works, apis>>

-----------------------------------------------------------------------------

Init ==
    /\ row = [c \in Calls |-> 0]
    /\ status = [c \in Calls |-> "pending"]
    /\ recording = [c \in Calls |-> FALSE]
    /\ asked = <<>>
    /\ stale = [c \in Calls |-> FALSE]
    /\ prediction = [c \in Calls |-> NotMade]
    /\ tombstone = [c \in Calls |-> FALSE]
    /\ imported = [c \in Calls |-> 0]
    /\ age = [c \in Calls |-> "recent"]
    /\ open = {}
    /\ todo = [s \in Syncs |-> {}] /\ written = [s \in Syncs |-> {}]
    /\ upsert = [s \in Syncs |-> None]
    /\ worker = [w \in Workers |-> "down"]
    /\ job = [w \in Workers |-> NoJob]
    /\ crashes = 0
    /\ pc = [q \in Requests |-> "idle"]
    /\ req = [q \in Requests |-> NoRequest]

SyncStep(s) ==
    \/ \E c \in Calls : SyncCheck(s, c)
    \/ SyncWrite(s)
    \/ SyncCommit(s)

(* The rest of process_next_call once a call is claimed. *)
JobStep(w) ==
    \/ AnalysisFails(w)
    \/ Persist(w)
    \/ PersistRefused(w)
    \/ ReadBack(w)
    \/ MarkFailed(w)
    \/ MarkFailedRaises(w)

Next ==
    \/ \E s \in Syncs : SyncOpen(s) \/ SyncStep(s) \/ SyncFail(s)
    \/ \E w \in Workers : Start(w) \/ Claim(w) \/ JobStep(w) \/ Crash(w)
    \/ \E q \in Requests : Ask(q) \/ Queue(q) \/ QueueRefused(q) \/ Delete(q)
    \/ \E c \in Calls : GrowStale(c) \/ GrowOld(c)

Spec == Init /\ [][Next]_vars

(* The loops go on, a killed container is restarted, a request is carried out,
   and time passes.  A statement that needs a row a sync has locked is in the
   queue for it, and a claim that skips it is tried again between two syncs: those
   of the service are at least a second apart, the others are typed by somebody,
   and none is one endless transaction.  Hence strong fairness.              *)
Fairness ==
    /\ \A s \in Syncs : WF_vars(SyncStep(s))
    /\ \A w \in Workers : /\ SF_vars(Start(w))
                          /\ SF_vars(Claim(w))
                          /\ SF_vars(JobStep(w))
    /\ \A q \in Requests : SF_vars(Queue(q) \/ QueueRefused(q))
    /\ \A c \in Calls : WF_vars(GrowStale(c))

FairSpec == Spec /\ Fairness

-----------------------------------------------------------------------------
(* Properties *)

(* Every variable has its type.  That row IDs stay in Ids says in particular that
   tombstones bound the imports of a call, whatever is deleted while syncs run. *)
TypeOK ==
    /\ row \in [Calls -> Ids] /\ imported \in [Calls -> Ids]
    /\ status \in [Calls -> TranscriptionStatuses]
    /\ recording \in [Calls -> BOOLEAN]
    /\ asked \in Seq(Calls)
    /\ stale \in [Calls -> BOOLEAN] /\ tombstone \in [Calls -> BOOLEAN]
    /\ prediction \in [Calls -> Made \cup {NotMade}]
    /\ age \in [Calls -> Ages]
    /\ open \subseteq Syncs
    /\ todo \in [Syncs -> SUBSET Calls] /\ written \in [Syncs -> SUBSET Calls]
    /\ upsert \in [Syncs -> Calls \cup {None}]
    /\ worker \in [Workers -> {"down", "polling", "working", "stored", "failing"}]
    /\ job \in [Workers -> Job \cup {NoJob}]
    /\ crashes \in 0 .. MaxCrashes
    /\ pc \in [Requests -> {"idle", "asking", "done"}]
    /\ req \in [Requests -> [call : Calls, id : Ids, analyzed : BOOLEAN]
                              \cup {NoRequest}]

(* A call the worker is at has no prediction yet: whatever claims, requeues,
   requests and overlapping workers did before, no analysis is bought for a
   call that has one, and 'completed' always comes with one.                 *)
AnalyzedOnce ==
    \A c \in Calls :
        /\ status[c] = "processing" => prediction[c] = NotMade
        /\ status[c] = "completed" => prediction[c] # NotMade

(* A prediction belongs to the row it was made from: a job that was claimed
   before a call was deleted writes nothing to the row a sync imports after. *)
PredictionOfItsRow ==
    \A c \in Calls : prediction[c] # NotMade => prediction[c].id = row[c]

(* Migration 0001's "immutable model prediction": of two workers that end up
   with the same call the first wins, and nothing but the deletion of the call
   takes a prediction away.                                                  *)
PredictionIsImmutable ==
    [][\A c \in Calls : prediction[c] # NotMade =>
           prediction'[c] = prediction[c] \/ row'[c] # row[c]]_vars

(* No two workers hold the same row, as long as no job outlasts the stale
   minutes: restarts and requests never hand out a call that is being analysed. *)
JobsAreApart ==
    \A w, v \in Workers : w # v /\ job[w] # NoJob => job[w] # job[v]

(* As long as no job overruns and no connection is lost, a call that has a
   prediction is completed.  In the queue it would be one that no worker takes,
   marked failed it would be one that no request can queue again.            *)
PredictedIsCompleted ==
    \A c \in Calls : prediction[c] # NotMade => status[c] = "completed"

(* The call is deleted and no upsert of it is past the check of deleted_calls. *)
Settled(c) ==
    /\ tombstone[c] /\ ~Exists(c)
    /\ \A s \in Syncs : upsert[s] # c /\ c \notin written[s]

(* A deletion is final from then on: only an upsert that had read deleted_calls
   before the tombstone can bring a call back.                               *)
DeletionSettles == [][\A c \in Calls : Settled(c) => Settled(c)']_vars

(* A call someone asked for is answered: it is completed or failed, unless it is
   deleted, loses its recording, or a worker is killed.                      *)
RequestIsAnswered ==
    \A c \in Calls :
        (Exists(c) /\ status[c] = "pending" /\ recording[c] /\ Asked(c))
            ~> \/ status[c] \in {"completed", "failed"}
               \/ ~Exists(c) \/ ~recording[c]
               \/ crashes > 0

StateOf(c) == IF Exists(c) THEN status[c] ELSE "absent"

(* The workers that have claimed the row and not stored or given up anything. *)
Owners(c) ==
    {w \in Workers : /\ worker[w] \in {"working", "failing"}
                     /\ job[w] = [call |-> c, id |-> row[c]]}

Lifecycle == INSTANCE CallLifecycle WITH
    state <- [c \in Calls |-> StateOf(c)],
    owners <- [c \in Calls |-> Owners(c)]

(* With jobs that end in time and connections that hold, the queue keeps what
   CallLifecycle promises: a call is with the worker whose claim it is, and no
   one else decides about it, whatever restarts, deletions, imports and
   requests run beside.                                                      *)
CallLifecycleSpec == Lifecycle!Spec

(* README.md: "a minimal statistic-ID tombstone prevents the Bitrix sync worker
   from importing that call again".  An INSERT whose snapshot is older than the
   tombstone imports it.                                                     *)
DeletedStaysDeleted ==
    \A c \in Calls : tombstone[c] => ~Exists(c)

(* README.md: operators can "request or retry transcription".  A call whose
   worker was killed stays 'processing', which refuses every request.        *)
ProcessingEnds ==
    \A c \in Calls : status[c] = "processing" ~> status[c] # "processing"

(* README.md: operators can "request or retry transcription".  A failed call
   that has a prediction refuses every retry.                                *)
FailedCanBeRetried ==
    \A c \in Calls : status[c] = "failed" => prediction[c] = NotMade
=============================================================================
