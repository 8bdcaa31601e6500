----------------------------- MODULE Deployment -----------------------------
(***************************************************************************)
(* One call on its way through a deployment: the migrations that bring its *)
(* row into the form that the code expects, the worker that transcribes    *)
(* and analyses it, the backfill that makes old transcripts readable, and  *)
(* the operator who sends its candidate to Bitrix or rejects it.           *)
(*                                                                         *)
(* The container of the worker is started when the application serves      *)
(* (depends_on: service_healthy) and stays, whatever becomes of the        *)
(* application.  The backfill is a command that somebody runs when he      *)
(* likes.  How several workers and requests share a call is the subject of *)
(* AnalysisQueue and Delivery; here a job and a decision are one step.     *)
(***************************************************************************)
EXTENDS TaskPolicy, Startup

CONSTANTS
    RawScript,      \* 0010_readable_transcripts
    Backfills,      \* processes of `python -m backend.enhance_transcripts`
    OldTranscripts  \* what an earlier release may have transcribed

ASSUME DeploymentAssumption ==
    /\ RawScript \in Scripts \ Repeatable
    /\ OldTranscripts \subseteq Transcripts \ {{}}

VARIABLES
    worker,     \* the container of the worker has been started
    call,       \* the row of the call
    candidate,  \* its row of task_candidates: a set with at most one member
    review,     \* the status of the candidate
    backfill,   \* the backfills that have selected the call
    heard       \* for the properties: what was transcribed

pipeline == <<worker, call, candidate, review, backfill, heard>>
vars     == <<executed, recorded, at, next, known, faults,
              worker, call, candidate, review, backfill, heard>>

-----------------------------------------------------------------------------
(* Types *)

(* transcription_status, transcript, raw_transcript, transcript_enhancement_model
   and _error (whether they are not NULL), and the kind of transcription_error *)
Call == [status : {"pending", "completed", "failed"},
         transcript : Transcripts, raw : Transcripts,
         model : BOOLEAN, enhancement_error : BOOLEAN,
         error : {"none", "unanswered", "untitled", "refused", "check"}]

NewCall == [status |-> "pending", transcript |-> {}, raw |-> {}, model |-> FALSE,
            enhancement_error |-> FALSE, error |-> "none"]

Statuses == {"pending", "failed", "confirmed", "rejected"}

(* A call analysed by an earlier release, as the scripts executed so far have
   left it, and the candidates that it can have                              *)
OldCall(text) == [NewCall EXCEPT !.status = "completed", !.transcript = text,
                                 !.raw = IF RawScript \in executed THEN text ELSE {}]

OldCandidates(text) ==
    {c \in [titled : {TRUE}, should_create : BOOLEAN,
            basis : {"explicit_complaint", "legacy", "none"}, evidence : {""} \cup text,
            concrete : {"null"}, subject : {""}, issue : {""},
            type : {"classified", "legacy", "none"}, criterion : {Null}, name : {"", "name"}] :
        /\ Admitted(c)
        /\ c.basis = "explicit_complaint" <=> c.type = "classified" /\ c.evidence # ""
        /\ c.should_create <=> c.name # ""}

-----------------------------------------------------------------------------
(* The migrations and the row *)

(* UPDATE calls SET raw_transcript = transcript; the columns that 0011 adds are
   NULL or empty in the rows that exist.                                     *)
Upgrade(v) ==
    /\ call' = IF v = RawScript THEN [call EXCEPT !.raw = call.transcript] ELSE call
    /\ UNCHANGED <<worker, candidate, review, backfill, heard>>

Migrate(m) ==
    \/ Execute(m) /\ Upgrade(next[m])
    \/ Administer(m) /\ UNCHANGED pipeline

-----------------------------------------------------------------------------
(* The worker *)

StartWorker ==
    /\ ~worker
    /\ at[App] = "serving"
    /\ worker' = TRUE
    /\ UNCHANGED <<startup, call, candidate, review, backfill, heard>>

Fail(error) ==
    /\ call' = [call EXCEPT !.status = "failed", !.error = error]
    /\ UNCHANGED <<startup, worker, candidate, review, backfill, heard>>

(* No recording, no text in it, or no answer that is a prediction *)
Unanswered == worker /\ call.status = "pending" /\ Fail("unanswered")

(* Somebody asks for the analysis again. *)
Request ==
    /\ at[App] = "serving"
    /\ call.status = "failed" /\ candidate = {}
    /\ call' = [call EXCEPT !.status = "pending", !.error = "none"]
    /\ UNCHANGED <<startup, worker, candidate, review, backfill, heard>>

(* What makes the job fail after the answer p on the transcript *)
Refusal(p, transcript) ==
    LET c == CandidateOf(p, transcript) IN
    IF ~c.titled THEN "untitled"
    ELSE IF ~Accepted(c, Grounded(p, transcript) /\ p.exact_data) THEN "refused"
    ELSE IF ~Admitted(c) THEN "check"
    ELSE "none"

(* persist_call_analysis: the text and the candidate in one transaction *)
Store(raw, transcript, failed, c) ==
    /\ call' = [status |-> "completed", transcript |-> transcript, raw |-> raw,
                model |-> TRUE, enhancement_error |-> failed, error |-> "none"]
    /\ candidate' = {c}
    /\ heard' = raw
    /\ UNCHANGED <<startup, worker, review, backfill>>

AnalyzeRaw(raw, readable, p) ==     \* slip: the raw text is what the model is given
    LET failed     == readable = {}
        transcript == IF failed THEN raw ELSE readable
        refusal    == Refusal(p, raw)
    IN  /\ worker
        /\ call.status = "pending"
        /\ IF refusal = "none"
           THEN Store(raw, transcript, failed, CandidateOf(p, raw))
           ELSE Fail(refusal)

(* The worker hears `raw`, makes `readable` of it or, when that fails, keeps it,
   and has the model answer p on the result.                                 *)
Analyze(raw, readable, p) ==
    LET failed     == readable = {}
        transcript == IF failed THEN raw ELSE readable
        refusal    == Refusal(p, transcript)
    IN  /\ worker
        /\ call.status = "pending"
        /\ IF refusal = "none"
           THEN Store(raw, transcript, failed, CandidateOf(p, transcript))
           ELSE Fail(refusal)

-----------------------------------------------------------------------------
(* The backfill: one statement selects, another one writes for each call, and
   the model is asked in between.  One that does not select the call does
   nothing to it.                                                            *)

ToBackfill(row) == row.status = "completed" /\ row.raw # {} /\ ~row.model

Select(b) ==
    /\ b \notin backfill
    /\ RawScript \in executed       \* else its columns do not exist
    /\ ToBackfill(call)
    /\ backfill' = backfill \cup {b}
    /\ UNCHANGED <<startup, worker, call, candidate, review, heard>>

RecordSuccess(b, readable) ==
    /\ b \in backfill
    /\ backfill' = backfill \ {b}
    /\ call' = IF call.model THEN call
               ELSE [call EXCEPT !.transcript = readable, !.model = TRUE,
                                 !.enhancement_error = FALSE]
    /\ UNCHANGED <<startup, worker, candidate, review, heard>>

RecordFailureAny(b) ==              \* slip: without "enhancement_model IS NULL"
    /\ b \in backfill
    /\ backfill' = backfill \ {b}
    /\ call' = [call EXCEPT !.model = TRUE, !.enhancement_error = TRUE]
    /\ UNCHANGED <<startup, worker, candidate, review, heard>>

RecordFailure(b) ==
    /\ b \in backfill
    /\ backfill' = backfill \ {b}
    /\ call' = IF call.model THEN call
               ELSE [call EXCEPT !.model = TRUE, !.enhancement_error = TRUE]
    /\ UNCHANGED <<startup, worker, candidate, review, heard>>

-----------------------------------------------------------------------------
(* The operator.  deliver_candidate asks the gate before anything else, for a
   pending candidate and for the retry of a failed one.                      *)

Deliver(outcome) ==
    /\ at[App] = "serving"
    /\ review \in {"pending", "failed"}
    /\ \E c \in candidate : Concrete(c)
    /\ review' = outcome
    /\ UNCHANGED <<startup, worker, call, candidate, backfill, heard>>

Reject ==
    /\ at[App] = "serving"
    /\ candidate # {}
    /\ review \in {"pending", "failed"}
    /\ review' = "rejected"
    /\ UNCHANGED <<startup, worker, call, candidate, backfill, heard>>

-----------------------------------------------------------------------------
(* A call that is new, or that an earlier release has analysed. *)
Init ==
    /\ StartupInit
    /\ worker = FALSE
    /\ backfill = {}
    /\ \/ /\ call = NewCall
          /\ candidate = {} /\ review = "pending" /\ heard = {}
       \/ \E text \in OldTranscripts :
             /\ call = OldCall(text)
             /\ candidate \in {{c} : c \in OldCandidates(text)}
             /\ review \in {"pending", "failed"}
             /\ heard = text

Next ==
    \/ \E m \in Migrators : Migrate(m)
    \/ \E m \in Migrators : Interrupt(m) /\ UNCHANGED pipeline
    \/ StartWorker \/ Unanswered \/ Request
    \/ \E raw \in Transcripts \ {{}}, readable \in Transcripts, p \in Predictions :
          Analyze(raw, readable, p)
    \/ \E b \in Backfills : \/ Select(b) \/ RecordFailure(b)
                            \/ \E readable \in Transcripts \ {{}} : RecordSuccess(b, readable)
    \/ \E outcome \in {"failed", "confirmed"} : Deliver(outcome)
    \/ Reject

(* A process that migrates goes on until it ends or is killed, and Docker
   starts the container again.                                               *)
Spec == Init /\ [][Next]_vars /\ \A m \in Migrators : WF_vars(Migrate(m))

-----------------------------------------------------------------------------
(* Properties *)

TypeOK ==
    /\ StartupTypeOK
    /\ worker \in BOOLEAN
    /\ call \in Call
    /\ candidate \subseteq Candidate
    /\ review \in Statuses
    /\ backfill \subseteq Backfills
    /\ heard \in Transcripts

(* An answer that the response model accepted and that has a title is lost to
   none of the later rules: neither the domain object nor a CHECK of the table
   refuses the candidate that is made of it.                                 *)
AnswersFit == call.error \notin {"refused", "check"}

(* A concrete complaint rests on the transcript that is stored with it: its
   evidence, subject and issue are found in it as long as it exists, also after
   backfills, so that the operator who delivers it can read them there.      *)
ComplaintIsInTranscript ==
    \A c \in candidate : c.concrete = "yes" =>
        {c.evidence, c.subject, c.issue} \subseteq call.transcript

(* The open candidates on the operator's list are those that the delivery takes:
   none of them is refused, and none that would be taken is left out.        *)
ListIsDeliverable ==
    review \in {"pending", "failed"} =>
        \A c \in candidate : Offered(c) <=> Concrete(c)

(* What was heard in a call stays readable: in the raw transcript once there is
   that column, in the transcript before, through migrations that break off and
   are repeated, and through backfills.                                      *)
HeardIsKept ==
    call.status = "completed" =>
        heard = (IF RawScript \in executed THEN call.raw ELSE call.transcript)

(* The row tells how its transcript was made: with an error of the enhancement,
   or before any, it is the raw one, also when two backfills take one call.  *)
EnhancementIsTold ==
    call.status = "completed" /\ RawScript \in executed =>
        (call.enhancement_error \/ ~call.model => call.transcript = call.raw)

(* The application comes to serve, if no script was executed without its record
   by a process that is gone, and no recorded file was modified.             *)
Torn(v) ==
    /\ v \in executed /\ recorded[v] = "none" /\ v \notin Repeatable
    /\ \A m \in Migrators : ~(at[m] = "record" /\ next[m] = v)
Startable == \A v \in Scripts : ~Torn(v) /\ recorded[v] # "earlier"
ComesToServe == []Startable => <>[](at[App] = "serving")
=============================================================================
