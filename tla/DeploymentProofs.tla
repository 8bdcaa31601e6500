-------------------------- MODULE DeploymentProofs --------------------------
(***************************************************************************)
(* Proofs about one call in a deployment, for any scripts, processes,      *)
(* backfills, phrases and criteria.                                        *)
(*                                                                         *)
(* The later rules for an answer follow from the earlier ones (the lemmas  *)
(* on TaskPolicy).  That the worker and the backfills find the column of   *)
(* the raw text comes from the migrations: they run after the script that  *)
(* adds it (RawScriptFirst), and it is executed once.                      *)
(***************************************************************************)
EXTENDS Deployment, StartupProofs

CallTypeOK ==
    /\ worker \in BOOLEAN
    /\ call \in Call
    /\ candidate \subseteq Candidate
    /\ review \in Statuses
    /\ backfill \subseteq Backfills
    /\ heard \in Transcripts

RawScriptFirst == worker \/ backfill # {} => RawScript \in executed

(* A candidate, and what the call has for it: an analysis, unless it is from
   before the gate                                                           *)
CandidateOK(c) ==
    /\ Admitted(c)
    /\ c.concrete = "yes" =>
          call.model /\ {c.evidence, c.subject, c.issue} \subseteq call.transcript

CandidatesOK ==
    /\ \A c, d \in candidate : c = d
    /\ \A c \in candidate : CandidateOK(c)

PipelineInv ==
    /\ CallTypeOK
    /\ RawScriptFirst
    /\ CandidatesOK
    /\ AnswersFit
    /\ HeardIsKept
    /\ EnhancementIsTold

DeploymentInv == StartupInv /\ PipelineInv

-----------------------------------------------------------------------------
(* Lemmas on the rules for an answer *)

(* What is stripped is blank exactly when the text is. *)
LEMMA StripText ==
    ASSUME NEW text
    PROVE  Strip(text) # " " /\ (Blank(Strip(text)) <=> Blank(text))
  BY DEF Strip, Blank

(* A text that is found is a phrase, which stripping leaves alone. *)
LEMMA GroundedText ==
    ASSUME NEW text, NEW transcript \in Transcripts, IsGroundedSpan(text, transcript)
    PROVE  Strip(text) = text /\ ~Blank(text) /\ text \in transcript
  BY PolicyAssumption DEF IsGroundedSpan, Transcripts, Strip, Blank

(* The candidate that is made of an answer is a row of the table. *)
LEMMA CandidateType ==
    ASSUME NEW p \in Predictions, NEW transcript \in Transcripts
    PROVE  CandidateOf(p, transcript) \in Candidate
  <1>1. p \in Prediction
    BY DEF Predictions
  <1>2. CASE ~Grounded(p, transcript)
    BY <1>1, <1>2 DEF CandidateOf, NoComplaint, Candidate, Prediction, Texts, Bases, Types,
                      Names
  <1>3. CASE Grounded(p, transcript)
    <2>1. \A text \in Texts : Strip(text) \in Texts \ {" "}
      BY DEF Texts, Strip
    <2>2. \A name \in Names : Strip(name) \in Names \ {" "}
      BY DEF Names, Strip
    <2>3. /\ p.titled \in BOOLEAN /\ p.should_create \in BOOLEAN /\ p.basis \in Bases
          /\ p.evidence \in Texts /\ p.subject \in Texts /\ p.issue \in Texts
          /\ p.type \in Types /\ p.criterion \in Criteria \cup {Null} /\ p.name \in Names
      BY <1>1 DEF Prediction
    <2>4. (IF p.concrete THEN "yes" ELSE "no") \in {"yes", "no", "null"}
      OBVIOUS
    <2>5. CandidateOf(p, transcript) =
             [titled |-> p.titled, should_create |-> p.should_create, basis |-> p.basis,
              evidence |-> Strip(p.evidence),
              concrete |-> IF p.concrete THEN "yes" ELSE "no",
              subject |-> Strip(p.subject), issue |-> Strip(p.issue),
              type |-> p.type, criterion |-> p.criterion, name |-> Strip(p.name)]
      BY <1>3 DEF CandidateOf
    <2>6. /\ Strip(p.evidence) \in Texts \ {" "} /\ Strip(p.subject) \in Texts \ {" "}
          /\ Strip(p.issue) \in Texts \ {" "} /\ Strip(p.name) \in Names \ {" "}
      BY <2>1, <2>2, <2>3
    <2>7. /\ p.basis \in Bases \cup {"legacy"} /\ p.type \in Types \cup {"legacy"}
      BY <2>3
    <2> DEFINE concrete == IF p.concrete THEN "yes" ELSE "no"
    <2>8. concrete \in {"yes", "no", "null"}
      BY <2>4
    <2> HIDE DEF concrete
    <2>9. [titled |-> p.titled, should_create |-> p.should_create, basis |-> p.basis,
              evidence |-> Strip(p.evidence),
              concrete |-> concrete,
              subject |-> Strip(p.subject), issue |-> Strip(p.issue),
              type |-> p.type, criterion |-> p.criterion, name |-> Strip(p.name)] \in Candidate
      BY <2>3, <2>6, <2>7, <2>8 DEF Candidate
    <2> QED
      BY <2>5, <2>9 DEF concrete
  <1> QED
    BY <1>2, <1>3

(* A valid answer with a title, when it is grounded or has become none: the
   domain object accepts the candidate, and the CHECKs admit it.             *)
LEMMA ValidIsAccepted ==
    ASSUME NEW p \in Predictions, NEW transcript \in Transcripts, p.titled
    PROVE  /\ Accepted(CandidateOf(p, transcript), Grounded(p, transcript) /\ p.exact_data)
           /\ Admitted(CandidateOf(p, transcript))
  <1> DEFINE c == CandidateOf(p, transcript)
  <1>1. p \in Prediction /\ Valid(p)
    BY DEF Predictions
  <1>2. CASE ~Grounded(p, transcript)
    <2>1. c = NoComplaint(p)
      BY <1>2 DEF CandidateOf
    <2> HIDE DEF c
    <2>2. /\ c.should_create = FALSE /\ c.basis = "none" /\ c.evidence = ""
          /\ c.concrete = "no" /\ c.subject = "" /\ c.issue = "" /\ c.type = "none"
          /\ c.criterion = Null /\ c.name = "" /\ c.titled = p.titled
      BY <2>1 DEF NoComplaint
    <2>3. Admitted(c) /\ c.titled
      BY <2>2 DEF Admitted, NameCheck, TypeCheck, TitleCheck, EvidenceCheck,
                  ConcreteCheck, Blank, Strip
    <2>4. \A exact_data : Accepted(c, exact_data)
      <3> SUFFICES ASSUME NEW exact_data PROVE Accepted(c, exact_data)
        OBVIOUS
      <3>1. Blank(c.evidence) /\ Blank(c.subject) /\ Blank(c.issue)
        BY <2>2 DEF Blank, Strip
      <3> QED
        BY <2>2, <2>3, <3>1 DEF Accepted
    <2> QED
      BY <2>3, <2>4 DEF c
  <1>3. CASE Grounded(p, transcript)
    <2>1. /\ c.titled /\ c.should_create = p.should_create /\ c.basis = p.basis
          /\ c.concrete = "yes" <=> p.concrete
          /\ c.type = p.type /\ c.criterion = p.criterion
      BY <1>1, <1>3 DEF CandidateOf, Prediction
    <2>2. /\ Blank(c.evidence) <=> Blank(p.evidence)
          /\ Blank(c.subject) <=> Blank(p.subject)
          /\ Blank(c.issue) <=> Blank(p.issue)
          /\ Blank(c.name) <=> Blank(p.name)
      BY <1>3, StripText DEF CandidateOf
    <2>3. p.basis \in Bases /\ p.type \in Types
      BY <1>1 DEF Prediction
    <2>4. ValidBasis(p)
      BY <1>1 DEF Valid
    <2>5. p.basis # "none" => ~Blank(p.evidence)
      BY <1>3, GroundedText DEF Grounded
    <2>6. CASE p.type = "none"
      <3>1. ValidNone(p)
        BY <1>1, <2>6 DEF Valid
      <3> QED
        BY <2>1, <2>2, <2>3, <2>4, <2>5, <2>6, <3>1
        DEF ValidBasis, ValidNone, Accepted, Admitted, NameCheck, TypeCheck, TitleCheck,
            EvidenceCheck, ConcreteCheck, Bases
    <2>7. CASE p.type # "none"
      <3>1. ValidTask(p)
        BY <1>1, <2>7 DEF Valid
      <3> QED
        BY <2>1, <2>2, <2>3, <2>4, <2>5, <2>7, <3>1
        DEF ValidBasis, ValidTask, Accepted, Admitted, NameCheck, TypeCheck, TitleCheck,
            EvidenceCheck, ConcreteCheck, Bases, Types
    <2> QED
      BY <2>6, <2>7
  <1> QED
    BY <1>2, <1>3

(* No answer makes a candidate that a later rule refuses. *)
LEMMA NothingRefused ==
    ASSUME NEW p \in Predictions, NEW transcript \in Transcripts
    PROVE  /\ Refusal(p, transcript) \in {"none", "untitled"}
           /\ Refusal(p, transcript) = "none" => Admitted(CandidateOf(p, transcript))
  <1>1. CandidateOf(p, transcript).titled = p.titled
    BY DEF CandidateOf, NoComplaint
  <1>2. CASE ~p.titled
    BY <1>1, <1>2 DEF Refusal
  <1>3. CASE p.titled
    BY <1>1, <1>3, ValidIsAccepted DEF Refusal
  <1> QED
    BY <1>2, <1>3

(* A concrete complaint is found in the transcript it was made of. *)
LEMMA ConcreteIsGrounded ==
    ASSUME NEW p \in Predictions, NEW transcript \in Transcripts,
           CandidateOf(p, transcript).concrete = "yes"
    PROVE  LET c == CandidateOf(p, transcript)
           IN  {c.evidence, c.subject, c.issue} \subseteq transcript
  <1> DEFINE c == CandidateOf(p, transcript)
  <1>1. Grounded(p, transcript) /\ p.concrete
    BY DEF CandidateOf, NoComplaint
  <1>2. p.basis # "none"
    BY <1>1 DEF Predictions, Valid, ValidBasis
  <1>3. /\ IsGroundedSpan(p.evidence, transcript)
        /\ IsGroundedSpan(p.subject, transcript)
        /\ IsGroundedSpan(p.issue, transcript)
    BY <1>1, <1>2 DEF Grounded
  <1>4. c.evidence = Strip(p.evidence) /\ c.subject = Strip(p.subject)
        /\ c.issue = Strip(p.issue)
    BY <1>1 DEF CandidateOf
  <1>5. c.evidence \in transcript /\ c.subject \in transcript /\ c.issue \in transcript
    BY <1>3, <1>4, GroundedText
  <1> QED
    BY <1>5

(* The list and the gate ask for different columns of a row that the CHECKs
   have admitted, and decide the same.                                       *)
LEMMA OfferedIsConcrete ==
    ASSUME NEW c, Admitted(c)
    PROVE  Offered(c) <=> Concrete(c)
  BY DEF Admitted, ConcreteCheck, Offered, Concrete

-----------------------------------------------------------------------------
(* Steps that do not concern the call *)

(* The processes that migrate, but for the script that adds the raw text *)
LEMMA CallUntouched ==
    ASSUME PipelineInv, UNCHANGED pipeline, RawScript \in executed' <=> RawScript \in executed
    PROVE  PipelineInv'
  BY DEF PipelineInv, pipeline, CallTypeOK, RawScriptFirst, CandidatesOK, CandidateOK,
         AnswersFit, HeardIsKept, EnhancementIsTold

(* What is left when neither the candidate nor the texts of a call change *)
LEMMA StatusStep ==
    ASSUME PipelineInv, UNCHANGED <<executed, candidate, backfill, heard>>,
           call' \in Call, call'.error \notin {"refused", "check"},
           call'.transcript = call.transcript, call'.raw = call.raw,
           call'.model = call.model, call'.enhancement_error = call.enhancement_error,
           call'.status = "completed" => call.status = "completed",
           worker' => worker \/ RawScript \in executed,
           worker' \in BOOLEAN, review' \in Statuses
    PROVE  PipelineInv'
  <1>1. CallTypeOK'
    BY DEF PipelineInv, CallTypeOK
  <1>2. RawScriptFirst'
    BY DEF PipelineInv, RawScriptFirst
  <1>3. CandidatesOK'
    BY DEF PipelineInv, CandidatesOK, CandidateOK
  <1>4. AnswersFit' /\ HeardIsKept' /\ EnhancementIsTold'
    BY DEF PipelineInv, AnswersFit, HeardIsKept, EnhancementIsTold
  <1> QED
    BY <1>1, <1>2, <1>3, <1>4 DEF PipelineInv

-----------------------------------------------------------------------------
(* The migrations and the call *)

(* The script copies what there is; it is executed once, and before anybody
   writes a raw text.                                                        *)
LEMMA UpgradeStep ==
    ASSUME DeploymentInv, NEW m \in Migrators, Execute(m), Upgrade(next[m])
    PROVE  PipelineInv'
  <1>1. /\ next[m] \in Scripts /\ Runs(next[m]) /\ executed' = executed \cup {next[m]}
    BY DEF Execute, DeploymentInv, StartupInv, StartupTypeOK, Scripts
  <1>2. CASE next[m] # RawScript
    <2>1. UNCHANGED pipeline
      BY <1>2 DEF Upgrade, pipeline
    <2> QED
      BY <1>1, <1>2, <2>1, CallUntouched DEF DeploymentInv
  <1>3. CASE next[m] = RawScript
    <2>1. RawScript \notin executed /\ RawScript \in executed'
      BY <1>1, <1>3, DeploymentAssumption DEF Runs
    <2>2. /\ call' = [call EXCEPT !.raw = call.transcript]
          /\ UNCHANGED <<worker, candidate, review, backfill, heard>>
      BY <1>3 DEF Upgrade
    <2>3. call \in Call
      BY DEF DeploymentInv, PipelineInv, CallTypeOK
    <2>4. /\ call' \in Call /\ call'.raw = call.transcript
          /\ call'.status = call.status /\ call'.transcript = call.transcript
          /\ call'.model = call.model /\ call'.error = call.error
          /\ call'.enhancement_error = call.enhancement_error
      BY <2>2, <2>3 DEF Call
    <2>5. CallTypeOK' /\ RawScriptFirst'
      BY <2>1, <2>2, <2>4 DEF DeploymentInv, PipelineInv, CallTypeOK, RawScriptFirst
    <2>6. CandidatesOK'
      BY <2>2, <2>4 DEF DeploymentInv, PipelineInv, CandidatesOK, CandidateOK
    <2>7. AnswersFit' /\ HeardIsKept' /\ EnhancementIsTold'
      BY <2>1, <2>2, <2>4
      DEF DeploymentInv, PipelineInv, AnswersFit, HeardIsKept, EnhancementIsTold
    <2> QED
      BY <2>5, <2>6, <2>7 DEF PipelineInv
  <1> QED
    BY <1>2, <1>3

(* The other steps of migrate() execute nothing. *)
LEMMA AdministerStep ==
    ASSUME DeploymentInv, NEW m \in Migrators, Administer(m) \/ Interrupt(m),
           UNCHANGED pipeline
    PROVE  PipelineInv'
  <1>1. executed' = executed
    BY DEF Administer, Interrupt, List, Skip, ExecuteFails, Record, Finish
  <1> QED
    BY <1>1, CallUntouched DEF DeploymentInv

-----------------------------------------------------------------------------
(* The worker *)

(* It is started when the application serves, on all scripts. *)
LEMMA StartWorkerStep ==
    ASSUME DeploymentInv, StartWorker
    PROVE  PipelineInv'
  <1>1. RawScript \in executed
    BY InvServes, DeploymentAssumption DEF StartWorker, DeploymentInv, ServesCompleteSchema
  <1>2. /\ worker' = TRUE
        /\ UNCHANGED <<executed, call, candidate, review, backfill, heard>>
    BY DEF StartWorker, startup
  <1>3. /\ call \in Call /\ call.error \notin {"refused", "check"} /\ review \in Statuses
    BY DEF DeploymentInv, PipelineInv, CallTypeOK, AnswersFit
  <1> QED
    BY <1>1, <1>2, <1>3, StatusStep DEF DeploymentInv

(* A job fails with an error that is none of the later rules'. *)
LEMMA FailStep ==
    ASSUME DeploymentInv, NEW error \in {"unanswered", "untitled"}, Fail(error)
    PROVE  PipelineInv'
  <1>1. /\ call' = [call EXCEPT !.status = "failed", !.error = error]
        /\ UNCHANGED <<executed, worker, candidate, review, backfill, heard>>
    BY DEF Fail, startup
  <1>2. call \in Call /\ worker \in BOOLEAN /\ review \in Statuses
    BY DEF DeploymentInv, PipelineInv, CallTypeOK
  <1>3. call' \in Call
    BY <1>1, <1>2 DEF Call
  <1>4. /\ call'.error = error /\ call'.status = "failed"
        /\ call'.transcript = call.transcript /\ call'.raw = call.raw
        /\ call'.model = call.model /\ call'.enhancement_error = call.enhancement_error
    BY <1>1, <1>2 DEF Call
  <1> QED
    BY <1>1, <1>2, <1>3, <1>4, StatusStep DEF DeploymentInv

(* A request sends the job to the queue again. *)
LEMMA RequestStep ==
    ASSUME DeploymentInv, Request
    PROVE  PipelineInv'
  <1>1. /\ call' = [call EXCEPT !.status = "pending", !.error = "none"]
        /\ UNCHANGED <<executed, worker, candidate, review, backfill, heard>>
    BY DEF Request, startup
  <1>2. call \in Call /\ worker \in BOOLEAN /\ review \in Statuses
    BY DEF DeploymentInv, PipelineInv, CallTypeOK
  <1>3. call' \in Call
    BY <1>1, <1>2 DEF Call
  <1>4. /\ call'.error = "none" /\ call'.status = "pending"
        /\ call'.transcript = call.transcript /\ call'.raw = call.raw
        /\ call'.model = call.model /\ call'.enhancement_error = call.enhancement_error
    BY <1>1, <1>2 DEF Call
  <1> QED
    BY <1>1, <1>2, <1>3, <1>4, StatusStep DEF DeploymentInv

(* An answer that is stored is grounded in the text that is stored with it. *)
LEMMA AnalyzeStep ==
    ASSUME DeploymentInv, NEW raw \in Transcripts, NEW readable \in Transcripts,
           NEW p \in Predictions, Analyze(raw, readable, p)
    PROVE  PipelineInv'
  <1> DEFINE failed     == readable = {}
             transcript == IF failed THEN raw ELSE readable
             c          == CandidateOf(p, transcript)
             refusal    == Refusal(p, transcript)
  <1>1. transcript \in Transcripts /\ RawScript \in executed
    BY DEF Analyze, DeploymentInv, PipelineInv, RawScriptFirst
  <1>2. refusal \in {"none", "untitled"} /\ (refusal = "none" => Admitted(c))
    BY <1>1, NothingRefused
  <1>3. CASE refusal # "none"
    <2>1. Fail(refusal) /\ refusal = "untitled"
      BY <1>2, <1>3 DEF Analyze
    <2> QED
      BY <2>1, FailStep
  <1>4. CASE refusal = "none"
    <2>1. Store(raw, transcript, failed, c)
      BY <1>4 DEF Analyze
    <2> HIDE DEF transcript, failed, c, refusal
    <2>2. /\ call' = [status |-> "completed", transcript |-> transcript, raw |-> raw,
                      model |-> TRUE, enhancement_error |-> failed, error |-> "none"]
          /\ candidate' = {c} /\ heard' = raw
          /\ UNCHANGED <<executed, worker, review, backfill>>
      BY <2>1 DEF Store, startup
    <2>3. c \in Candidate /\ failed \in BOOLEAN
      BY <1>1, CandidateType DEF c, failed
    <2>4. CallTypeOK' /\ RawScriptFirst'
      BY <1>1, <2>2, <2>3 DEF DeploymentInv, PipelineInv, CallTypeOK, RawScriptFirst, Call
    <2>5. c.concrete = "yes" => {c.evidence, c.subject, c.issue} \subseteq transcript
      BY <1>1, ConcreteIsGrounded DEF c
    <2>6. CandidatesOK'
      BY <1>2, <1>4, <2>2, <2>5 DEF CandidatesOK, CandidateOK
    <2>7. AnswersFit' /\ HeardIsKept'
      BY <1>1, <2>2 DEF AnswersFit, HeardIsKept
    <2>8. EnhancementIsTold'
      <3>1. failed => transcript = raw
        BY DEF transcript
      <3> QED
        BY <2>2, <3>1 DEF EnhancementIsTold
    <2> QED
      BY <2>4, <2>6, <2>7, <2>8 DEF PipelineInv
  <1> QED
    BY <1>3, <1>4

-----------------------------------------------------------------------------
(* The backfill *)

(* It selects by a column that the script adds. *)
LEMMA SelectStep ==
    ASSUME DeploymentInv, NEW b \in Backfills, Select(b)
    PROVE  PipelineInv'
  <1>1. /\ backfill' = backfill \cup {b} /\ RawScript \in executed
        /\ UNCHANGED <<executed, worker, call, candidate, review, heard>>
    BY DEF Select, startup
  <1> QED
    BY <1>1 DEF DeploymentInv, PipelineInv, CallTypeOK, RawScriptFirst, CandidatesOK,
               CandidateOK, AnswersFit, HeardIsKept, EnhancementIsTold

(* It changes a text only if nobody has made it readable, and only the one that
   is not raw; a candidate that a later answer made is never under it.       *)
LEMMA RecordSuccessStep ==
    ASSUME DeploymentInv, NEW b \in Backfills, NEW readable \in Transcripts,
           RecordSuccess(b, readable)
    PROVE  PipelineInv'
  <1>1. /\ b \in backfill /\ backfill' = backfill \ {b}
        /\ UNCHANGED <<executed, worker, candidate, review, heard>>
        /\ call' = IF call.model THEN call
                   ELSE [call EXCEPT !.transcript = readable, !.model = TRUE,
                                     !.enhancement_error = FALSE]
    BY DEF RecordSuccess, startup
  <1>2. call \in Call /\ RawScript \in executed
    BY <1>1 DEF DeploymentInv, PipelineInv, CallTypeOK, RawScriptFirst
  <1>3. CASE call.model
    BY <1>1, <1>3 DEF DeploymentInv, PipelineInv, CallTypeOK, RawScriptFirst, CandidatesOK,
                      CandidateOK, AnswersFit, HeardIsKept, EnhancementIsTold
  <1>4. CASE ~call.model
    <2>1. /\ call' \in Call /\ call'.transcript = readable /\ call'.raw = call.raw
          /\ call'.model = TRUE /\ call'.enhancement_error = FALSE
          /\ call'.status = call.status /\ call'.error = call.error
      BY <1>1, <1>2, <1>4 DEF Call
    <2>2. CallTypeOK' /\ RawScriptFirst'
      BY <1>1, <1>2, <2>1 DEF DeploymentInv, PipelineInv, CallTypeOK, RawScriptFirst
    <2>3. CandidatesOK'
      BY <1>1, <1>4 DEF DeploymentInv, PipelineInv, CandidatesOK, CandidateOK
    <2>4. AnswersFit' /\ HeardIsKept' /\ EnhancementIsTold'
      BY <1>1, <1>2, <2>1
      DEF DeploymentInv, PipelineInv, AnswersFit, HeardIsKept, EnhancementIsTold
    <2> QED
      BY <2>2, <2>3, <2>4 DEF PipelineInv
  <1> QED
    BY <1>3, <1>4

(* A failure is recorded on a text that is still the raw one. *)
LEMMA RecordFailureStep ==
    ASSUME DeploymentInv, NEW b \in Backfills, RecordFailure(b)
    PROVE  PipelineInv'
  <1>1. /\ b \in backfill /\ backfill' = backfill \ {b}
        /\ UNCHANGED <<executed, worker, candidate, review, heard>>
        /\ call' = IF call.model THEN call
                   ELSE [call EXCEPT !.model = TRUE, !.enhancement_error = TRUE]
    BY DEF RecordFailure, startup
  <1>2. call \in Call /\ RawScript \in executed
    BY <1>1 DEF DeploymentInv, PipelineInv, CallTypeOK, RawScriptFirst
  <1>3. CASE call.model
    BY <1>1, <1>3 DEF DeploymentInv, PipelineInv, CallTypeOK, RawScriptFirst, CandidatesOK,
                      CandidateOK, AnswersFit, HeardIsKept, EnhancementIsTold
  <1>4. CASE ~call.model
    <2>1. /\ call' \in Call /\ call'.transcript = call.transcript /\ call'.raw = call.raw
          /\ call'.model = TRUE /\ call'.enhancement_error = TRUE
          /\ call'.status = call.status /\ call'.error = call.error
      BY <1>1, <1>2, <1>4 DEF Call
    <2>2. CallTypeOK' /\ RawScriptFirst'
      BY <1>1, <1>2, <2>1 DEF DeploymentInv, PipelineInv, CallTypeOK, RawScriptFirst
    <2>3. CandidatesOK'
      BY <1>1, <1>4 DEF DeploymentInv, PipelineInv, CandidatesOK, CandidateOK
    <2>4. AnswersFit' /\ HeardIsKept'
      BY <1>1, <2>1 DEF DeploymentInv, PipelineInv, AnswersFit, HeardIsKept
    <2>5. EnhancementIsTold'
      BY <1>1, <1>2, <1>4, <2>1 DEF DeploymentInv, PipelineInv, EnhancementIsTold
    <2> QED
      BY <2>2, <2>3, <2>4, <2>5 DEF PipelineInv
  <1> QED
    BY <1>3, <1>4

-----------------------------------------------------------------------------
(* The operator writes only the status of the candidate. *)
LEMMA DecisionStep ==
    ASSUME DeploymentInv, Reject \/ \E outcome \in {"failed", "confirmed"} : Deliver(outcome)
    PROVE  PipelineInv'
  <1>1. /\ UNCHANGED <<executed, worker, call, candidate, backfill, heard>>
        /\ review' \in Statuses
    <2>1. CASE Reject
      BY <2>1 DEF Reject, startup, Statuses
    <2>2. ASSUME NEW outcome \in {"failed", "confirmed"}, Deliver(outcome)
          PROVE  /\ UNCHANGED <<executed, worker, call, candidate, backfill, heard>>
                 /\ review' \in Statuses
      BY <2>2 DEF Deliver, startup, Statuses
    <2> QED
      BY <2>1, <2>2
  <1>2. /\ call \in Call /\ call.error \notin {"refused", "check"} /\ worker \in BOOLEAN
    BY DEF DeploymentInv, PipelineInv, CallTypeOK, AnswersFit
  <1> QED
    BY <1>1, <1>2, StatusStep DEF DeploymentInv

-----------------------------------------------------------------------------
(* The invariant *)

(* A candidate from before the gate is a row of the table like any other. *)
LEMMA OldCandidateType ==
    ASSUME NEW text \in Transcripts \ {{}}, NEW c \in OldCandidates(text)
    PROVE  c \in Candidate /\ Admitted(c) /\ c.concrete = "null"
  <1>1. /\ c \in [titled : {TRUE}, should_create : BOOLEAN,
                  basis : {"explicit_complaint", "legacy", "none"},
                  evidence : {""} \cup text, concrete : {"null"}, subject : {""},
                  issue : {""}, type : {"classified", "legacy", "none"},
                  criterion : {Null}, name : {"", "name"}]
        /\ Admitted(c)
    BY DEF OldCandidates
  <1>2. {""} \cup text \subseteq Texts \ {" "}
    BY PolicyAssumption DEF Texts, Transcripts
  <1>3. {""} \subseteq Texts \ {" "} /\ {"", "name"} \subseteq Names \ {" "}
    BY DEF Texts, Names
  <1>4. /\ {"explicit_complaint", "legacy", "none"} \subseteq Bases \cup {"legacy"}
        /\ {"classified", "legacy", "none"} \subseteq Types \cup {"legacy"}
    BY DEF Bases, Types
  <1>5. c \in Candidate
    BY <1>1, <1>2, <1>3, <1>4 DEF Candidate
  <1> QED
    BY <1>1, <1>5

(* It holds of a new call, and of one that an earlier release has analysed. *)
LEMMA DeploymentInvInit == Init => DeploymentInv
  <1> SUFFICES ASSUME Init PROVE DeploymentInv
    OBVIOUS
  <1>1. StartupInv
    BY StartupInvInit DEF Init
  <1>2. worker = FALSE /\ backfill = {}
    BY DEF Init
  <1>3. NewCall \in Call
    BY DEF NewCall, Call, Transcripts
  <1>4. CASE call = NewCall /\ candidate = {} /\ review = "pending" /\ heard = {}
    <2>1. CallTypeOK
      BY <1>2, <1>3, <1>4 DEF CallTypeOK, Statuses, Transcripts
    <2>2. /\ RawScriptFirst /\ CandidatesOK /\ AnswersFit /\ HeardIsKept /\ EnhancementIsTold
      BY <1>2, <1>4 DEF RawScriptFirst, CandidatesOK, AnswersFit, HeardIsKept,
                        EnhancementIsTold, NewCall
    <2> QED
      BY <1>1, <2>1, <2>2 DEF DeploymentInv, PipelineInv
  <1>5. ASSUME NEW text \in OldTranscripts, call = OldCall(text),
               candidate \in {{c} : c \in OldCandidates(text)},
               review \in {"pending", "failed"}, heard = text
        PROVE  DeploymentInv
    <2>1. text \in Transcripts \ {{}}
      BY DeploymentAssumption
    <2>2. PICK c \in OldCandidates(text) : candidate = {c}
      BY <1>5
    <2>3. c \in Candidate /\ Admitted(c) /\ c.concrete = "null"
      BY <2>1, OldCandidateType
    <2>4. /\ call.status = "completed" /\ call.transcript = text
          /\ call.raw = (IF RawScript \in executed THEN text ELSE {})
          /\ call.error = "none" /\ call \in Call
      BY <1>3, <1>5, <2>1 DEF OldCall, NewCall, Call, Transcripts
    <2>5. CallTypeOK
      BY <1>2, <1>5, <2>1, <2>2, <2>3, <2>4 DEF CallTypeOK, Statuses
    <2>6. RawScriptFirst /\ AnswersFit /\ HeardIsKept /\ EnhancementIsTold
      BY <1>2, <1>5, <2>4 DEF RawScriptFirst, AnswersFit, HeardIsKept, EnhancementIsTold
    <2>7. CandidatesOK
      BY <2>2, <2>3 DEF CandidatesOK, CandidateOK
    <2> QED
      BY <1>1, <2>5, <2>6, <2>7 DEF DeploymentInv, PipelineInv
  <1> QED
    BY <1>4, <1>5 DEF Init

(* Every action keeps it. *)
LEMMA DeploymentInvStep == DeploymentInv /\ [Next]_vars => DeploymentInv'
  <1> SUFFICES ASSUME DeploymentInv, [Next]_vars PROVE DeploymentInv'
    OBVIOUS
  <1>1. ASSUME NEW m \in Migrators, Migrate(m) PROVE DeploymentInv'
    <2>1. StartupInv'
      BY <1>1, StartupInvStep DEF Migrate, StartupStep, DeploymentInv
    <2>2. PipelineInv'
      BY <1>1, UpgradeStep, AdministerStep DEF Migrate
    <2> QED
      BY <2>1, <2>2 DEF DeploymentInv
  <1>2. ASSUME NEW m \in Migrators, Interrupt(m), UNCHANGED pipeline PROVE DeploymentInv'
    <2>1. StartupInv'
      BY <1>2, StartupInvStep DEF StartupStep, DeploymentInv
    <2>2. PipelineInv'
      BY <1>2, AdministerStep
    <2> QED
      BY <2>1, <2>2 DEF DeploymentInv
  <1>3. ASSUME UNCHANGED startup, PipelineInv' PROVE DeploymentInv'
    BY <1>3, StartupInvStutter DEF DeploymentInv
  <1>4. CASE StartWorker
    BY <1>3, <1>4, StartWorkerStep DEF StartWorker
  <1>5. CASE Unanswered
    BY <1>3, <1>5, FailStep DEF Unanswered, Fail
  <1>6. CASE Request
    BY <1>3, <1>6, RequestStep DEF Request
  <1>7. ASSUME NEW raw \in Transcripts \ {{}}, NEW readable \in Transcripts,
               NEW p \in Predictions, Analyze(raw, readable, p)
        PROVE  DeploymentInv'
    <2>1. UNCHANGED startup
      BY <1>7 DEF Analyze, Store, Fail
    <2> QED
      BY <1>3, <1>7, <2>1, AnalyzeStep
  <1>8. ASSUME NEW b \in Backfills,
               \/ Select(b) \/ RecordFailure(b)
               \/ \E readable \in Transcripts \ {{}} : RecordSuccess(b, readable)
        PROVE  DeploymentInv'
    <2>1. UNCHANGED startup
      BY <1>8 DEF Select, RecordFailure, RecordSuccess
    <2> QED
      BY <1>3, <1>8, <2>1, SelectStep, RecordFailureStep, RecordSuccessStep
  <1>9. CASE Reject \/ \E outcome \in {"failed", "confirmed"} : Deliver(outcome)
    <2>1. UNCHANGED startup
      BY <1>9 DEF Reject, Deliver
    <2> QED
      BY <1>3, <1>9, <2>1, DecisionStep
  <1>10. CASE UNCHANGED vars
    <2>1. UNCHANGED startup /\ UNCHANGED pipeline /\ executed' = executed
      BY <1>10 DEF vars, startup, pipeline
    <2> QED
      BY <1>3, <2>1, CallUntouched DEF DeploymentInv
  <1> QED
    BY <1>1, <1>2, <1>4, <1>5, <1>6, <1>7, <1>8, <1>9, <1>10 DEF Next

(* The invariant holds in every state. *)
THEOREM DeploymentInvariant == Spec => []DeploymentInv
  BY DeploymentInvInit, DeploymentInvStep, PTL DEF Spec

-----------------------------------------------------------------------------
(* What follows *)

(* The tables, the processes and the call keep their types. *)
THEOREM TypeCorrect == Spec => []TypeOK
  <1>1. DeploymentInv => TypeOK
    BY DEF DeploymentInv, StartupInv, PipelineInv, CallTypeOK, TypeOK
  <1> QED
    BY <1>1, DeploymentInvariant, PTL

(* The application serves only on the schema that its scripts describe, however
   many processes migrate and wherever they are killed.                      *)
THEOREM SchemaIsComplete == Spec => []ServesCompleteSchema
  <1>1. DeploymentInv => ServesCompleteSchema
    BY InvServes DEF DeploymentInv
  <1> QED
    BY <1>1, DeploymentInvariant, PTL

(* The scripts are executed in their order, and recorded one behind at most. *)
THEOREM ScriptsKeepOrder == Spec => []ScriptsInOrder
  <1>1. DeploymentInv => ScriptsInOrder
    BY DEF DeploymentInv, StartupInv
  <1> QED
    BY <1>1, DeploymentInvariant, PTL

(* The domain object and the CHECKs refuse no candidate that is made of a valid
   answer with a title.                                                      *)
THEOREM AnswersAlwaysFit == Spec => []AnswersFit
  <1>1. DeploymentInv => AnswersFit
    BY DEF DeploymentInv, PipelineInv
  <1> QED
    BY <1>1, DeploymentInvariant, PTL

(* No backfill and no later step takes the words of a complaint from the text
   that is stored with it.                                                   *)
THEOREM ComplaintsStayInTranscript == Spec => []ComplaintIsInTranscript
  <1>1. DeploymentInv => ComplaintIsInTranscript
    BY DEF DeploymentInv, PipelineInv, CandidatesOK, CandidateOK, ComplaintIsInTranscript
  <1> QED
    BY <1>1, DeploymentInvariant, PTL

(* The list of the operator and the gate of the delivery agree on every row. *)
THEOREM ListAgreesWithGate == Spec => []ListIsDeliverable
  <1>1. DeploymentInv => ListIsDeliverable
    BY OfferedIsConcrete
    DEF DeploymentInv, PipelineInv, CandidatesOK, CandidateOK, ListIsDeliverable
  <1> QED
    BY <1>1, DeploymentInvariant, PTL

(* Neither migrations nor backfills lose what was heard. *)
THEOREM HeardIsAlwaysKept == Spec => []HeardIsKept
  <1>1. DeploymentInv => HeardIsKept
    BY DEF DeploymentInv, PipelineInv
  <1> QED
    BY <1>1, DeploymentInvariant, PTL

(* The columns of the enhancement say what the transcript is. *)
THEOREM EnhancementIsAlwaysTold == Spec => []EnhancementIsTold
  <1>1. DeploymentInv => EnhancementIsTold
    BY DEF DeploymentInv, PipelineInv
  <1> QED
    BY <1>1, DeploymentInvariant, PTL
=============================================================================
