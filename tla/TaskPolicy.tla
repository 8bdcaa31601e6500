----------------------------- MODULE TaskPolicy -----------------------------
(***************************************************************************)
(* What becomes of an answer of the model: when it is a prediction, when   *)
(* its facts are found in the transcript, which candidate is made of it,   *)
(* which candidates the table takes, which the operator is shown and which *)
(* are delivered.  Each of these is decided in another place, by rules of  *)
(* its own: the response model and the grounding of analyzer.py, the       *)
(* domain object of task_create.py, the CHECKs of the migrations, the      *)
(* filter of list_candidates and the gate of task_delivery.py.             *)
(***************************************************************************)
EXTENDS Naturals

CONSTANTS
    Phrases,        \* stretches of words that a text can contain
    Criteria        \* numbers that the model may give as quality_criterion

(* A text is a phrase, or nothing, or white space, or only punctuation. *)
Texts == {"", " ", "!"} \cup Phrases

ASSUME PolicyAssumption ==
    /\ Phrases \cap {"", " ", "!"} = {}
    /\ Criteria \subseteq Nat \ {0}

(* A task name: nothing, white space, or a name *)
Names == {"", " ", "name"}

(* A transcript is the set of the phrases in it. *)
Transcripts == SUBSET Phrases

Null     == 0           \* quality_criterion IS NULL
Bases    == {"explicit_complaint", "explicit_negative_feedback", "none"}
Types    == {"classified", "operator_quality_violation", "none"}

(* The fields of the answer that the rules look at.  "classified" stands for
   the ten other types of the task policy; `titled` is whether the title has a
   character that is not white space.                                        *)
Prediction ==
    [titled : BOOLEAN, should_create : BOOLEAN, basis : Bases, evidence : Texts,
     concrete : BOOLEAN, subject : Texts, issue : Texts,
     exact_data : BOOLEAN,      \* requires_unstated_exact_data
     type : Types, criterion : Criteria \cup {Null}, name : Names]

(* A row of task_candidates, whose texts are stripped; `concrete` is NULL in rows
   from before the gate, which can also be of the type and the basis "legacy". *)
Candidate ==
    [titled : BOOLEAN, should_create : BOOLEAN, basis : Bases \cup {"legacy"},
     evidence : Texts \ {" "}, concrete : {"yes", "no", "null"},
     subject : Texts \ {" "}, issue : Texts \ {" "},
     type : Types \cup {"legacy"}, criterion : Criteria \cup {Null},
     name : Names \ {" "}]

Strip(text) == IF text = " " THEN "" ELSE text
Blank(text) == Strip(text) = ""

-----------------------------------------------------------------------------
(* _TaskCandidatePrediction.validate_closed_policy *)

ValidBasis(p) ==
    /\ p.basis = "none" => ~p.concrete
    /\ p.concrete => /\ p.basis = "explicit_complaint"
                     /\ ~Blank(p.subject) /\ ~Blank(p.issue)
    /\ ~p.concrete => Blank(p.subject) /\ Blank(p.issue)

ValidNone(p) ==
    /\ ~p.should_create
    /\ p.name = "" /\ p.criterion = Null
    /\ p.basis = "none" <=> Blank(p.evidence)

ValidTaskOffByOne(p) ==         \* slip: 21 is taken for a criterion
    /\ p.should_create
    /\ p.basis = "explicit_complaint" /\ p.concrete
    /\ ~Blank(p.evidence) /\ ~p.exact_data /\ ~Blank(p.name)
    /\ IF p.type = "operator_quality_violation"
       THEN p.criterion \in 1 .. 21
       ELSE p.criterion = Null

ValidTask(p) ==
    /\ p.should_create
    /\ p.basis = "explicit_complaint" /\ p.concrete
    /\ ~Blank(p.evidence) /\ ~p.exact_data /\ ~Blank(p.name)
    /\ IF p.type = "operator_quality_violation"
       THEN p.criterion \in 1 .. 20
       ELSE p.criterion = Null

Valid(p) == ValidBasis(p) /\ IF p.type = "none" THEN ValidNone(p) ELSE ValidTask(p)

(* Every answer that the response model accepts *)
Predictions == {p \in Prediction : Valid(p)}

-----------------------------------------------------------------------------
(* AnalyzeText.analyze: grounding, and the candidate *)

(* _is_grounded_span: only words count, so that punctuation is never found *)
IsGroundedSpan(text, transcript) == text \in transcript

Grounded(p, transcript) ==
    /\ p.basis # "none" => IsGroundedSpan(p.evidence, transcript)
    /\ p.concrete => /\ IsGroundedSpan(p.subject, transcript)
                     /\ IsGroundedSpan(p.issue, transcript)

(* The arguments of TaskCandidate(...), stripped as its initializer does *)
NoComplaint(p) ==
    [titled |-> p.titled, should_create |-> FALSE, basis |-> "none",
     evidence |-> "", concrete |-> "no", subject |-> "", issue |-> "",
     type |-> "none", criterion |-> Null, name |-> ""]

CandidateOfRaw(p, transcript) ==        \* slip: nothing is stripped
    IF Grounded(p, transcript)
    THEN [titled |-> p.titled, should_create |-> p.should_create, basis |-> p.basis,
          evidence |-> p.evidence, concrete |-> IF p.concrete THEN "yes" ELSE "no",
          subject |-> p.subject, issue |-> p.issue,
          type |-> p.type, criterion |-> p.criterion, name |-> p.name]
    ELSE NoComplaint(p)

CandidateOf(p, transcript) ==
    IF Grounded(p, transcript)
    THEN [titled |-> p.titled, should_create |-> p.should_create, basis |-> p.basis,
          evidence |-> Strip(p.evidence), concrete |-> IF p.concrete THEN "yes" ELSE "no",
          subject |-> Strip(p.subject), issue |-> Strip(p.issue),
          type |-> p.type, criterion |-> p.criterion, name |-> Strip(p.name)]
    ELSE NoComplaint(p)

-----------------------------------------------------------------------------
(* TaskCandidate.__init__: what it does not raise ValueError for.  It is given
   requires_unstated_exact_data too, which is not stored.                    *)

Accepted(c, exact_data) ==
    /\ c.titled
    /\ c.should_create => ~Blank(c.name)
    /\ IF c.concrete = "yes"
       THEN c.basis = "explicit_complaint" /\ ~Blank(c.subject) /\ ~Blank(c.issue)
       ELSE Blank(c.subject) /\ Blank(c.issue)
    /\ c.type = "none" => ~c.should_create
    /\ c.type \notin {"none", "legacy"} => c.should_create
    /\ IF c.type = "operator_quality_violation"
       THEN c.criterion \in 1 .. 20
       ELSE c.criterion = Null
    /\ c.type = "none" => (c.basis = "none" <=> Blank(c.evidence))
    /\ c.type \notin {"none", "legacy"} =>
          c.concrete = "yes" /\ ~Blank(c.evidence) /\ ~exact_data

-----------------------------------------------------------------------------
(* The CHECKs of task_candidates, after all migrations.  PostgreSQL refuses a row
   for which a CHECK is false; one that is NULL, by a comparison with a column
   that is NULL, lets the row in.                                            *)

(* 0001 *)
NameCheck(c) == c.should_create => ~Blank(c.name)

(* 0004: task_candidates_type_decision_check and _quality_criterion_check *)
TypeCheck(c) ==
    /\ c.type = "none" <=> ~c.should_create
    /\ c.criterion # Null =>
          c.type = "operator_quality_violation" /\ c.criterion \in 1 .. 20

(* 0006: task_candidates_conversation_title_check *)
TitleCheck(c) == c.titled

(* 0007: task_candidates_complaint_evidence_check *)
EvidenceCheck(c) ==
    /\ c.basis = "none" => Blank(c.evidence)
    /\ c.basis \in {"explicit_complaint", "explicit_negative_feedback"} =>
          ~Blank(c.evidence)

(* 0011: task_candidates_concrete_complaint_check *)
ConcreteCheck(c) ==
    \/ /\ c.concrete # "yes"
       /\ Blank(c.subject) /\ Blank(c.issue)
    \/ /\ c.concrete # "no"
       /\ c.basis = "explicit_complaint"
       /\ ~Blank(c.evidence) /\ ~Blank(c.subject) /\ ~Blank(c.issue)

Admitted(c) ==
    NameCheck(c) /\ TypeCheck(c) /\ TitleCheck(c) /\ EvidenceCheck(c) /\ ConcreteCheck(c)

-----------------------------------------------------------------------------
(* list_candidates shows a candidate that is still open by these columns, and
   operator_dashboard counts it by the same ones.                            *)
OfferedAny(c) == c.should_create        \* slip: without "is_concrete_complaint"
Offered(c) == c.should_create /\ c.concrete = "yes"

(* _require_concrete_complaint *)
Concrete(c) ==
    /\ c.should_create
    /\ c.basis = "explicit_complaint"
    /\ c.concrete = "yes"
    /\ ~Blank(c.subject) /\ ~Blank(c.issue)
=============================================================================
