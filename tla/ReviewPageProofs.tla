-------------------------- MODULE ReviewPageProofs --------------------------
(***************************************************************************)
(* What the operator's page reads and how many decisions it has under way, *)
(* for any number of calls, polls and clicks.                              *)
(***************************************************************************)
EXTENDS ReviewPage, TLAPS

-----------------------------------------------------------------------------
(* Types.  An answer fits its request because the number that it comes back to
   stands for the same operation everywhere.                                 *)

Numbered ==
    /\ \A q \in requests, a \in sent : q.n = a.n => q.op = a.op
    /\ \A q \in requests : txn # NoTxn /\ q.n = txn.n => q.op = txn.op

PageInv == TypeOK /\ Numbered

LEMMA PageInit == Init => PageInv
<1> SUFFICES ASSUME Init PROVE PageInv
  OBVIOUS
<1> USE PageAssumptions
<1>1. /\ row \in [Calls -> Analysis] /\ cand \in [Calls -> Statuses]
      /\ asked \subseteq Calls /\ judged \subseteq Calls /\ failed \subseteq Calls
  BY DEF Init
<1>2. ownCalls \in [Calls -> Analysis] /\ candidates \in [Calls -> Statuses]
  BY DEF Init, Analysis, Statuses
<1>3. polls \in [Reads -> [on : BOOLEAN, calls : SUBSET [Calls -> Analysis],
                           rows : SUBSET [Calls -> Statuses]]]
  BY DEF Init, Sent, NoRead
<1>4. review \in [call : Calls, status : Statuses] \cup {Closed} /\ requesting \in Calls \cup {None}
  BY DEF Init
<1>5. requests = {} /\ sent = {} /\ txn = NoTxn /\ decided = {} /\ events \in 0 .. MaxEvents
  BY DEF Init
<1>6. changed \in BOOLEAN /\ timer \in BOOLEAN /\ busy \in BOOLEAN
  BY DEF Init
<1>7. QED
  BY <1>1, <1>2, <1>3, <1>4, <1>5, <1>6 DEF PageInv, Numbered, TypeOK

(* The bound on events is kept by what counts against it. *)
LEMMA CountType == TypeOK /\ Count => events' \in 1 .. MaxEvents
BY PageAssumptions DEF TypeOK, Count

(* What a request can come to. *)
LEMMA OutcomeTypes ==
    ASSUME NEW op \in Operations, NEW c \in Calls, NEW o \in Outcomes(op)
    PROVE  /\ op \in Decisions => Shown(op, c, o) \in {"confirmed", "failed", "rejected"}
           /\ op = "analyse" => o = "queued"
           /\ op = "delete" => o = "gone"
           /\ Shown(op, c, o) \in Answers(op) /\ o # Nothing
BY DEF Operations, Decisions, Outcomes, Shown, Answers, Nothing

(* What the server does to a call keeps its tables in their types. *)
LEMMA PublishType ==
    ASSUME TypeOK, NEW op \in Operations, NEW c \in Calls, NEW o \in Outcomes(op),
           Publish(op, c, o)
    PROVE  /\ row' \in [Calls -> Analysis] /\ asked' \subseteq Calls /\ judged' \subseteq Calls
           /\ cand' \in [Calls -> Statuses] /\ failed' \subseteq Calls
<1>1. op \in Decisions => Shown(op, c, o) \in Statuses
  BY OutcomeTypes DEF Statuses
<1>2. op \notin Decisions => o \in Analysis
  BY OutcomeTypes DEF Operations, Decisions, Analysis
<1>3. "none" \in Statuses
  BY DEF Statuses
<1>4. QED
  BY <1>1, <1>2, <1>3 DEF Publish, TypeOK

(* A request is a record of its fields, and keeps being one with an answer. *)
LEMMA RequestShape ==
    ASSUME NEW q \in Request
    PROVE  /\ q.n \in 1 .. MaxEvents /\ q.op \in Operations /\ q.call \in Calls
           /\ q.answer \in Answers(q.op)
           /\ \A o \in Answers(q.op) : [q EXCEPT !.answer = o] \in Request
<1>1. PICK op \in Operations :
         q \in [n : 1 .. MaxEvents, op : {op}, call : Calls, answer : Answers(op)]
  BY DEF Request
<1>2. q.op = op
  BY <1>1
<1>3. ASSUME NEW o \in Answers(op)
      PROVE  [q EXCEPT !.answer = o] \in Request
  <2>1. [q EXCEPT !.answer = o] \in
           [n : 1 .. MaxEvents, op : {op}, call : Calls, answer : Answers(op)]
    BY <1>1
  <2>2. QED
    BY <2>1 DEF Request
<1>4. QED
  BY <1>1, <1>2, <1>3

(* Which field an answer changes. *)
LEMMA RequestFields ==
    ASSUME NEW q \in Request, NEW o
    PROVE  LET r == [q EXCEPT !.answer = o]
           IN  r.n = q.n /\ r.op = q.op /\ r.call = q.call /\ r.answer = o
<1>1. PICK op \in Operations :
         q \in [n : 1 .. MaxEvents, op : {op}, call : Calls, answer : Answers(op)]
  BY DEF Request
<1>2. QED
  BY <1>1

(* So is a transaction, which keeps being one when it has answered. *)
LEMMA TxnShape ==
    ASSUME txn \in Transactions
    PROVE  /\ txn.n \in 1 .. MaxEvents /\ txn.op \in Operations /\ txn.call \in Calls
           /\ txn.out \in Outcomes(txn.op) \cup {Nothing}
           /\ \A o \in Outcomes(txn.op) :
                 /\ [txn EXCEPT !.out = o] \in Transactions
                 /\ [txn EXCEPT !.out = o] # NoTxn
                 /\ [txn EXCEPT !.out = o].n = txn.n
                 /\ [txn EXCEPT !.out = o].op = txn.op
                 /\ [txn EXCEPT !.out = o].call = txn.call
                 /\ [txn EXCEPT !.out = o].out = o
<1> DEFINE Of(op) == [n : 1 .. MaxEvents, op : {op}, call : Calls, seen : Statuses,
                      out : Outcomes(op) \cup {Nothing}]
<1>1. PICK op \in Operations : txn \in Of(op)
  BY DEF Transactions
<1>2. txn.op = op
  BY <1>1
<1>3. ASSUME NEW o \in Outcomes(op)
      PROVE  [txn EXCEPT !.out = o] \in Transactions
  <2>1. [txn EXCEPT !.out = o] \in Of(op)
    BY <1>1
  <2>2. QED
    BY <2>1 DEF Transactions
<1>4. ASSUME NEW o \in Outcomes(op)
      PROVE  /\ [txn EXCEPT !.out = o].n = txn.n
             /\ [txn EXCEPT !.out = o].op = txn.op
             /\ [txn EXCEPT !.out = o].call = txn.call
             /\ [txn EXCEPT !.out = o].out = o
  BY <1>1
<1>5. NoTxn.n = 0 /\ txn.n # 0
  BY <1>1 DEF NoTxn
<1>6. QED
  BY <1>1, <1>2, <1>3, <1>4, <1>5

(* An answer changes no request but its own, and only its answer. *)
LEMMA ReplyType ==
    ASSUME PageInv, NEW n, NEW a, Reply(n, a),
           \A q \in requests : q.n = n => a \in Answers(q.op)
    PROVE  /\ requests' \subseteq Request
           /\ \A r \in requests' : \E q \in requests : r.n = q.n /\ r.op = q.op
<1>1. ASSUME NEW r \in requests'
      PROVE  r \in Request /\ \E q \in requests : r.n = q.n /\ r.op = q.op
  <2>1. PICK q \in requests :
           r = IF q.n = n /\ q.answer = Waiting THEN [q EXCEPT !.answer = a] ELSE q
    BY <1>1 DEF Reply
  <2>2. q \in Request
    BY DEF PageInv, TypeOK
  <2>3. CASE q.n = n /\ q.answer = Waiting
    BY <2>1, <2>2, <2>3, RequestShape, RequestFields
  <2>4. CASE ~(q.n = n /\ q.answer = Waiting)
    BY <2>1, <2>2, <2>4
  <2>5. QED
    BY <2>3, <2>4
<1>2. QED
  BY <1>1

(* The worker and the others, who do not touch the page's requests. *)
LEMMA ServerType ==
    ASSUME PageInv, Work \/ Others \/ \E c \in Calls : Misjudge(c)
    PROVE  PageInv'
<1> USE DEF PageInv
<1>1. /\ row' \in [Calls -> Analysis] /\ asked' \subseteq Calls /\ judged' \subseteq Calls
      /\ cand' \in [Calls -> Statuses] /\ failed' \subseteq Calls /\ events' \in 0 .. MaxEvents
  <2>1. CASE Work
    BY <2>1 DEF Work, TypeOK, Claim, Finish, Listed, Analysis, Statuses
  <2>2. CASE Others
    BY <2>2, PublishType, CountType DEF Others
  <2>3. CASE \E c \in Calls : Misjudge(c)
    BY <2>3, CountType DEF Misjudge, TypeOK, Analysis
  <2>4. QED
    BY <2>1, <2>2, <2>3
<1>2. UNCHANGED <<sent, txn, decided, lists, timer, polls, modal, requests>>
  BY DEF Work, Others, Misjudge
<1>3. TypeOK'
  BY <1>1, <1>2 DEF TypeOK, lists, modal
<1>4. QED
  BY <1>2, <1>3 DEF Numbered

(* The handler of the page's request looks. *)
LEMMA LookType ==
    ASSUME PageInv, NEW a \in sent, Look(a)
    PROVE  PageInv'
<1> USE DEF PageInv
<1>1. a \in [n : 1 .. MaxEvents, op : Operations, call : Calls] /\ sent' \subseteq sent
  BY DEF Look, TypeOK
<1>2. UNCHANGED <<tables, decided, lists, timer, polls, modal, events>>
  BY DEF Look
<1>3. CASE UNCHANGED requests /\ txn' = Txn(a)
  <2>1. /\ Txn(a) \in [n : 1 .. MaxEvents, op : {a.op}, call : Calls, seen : Statuses,
                        out : Outcomes(a.op) \cup {Nothing}]
        /\ Txn(a).n = a.n /\ Txn(a).op = a.op
    BY <1>1 DEF Txn, TypeOK
  <2>2. Txn(a) \in Transactions
    BY <1>1, <2>1 DEF Transactions
  <2>3. Numbered'
    BY <1>1, <1>3, <2>1 DEF Numbered
  <2>4. TypeOK'
    BY <1>1, <1>2, <1>3, <2>2 DEF TypeOK, tables, lists, modal
  <2>5. QED
    BY <2>3, <2>4
<1>4. CASE Reply(a.n, Refused) /\ UNCHANGED txn
  <2>1. /\ requests' \subseteq Request
        /\ \A r \in requests' : \E q \in requests : r.n = q.n /\ r.op = q.op
    BY <1>4, ReplyType DEF Answers
  <2>2. Numbered'
    BY <1>1, <1>4, <2>1 DEF Numbered
  <2>3. TypeOK'
    BY <1>1, <1>2, <1>4, <2>1 DEF TypeOK, tables, lists, modal
  <2>4. QED
    BY <2>2, <2>3
<1>5. QED
  BY <1>3, <1>4 DEF Look

(* What the answer to the page's transaction may be. *)
LEMMA AnswerFits ==
    ASSUME PageInv, txn # NoTxn, NEW a \in Answers(txn.op), Reply(txn.n, a)
    PROVE  /\ requests' \subseteq Request
           /\ \A r \in requests' : \E q \in requests : r.n = q.n /\ r.op = q.op
BY ReplyType DEF PageInv, Numbered

LEMMA EndingType == PageInv /\ Ending => PageInv'
<1> SUFFICES ASSUME PageInv, Ending PROVE PageInv'
  OBVIOUS
<1> USE DEF PageInv
<1>0. txn = NoTxn \/ txn \in Transactions
  BY DEF TypeOK
<1>1. CASE Raise
  <2>1. /\ requests' \subseteq Request
        /\ \A r \in requests' : \E q \in requests : r.n = q.n /\ r.op = q.op
    BY <1>1, AnswerFits DEF Raise, Answers
  <2>2. UNCHANGED <<tables, sent, decided, lists, timer, polls, modal, events>> /\ txn' = NoTxn
    BY <1>1 DEF Raise
  <2>3. TypeOK'
    BY <2>1, <2>2 DEF TypeOK, tables, lists, modal
  <2>4. QED
    BY <2>1, <2>2, <2>3 DEF Numbered
<1>2. ASSUME NEW o \in Outcomes(txn.op), CommitAndAnswer(o) \/ AnswerFirst(o)
      PROVE  PageInv'
  <2>0. Written(o) /\ txn # NoTxn
    BY <1>2 DEF CommitAndAnswer, AnswerFirst, Written
  <2>1. /\ txn.op \in Operations /\ txn.call \in Calls
        /\ Shown(txn.op, txn.call, o) \in Answers(txn.op)
    BY <1>0, <2>0, TxnShape, OutcomeTypes
  <2>2. /\ requests' \subseteq Request
        /\ \A r \in requests' : \E q \in requests : r.n = q.n /\ r.op = q.op
    BY <2>0, <2>1, AnswerFits DEF Written
  <2>3. UNCHANGED <<sent, lists, timer, polls, modal, events>> /\ decided' \subseteq Calls
    BY <2>0, <2>1 DEF Written, TypeOK
  <2>4. /\ row' \in [Calls -> Analysis] /\ asked' \subseteq Calls /\ judged' \subseteq Calls
        /\ cand' \in [Calls -> Statuses] /\ failed' \subseteq Calls
    <3>1. CASE CommitAndAnswer(o)
      BY <2>1, <3>1, PublishType DEF CommitAndAnswer
    <3>2. CASE AnswerFirst(o)
      BY <3>2 DEF AnswerFirst, TypeOK, tables
    <3>3. QED
      BY <1>2, <3>1, <3>2
  <2>5. \/ txn' = NoTxn
        \/ txn' \in Transactions /\ txn'.n = txn.n /\ txn'.op = txn.op
    BY <1>0, <1>2, <2>0, TxnShape DEF CommitAndAnswer, AnswerFirst
  <2>6. TypeOK'
    BY <2>2, <2>3, <2>4, <2>5 DEF TypeOK, lists, modal
  <2>7. Numbered'
    BY <2>0, <2>2, <2>3, <2>5 DEF Numbered
  <2>8. QED
    BY <2>6, <2>7
<1>3. CASE Commit
  <2>1. txn \in Transactions /\ txn.out \in Outcomes(txn.op)
    BY <1>0, <1>3, TxnShape DEF Commit, NoTxn
  <2>2. /\ row' \in [Calls -> Analysis] /\ asked' \subseteq Calls /\ judged' \subseteq Calls
        /\ cand' \in [Calls -> Statuses] /\ failed' \subseteq Calls
    BY <1>3, <2>1, TxnShape, PublishType DEF Commit
  <2>3. UNCHANGED <<sent, decided, lists, timer, polls, modal, requests, events>> /\ txn' = NoTxn
    BY <1>3 DEF Commit
  <2>4. TypeOK'
    BY <2>2, <2>3 DEF TypeOK, lists, modal
  <2>5. QED
    BY <2>3, <2>4 DEF Numbered
<1>4. CASE CommitFails
  <2>1. UNCHANGED <<tables, sent, lists, timer, polls, modal, requests>> /\ txn' = NoTxn
    BY <1>4 DEF CommitFails
  <2>2. events' \in 0 .. MaxEvents /\ decided' \subseteq Calls
    BY <1>4, CountType DEF CommitFails, TypeOK
  <2>3. TypeOK'
    BY <2>1, <2>2 DEF TypeOK, tables, lists, modal
  <2>4. QED
    BY <2>1, <2>3 DEF Numbered
<1>5. QED
  BY <1>1, <1>2, <1>3, <1>4 DEF Ending, Write

LEMMA BreakType ==
    ASSUME PageInv, NEW q \in requests, Break(q)
    PROVE  PageInv'
<1> USE DEF PageInv
<1>1. PICK r \in Request : /\ r.n = q.n /\ r.op = q.op
                           /\ requests' = (requests \ {q}) \cup {r}
  <2>1. q \in Request /\ Refused \in Answers(q.op)
    BY DEF TypeOK, Answers
  <2>2. QED
    BY <2>1, RequestShape, RequestFields DEF Break
<1>2. UNCHANGED <<tables, sent, txn, decided, lists, timer, polls, modal>>
  BY DEF Break
<1>3. events' \in 0 .. MaxEvents
  BY CountType DEF Break
<1>4. TypeOK'
  BY <1>1, <1>2, <1>3 DEF TypeOK, tables, lists, modal
<1>5. QED
  BY <1>1, <1>2, <1>4 DEF Numbered

LEMMA ReadType ==
    ASSUME TypeOK, NEW i \in Reads, Read(i) \/ ReadFails(i)
    PROVE  TypeOK'
<1> DEFINE Polling == [on : BOOLEAN, calls : SUBSET [Calls -> Analysis],
                       rows : SUBSET [Calls -> Statuses]]
<1>0. polls \in [Reads -> Polling] /\ polls[i] \in Polling /\ NoRead \in Polling
  BY DEF TypeOK, NoRead
<1>1. CASE ReadCalls(i)
  BY <1>0, <1>1 DEF ReadCalls, TypeOK, server, lists, modal
<1>2. CASE ReadCandidates(i)
  BY <1>0, <1>2 DEF ReadCandidates, TypeOK, server, lists, modal
<1>3. CASE Answer(i)
  <2>1. ownCalls' \in [Calls -> Analysis] /\ candidates' \in [Calls -> Statuses]
    BY <1>0, <1>3 DEF Answer
  <2>2. polls' \in [Reads -> Polling]
    BY <1>0, <1>3 DEF Answer
  <2>3. QED
    BY <1>3, <2>1, <2>2 DEF Answer, TypeOK, server, modal
<1>4. CASE ReadFails(i)
  <2>1. events' \in 0 .. MaxEvents
    BY <1>4, CountType DEF ReadFails
  <2>2. QED
    BY <1>0, <1>4, <2>1 DEF ReadFails, TypeOK, server, lists, modal
<1>5. QED
  BY <1>1, <1>2, <1>3, <1>4 DEF Read

LEMMA EffectType == TypeOK /\ (Effect \/ Tick) => TypeOK'
<1> SUFFICES ASSUME TypeOK, Effect \/ Tick PROVE TypeOK'
  OBVIOUS
<1> DEFINE Polling == [on : BOOLEAN, calls : SUBSET [Calls -> Analysis],
                       rows : SUBSET [Calls -> Statuses]]
<1>1. NoRead \in Polling /\ Sent \in Polling
  BY DEF NoRead, Sent
<1>2. CASE Effect
  <2>1. polls' \in [Reads -> Polling]
    BY <1>1, <1>2 DEF Effect, TypeOK
  <2>2. timer' \in BOOLEAN
    BY <1>2 DEF Effect, Watched
  <2>3. QED
    BY <1>2, <2>1, <2>2 DEF Effect, TypeOK, server, modal
<1>3. CASE Tick
  <2>1. polls' \in [Reads -> Polling]
    BY <1>1, <1>3 DEF Tick, TypeOK
  <2>2. QED
    BY <1>3, <2>1 DEF Tick, TypeOK, server, lists, modal
<1>4. QED
  BY <1>2, <1>3

(* A request that is sent has a number of its own. *)
LEMMA SendType ==
    ASSUME PageInv, NEW op \in Operations, NEW c \in Calls, Send(op, c)
    PROVE  /\ requests' \subseteq Request /\ events' \in 0 .. MaxEvents
           /\ sent' \subseteq [n : 1 .. MaxEvents, op : Operations, call : Calls]
           /\ Numbered'
           /\ \E r : r.op = op /\ requests' = requests \cup {r}
<1>1. PICK n \in 1 .. MaxEvents :
         /\ Unused(n)
         /\ requests' = requests \cup {[n |-> n, op |-> op, call |-> c, answer |-> Waiting]}
         /\ sent' = sent \cup {[n |-> n, op |-> op, call |-> c]}
  BY DEF Send
<1> DEFINE r == [n |-> n, op |-> op, call |-> c, answer |-> Waiting]
           b == [n |-> n, op |-> op, call |-> c]
<1>2. r \in Request
  <2>1. r \in [n : 1 .. MaxEvents, op : {op}, call : Calls, answer : Answers(op)]
    BY DEF Answers
  <2>2. QED
    BY <2>1 DEF Request
<1>3. r.n = n /\ r.op = op /\ b.n = n /\ b.op = op
      /\ b \in [n : 1 .. MaxEvents, op : Operations, call : Calls]
  OBVIOUS
<1>4. (\A q \in requests : q.n # n) /\ (\A a \in sent : a.n # n) /\ txn.n # n
  BY <1>1 DEF Unused, Numbers
<1>5. txn' = txn
  BY DEF Send
<1> HIDE DEF r, b
<1>6. requests' = requests \cup {r} /\ sent' = sent \cup {b}
  BY <1>1 DEF r, b
<1>7. Numbered'
  BY <1>3, <1>4, <1>5, <1>6 DEF PageInv, Numbered
<1>8. events' \in 0 .. MaxEvents
  BY CountType DEF Send, PageInv
<1>9. QED
  BY <1>2, <1>3, <1>6, <1>7, <1>8 DEF PageInv, TypeOK

LEMMA OperatorType ==
    ASSUME PageInv,
           \/ \E c \in Calls : Open(c) \/ Analyse(c) \/ Delete(c)
           \/ \E op \in Decisions : Decide(op)
           \/ Close
    PROVE  PageInv'
<1> USE DEF PageInv
<1>1. CASE \E c \in Calls : Open(c)
  BY <1>1 DEF Open, Numbered, TypeOK, server, tables, lists
<1>2. CASE \E c \in Calls : Analyse(c)
  <2>1. requests' \subseteq Request /\ events' \in 0 .. MaxEvents /\ Numbered'
        /\ sent' \subseteq [n : 1 .. MaxEvents, op : Operations, call : Calls]
    BY <1>2, SendType DEF Analyse, Operations
  <2>2. QED
    BY <1>2, <2>1 DEF Analyse, Send, TypeOK, server, tables, lists
<1>3. CASE \E c \in Calls : Delete(c)
  <2>1. requests' \subseteq Request /\ events' \in 0 .. MaxEvents /\ Numbered'
        /\ sent' \subseteq [n : 1 .. MaxEvents, op : Operations, call : Calls]
    BY <1>3, SendType DEF Delete, Operations
  <2>2. QED
    BY <1>3, <2>1 DEF Delete, Send, TypeOK, server, tables, lists
<1>4. CASE \E op \in Decisions : Decide(op)
  <2>1. PICK op \in Decisions : Decide(op)
    BY <1>4
  <2>2. review.call \in Calls
    BY <2>1 DEF Decide, TypeOK
  <2>3. requests' \subseteq Request /\ events' \in 0 .. MaxEvents /\ Numbered'
        /\ sent' \subseteq [n : 1 .. MaxEvents, op : Operations, call : Calls]
    BY <2>1, <2>2, SendType DEF Decide, Operations
  <2>4. QED
    BY <2>1, <2>3 DEF Decide, Send, TypeOK, server, tables, lists
<1>5. CASE Close
  BY <1>5 DEF Close, Numbered, TypeOK, server, tables, lists
<1>6. QED
  BY <1>1, <1>2, <1>3, <1>4, <1>5

(* An answer reaches the page. *)
LEMMA AnswerType ==
    ASSUME TypeOK, NEW q \in requests, Decided(q) \/ Analysed(q) \/ Deleted(q)
    PROVE  TypeOK'
<1>1. q \in Request /\ q.op \in Operations /\ q.call \in Calls
      /\ q.answer \in Answers(q.op)
  BY RequestShape DEF TypeOK
<1>2. CASE Decided(q)
  <2>1. q.answer # Refused => q.answer \in Statuses
    BY <1>1, <1>2 DEF Decided, Answers, Outcomes, Decisions, Statuses
  <2>2. candidates' \in [Calls -> Statuses]
    BY <1>2, <2>1 DEF Decided, Show, TypeOK
  <2>3. review' \in [call : Calls, status : Statuses] \cup {Closed}
    BY <1>2 DEF Decided, TypeOK
  <2>4. QED
    BY <1>2, <2>2, <2>3 DEF Decided, Free, TypeOK, server
<1>3. CASE Analysed(q)
  <2>1. ownCalls' \in [Calls -> Analysis]
    BY <1>3 DEF Analysed, TypeOK, Analysis
  <2>2. QED
    BY <1>3, <2>1 DEF Analysed, TypeOK, server
<1>4. CASE Deleted(q)
  <2>1. ownCalls' \in [Calls -> Analysis] /\ candidates' \in [Calls -> Statuses]
    BY <1>4 DEF Deleted, TypeOK, Analysis, Statuses
  <2>2. review' \in [call : Calls, status : Statuses] \cup {Closed}
    BY <1>4 DEF Deleted, TypeOK
  <2>3. QED
    BY <1>4, <2>1, <2>2 DEF Deleted, TypeOK, server
<1>5. QED
  BY <1>2, <1>3, <1>4

(* Where requests only come to an end, the numbers stay as they are. *)
LEMMA NumberedStays ==
    ASSUME Numbered, requests' \subseteq requests, UNCHANGED <<sent, txn>>
    PROVE  Numbered'
BY DEF Numbered

LEMMA PageStep == PageInv /\ [Next]_vars => PageInv'
<1> SUFFICES ASSUME PageInv, [Next]_vars PROVE PageInv'
  OBVIOUS
<1>0. TypeOK /\ Numbered
  BY DEF PageInv
<1>1. CASE Work \/ Others \/ \E c \in Calls : Misjudge(c)
  BY <1>1, ServerType
<1>2. CASE \E a \in sent : Look(a)
  BY <1>2, LookType
<1>3. CASE Ending
  BY <1>3, EndingType
<1>4. ASSUME NEW i \in Reads, Read(i) \/ ReadFails(i) PROVE PageInv'
  <2>1. UNCHANGED <<requests, sent, txn>>
    BY <1>4 DEF Read, ReadCalls, ReadCandidates, Answer, ReadFails, server
  <2>2. QED
    BY <1>0, <1>4, <2>1, ReadType, NumberedStays DEF PageInv
<1>5. CASE Effect \/ Tick
  <2>1. UNCHANGED <<requests, sent, txn>>
    BY <1>5 DEF Effect, Tick, server
  <2>2. QED
    BY <1>0, <1>5, <2>1, EffectType, NumberedStays DEF PageInv
<1>6. CASE \/ \E c \in Calls : Open(c) \/ Analyse(c) \/ Delete(c)
           \/ \E op \in Decisions : Decide(op)
           \/ Close
  BY <1>6, OperatorType
<1>7. ASSUME NEW q \in requests, Handled(q) PROVE PageInv'
  <2>1. requests' \subseteq requests /\ UNCHANGED <<sent, txn>>
    BY <1>7 DEF Handled, Decided, Analysed, Deleted, server
  <2>2. TypeOK'
    BY <1>0, <1>7, AnswerType DEF Handled
  <2>3. QED
    BY <1>0, <2>1, <2>2, NumberedStays DEF PageInv
<1>8. CASE \E q \in requests : Break(q)
  BY <1>8, BreakType
<1>9. CASE UNCHANGED vars
  BY <1>9 DEF vars, PageInv, TypeOK, Numbered
<1>10. QED
  BY <1>1, <1>2, <1>3, <1>4, <1>5, <1>6, <1>7, <1>8, <1>9 DEF Next

(* The state of the page and of the server stays in its type. *)
THEOREM TypeCorrect == Spec => []TypeOK
<1>1. PageInv => TypeOK
  BY DEF PageInv
<1>2. QED
  BY <1>1, PageInit, PageStep, PTL DEF Spec

-----------------------------------------------------------------------------
(* One decision at a time.  It rests on the buttons of every modal being
   disabled exactly while a decision is under way.                           *)

DecisionInv == PageInv /\ OneDecision /\ ButtonsFollow

(* A request that got an answer is still the same decision, or none. *)
LEMMA RepliedDecision ==
    ASSUME DecisionInv, NEW n, NEW a, Reply(n, a), busy' = busy
    PROVE  OneDecision' /\ ButtonsFollow'
<1> DEFINE f(q) == IF q.n = n /\ q.answer = Waiting THEN [q EXCEPT !.answer = a] ELSE q
<1>1. \A q \in requests : f(q).op = q.op
  BY RequestFields DEF DecisionInv, PageInv, TypeOK
<1> HIDE DEF f
<1>2. requests' = {f(q) : q \in requests}
  BY DEF Reply, f
<1>3. OneDecision'
  BY <1>1, <1>2 DEF DecisionInv, OneDecision
<1>4. ButtonsFollow'
  BY <1>1, <1>2 DEF DecisionInv, ButtonsFollow
<1>5. QED
  BY <1>3, <1>4

LEMMA BrokenDecision ==
    ASSUME DecisionInv, NEW q \in requests, Break(q)
    PROVE  OneDecision' /\ ButtonsFollow'
<1> DEFINE r == [q EXCEPT !.answer = Refused]
<1>1. r.op = q.op
  BY RequestFields DEF DecisionInv, PageInv, TypeOK
<1> HIDE DEF r
<1>2. requests' = (requests \ {q}) \cup {r} /\ busy' = busy
  BY DEF Break, r, modal
<1>3. QED
  BY <1>1, <1>2 DEF DecisionInv, OneDecision, ButtonsFollow

(* A click that sends a request: a decision only with free buttons. *)
LEMMA SentDecision ==
    ASSUME DecisionInv, NEW op \in Operations, NEW c \in Calls, Send(op, c),
           \/ op \in Decisions /\ ~busy /\ busy'
           \/ op \notin Decisions /\ busy' = busy
    PROVE  OneDecision' /\ ButtonsFollow'
<1>1. PICK r : r.op = op /\ requests' = requests \cup {r}
  BY SendType DEF DecisionInv
<1>2. CASE op \in Decisions /\ ~busy /\ busy'
  <2>1. \A q \in requests : q.op \notin Decisions
    BY <1>2 DEF DecisionInv, ButtonsFollow
  <2>2. QED
    BY <1>1, <1>2, <2>1 DEF OneDecision, ButtonsFollow
<1>3. CASE op \notin Decisions /\ busy' = busy
  BY <1>1, <1>3 DEF DecisionInv, OneDecision, ButtonsFollow
<1>4. QED
  BY <1>2, <1>3

LEMMA DecisionStep == DecisionInv /\ [Next]_vars => DecisionInv'
<1> SUFFICES ASSUME DecisionInv, [Next]_vars PROVE DecisionInv'
  OBVIOUS
<1>0. PageInv'
  BY PageStep DEF DecisionInv
<1>1. CASE UNCHANGED <<requests, busy>>
  BY <1>0, <1>1 DEF DecisionInv, OneDecision, ButtonsFollow
<1>2. CASE \E c \in Calls : Analyse(c) \/ Delete(c)
  BY <1>0, <1>2, SentDecision DEF Analyse, Delete, Operations, Decisions, DecisionInv
<1>3. CASE \E op \in Decisions : Decide(op)
  <2>1. review.call \in Calls
    BY <1>3 DEF Decide, DecisionInv, PageInv, TypeOK
  <2>2. QED
    BY <1>0, <1>3, <2>1, SentDecision DEF Decide, Operations, DecisionInv
<1>4. ASSUME NEW n, NEW a, Reply(n, a), busy' = busy PROVE DecisionInv'
  BY <1>0, <1>4, RepliedDecision DEF DecisionInv
<1>5. CASE \E a \in sent : Look(a)
  BY <1>1, <1>4, <1>5 DEF Look, modal
<1>6. CASE Ending
  <2>1. CASE Raise
    BY <1>4, <2>1 DEF Raise, modal
  <2>2. ASSUME NEW o, CommitAndAnswer(o) \/ AnswerFirst(o) PROVE DecisionInv'
    BY <1>4, <2>2 DEF CommitAndAnswer, AnswerFirst, Written, modal
  <2>3. CASE Commit \/ CommitFails
    BY <1>1, <2>3 DEF Commit, CommitFails, modal
  <2>4. QED
    BY <1>6, <2>1, <2>2, <2>3 DEF Ending, Write
<1>7. CASE \E q \in requests : Break(q)
  BY <1>0, <1>7, BrokenDecision DEF DecisionInv
<1>8. CASE \E q \in requests : Decided(q)
  BY <1>0, <1>8 DEF Decided, Free, DecisionInv, OneDecision, ButtonsFollow
<1>9. CASE \E q \in requests : Analysed(q) \/ Deleted(q)
  BY <1>0, <1>9 DEF Analysed, Deleted, Decisions, DecisionInv, OneDecision, ButtonsFollow
<1>10. Work \/ Others \/ (\E c \in Calls : Misjudge(c)) => UNCHANGED <<requests, busy>>
  BY DEF Work, Others, Misjudge, modal
<1>11. \A i \in Reads : Read(i) \/ ReadFails(i) => UNCHANGED <<requests, busy>>
  BY DEF Read, ReadCalls, ReadCandidates, Answer, ReadFails, modal
<1>12. Effect \/ Tick \/ Close \/ (\E c \in Calls : Open(c)) => UNCHANGED <<requests, busy>>
  BY DEF Effect, Tick, Close, Open, modal
<1>13. QED
  BY <1>1, <1>2, <1>3, <1>5, <1>6, <1>7, <1>8, <1>9, <1>10, <1>11, <1>12 DEF Next, Handled, vars

LEMMA DecisionInit == Init => DecisionInv
BY PageInit DEF Init, DecisionInv, OneDecision, ButtonsFollow

(* However the operator leaves and opens modals, one decision is under way at a
   time.                                                                      *)
THEOREM OneDecisionAtATime == Spec => []OneDecision
<1>1. DecisionInv => OneDecision
  BY DEF DecisionInv
<1>2. QED
  BY <1>1, DecisionInit, DecisionStep, PTL DEF Spec

(* No lost answer and no closed modal leaves the buttons disabled, and none frees
   them too early.                                                             *)
THEOREM ButtonsAlwaysFollow == Spec => []ButtonsFollow
<1>1. DecisionInv => ButtonsFollow
  BY DEF DecisionInv
<1>2. QED
  BY <1>1, DecisionInit, DecisionStep, PTL DEF Spec

-----------------------------------------------------------------------------
(* Decisions are read.  A decision that was answered stands in the tables, or it
   is that of the transaction that has the row of the session.               *)

(* Answered and not committed. *)
Staged(c) == txn.out # Nothing /\ txn.call = c

ReadInv ==
    /\ \A c \in Calls : cand[c] # "none" => c \in judged
    /\ \A c \in Calls : row[c] = "processing" => c \notin judged
    /\ \A c \in decided : c \in judged \/ row[c] = "gone"
    /\ \A c \in decided : cand[c] # "pending" \/ (Staged(c) /\ txn.op \in Decisions)

(* The rows that a staged transaction has locked stay fit for it. *)
LockInv ==
    \A c \in Calls : Staged(c) =>
        /\ txn.op \in Decisions => cand[c] # "none"
        /\ txn.op = "analyse" => row[c] \in {"idle", "queued", "failed"}

DecidedInv == PageInv /\ ReadInv /\ LockInv

(* A request that writes what it may write keeps decided candidates decided. *)
LEMMA PublishReads ==
    ASSUME TypeOK, ReadInv, NEW op \in Operations, NEW d \in Calls, NEW o \in Outcomes(op),
           Publish(op, d, o),
           op \in Decisions => cand[d] # "none",
           op = "analyse" => row[d] \in {"idle", "queued", "failed"}
    PROVE  /\ \A c \in Calls : cand'[c] # "none" => c \in judged'
           /\ \A c \in Calls : row'[c] = "processing" => c \notin judged'
           /\ \A c \in decided : c \in judged' \/ row'[c] = "gone"
           /\ \A c \in Calls : c # d => row'[c] = row[c] /\ cand'[c] = cand[c]
           /\ op \in Decisions => row' = row /\ cand'[d] \notin {"none", "pending"} /\ d \in judged'
           /\ op \notin Decisions => cand'[d] \in {cand[d], "none"}
<1>1. row \in [Calls -> Analysis] /\ cand \in [Calls -> Statuses]
  BY DEF TypeOK
<1>2. CASE op \in Decisions
  <2>1. row' = row /\ judged' = judged /\ cand' = [cand EXCEPT ![d] = Shown(op, d, o)]
    BY <1>2 DEF Publish, Decisions
  <2>2. Shown(op, d, o) \in {"confirmed", "failed", "rejected"}
    BY <1>2, OutcomeTypes
  <2>3. d \in judged
    BY <1>2 DEF ReadInv
  <2>4. QED
    BY <1>1, <1>2, <2>1, <2>2, <2>3 DEF ReadInv
<1>3. CASE op = "analyse"
  <2>1. row' = [row EXCEPT ![d] = "queued"] /\ judged' = judged /\ cand' = cand
    BY <1>3, OutcomeTypes DEF Publish, Decisions
  <2>2. QED
    BY <1>1, <1>3, <2>1 DEF ReadInv, Decisions
<1>4. CASE op = "delete"
  <2>1. /\ row' = [row EXCEPT ![d] = "gone"] /\ judged' = judged \ {d}
        /\ cand' = [cand EXCEPT ![d] = "none"]
    BY <1>4, OutcomeTypes DEF Publish, Decisions
  <2>2. QED
    BY <1>1, <1>4, <2>1 DEF ReadInv, Decisions
<1>5. QED
  BY <1>2, <1>3, <1>4 DEF Operations

(* What is Writable is fit to be published. *)
LEMMA WritableFits ==
    ASSUME NEW op \in Operations, NEW c \in Calls, NEW s, Writable(op, c, s)
    PROVE  /\ op \in Decisions => cand[c] # "none"
           /\ op = "analyse" => row[c] \in {"idle", "queued", "failed"}
BY DEF Operations, Decisions, Writable

(* The rows of two decisions of a call, or of two that write it, overlap. *)
LEMMA RowsOverlap ==
    ASSUME NEW p \in Operations
    PROVE  /\ p \in Decisions => Rows(p) \cap Rows("delete") # {}
           /\ p = "analyse" => "call" \in Rows(p)
           /\ "call" \in Rows("analyse") /\ "call" \in Rows("delete")
BY DEF Operations, Decisions, Rows

LEMMA WorkReads == DecidedInv /\ (Work \/ \E c \in Calls : Misjudge(c)) => DecidedInv'
<1> SUFFICES ASSUME DecidedInv, Work \/ \E c \in Calls : Misjudge(c)
             PROVE  ReadInv' /\ LockInv'
  BY ServerType DEF DecidedInv
<1>1. /\ row \in [Calls -> Analysis] /\ cand \in [Calls -> Statuses] /\ decided \subseteq Calls
      /\ txn \in Transactions \cup {NoTxn}
  BY DEF DecidedInv, PageInv, TypeOK
<1>2. txn' = txn /\ decided' = decided
  BY DEF Work, Misjudge
<1>3. ASSUME NEW c \in Calls, Claim(c) \/ Finish(c) \/ Misjudge(c)
      PROVE  ReadInv' /\ LockInv'
  <2>1. Staged(c) => txn.op \in Decisions
    <3>1. Staged(c) => txn.op \in Operations
      BY <1>1, TxnShape DEF Staged, NoTxn
    <3>2. QED
      BY <1>3, <3>1 DEF Claim, Finish, Misjudge, CallLocked, Staged, Operations, Decisions
  <2>2. CASE Claim(c)
    <3>1. c \notin judged /\ row[c] # "gone" /\ row' = [row EXCEPT ![c] = "processing"]
          /\ UNCHANGED <<judged, cand>>
      BY <2>2 DEF Claim
    <3>2. c \notin decided
      BY <3>1 DEF DecidedInv, ReadInv
    <3>3. ReadInv'
      BY <1>1, <1>2, <3>1, <3>2 DEF DecidedInv, ReadInv, Staged
    <3>4. LockInv'
      BY <1>1, <1>2, <2>1, <3>1 DEF DecidedInv, LockInv, Staged, Decisions
    <3>5. QED
      BY <3>3, <3>4
  <2>3. CASE Finish(c)
    <3>1. c \notin judged /\ c \notin decided /\ cand[c] = "none" /\ row[c] = "processing"
      BY <2>3 DEF Finish, DecidedInv, ReadInv
    <3>2. PICK r \in Analysis : \E s \in Listed(r) :
             /\ row' = [row EXCEPT ![c] = r] /\ cand' = [cand EXCEPT ![c] = s]
             /\ judged' = IF r = "completed" THEN judged \cup {c} ELSE judged
             /\ r # "processing"
      BY <2>3 DEF Finish, Analysis
    <3>3. PICK s \in Listed(r) :
             /\ row' = [row EXCEPT ![c] = r] /\ cand' = [cand EXCEPT ![c] = s]
             /\ s # "none" => r = "completed"
      BY <3>2 DEF Listed
    <3>4. ReadInv'
      <4>1. /\ \A d \in Calls : cand'[d] # "none" => d \in judged'
            /\ \A d \in Calls : row'[d] = "processing" => d \notin judged'
        <5>1. CASE r = "completed"
          <6>1. judged' = judged \cup {c}
            BY <3>2, <5>1
          <6>2. QED
            BY <1>1, <3>2, <3>3, <5>1, <6>1 DEF DecidedInv, ReadInv
        <5>2. CASE r # "completed"
          <6>1. judged' = judged
            BY <3>2, <5>2
          <6>2. s = "none"
            BY <3>3, <5>2
          <6>3. row' = [row EXCEPT ![c] = r] /\ cand' = [cand EXCEPT ![c] = "none"] /\ r # "processing"
            BY <3>2, <3>3, <6>2
          <6>4. QED
            BY <1>1, <6>1, <6>3 DEF DecidedInv, ReadInv
        <5>3. QED
          BY <5>1, <5>2
      <4>2. \A d \in decided : row'[d] = row[d] /\ cand'[d] = cand[d] /\ (d \in judged => d \in judged')
        BY <1>1, <3>1, <3>2, <3>3
      <4>3. QED
        BY <1>2, <4>1, <4>2 DEF DecidedInv, ReadInv, Staged
    <3>5. ~Staged(c)
      BY <2>1, <3>1 DEF DecidedInv, LockInv
    <3>6. LockInv'
      BY <1>1, <1>2, <3>2, <3>5 DEF DecidedInv, LockInv, Staged
    <3>7. QED
      BY <3>4, <3>6
  <2>4. CASE Misjudge(c)
    <3>1. row[c] = "completed" /\ row' = [row EXCEPT ![c] = "failed"] /\ UNCHANGED <<judged, cand>>
      BY <2>4 DEF Misjudge
    <3>2. ReadInv'
      BY <1>1, <1>2, <3>1 DEF DecidedInv, ReadInv, Staged
    <3>3. LockInv'
      BY <1>1, <1>2, <2>1, <3>1 DEF DecidedInv, LockInv, Staged, Decisions
    <3>4. QED
      BY <3>2, <3>3
  <2>5. QED
    BY <1>3, <2>2, <2>3, <2>4
<1>4. QED
  BY <1>3 DEF Work

LEMMA OthersReads == DecidedInv /\ Others => DecidedInv'
<1> SUFFICES ASSUME DecidedInv, Others PROVE ReadInv' /\ LockInv'
  BY ServerType DEF DecidedInv
<1>1. PICK op \in Operations, d \in Calls :
         /\ Writable(op, d, d \in failed)
         /\ ~(txn.out # Nothing /\ txn.call = d /\ Rows(txn.op) \cap Rows(op) # {})
         /\ \E o \in Outcomes(op) : Publish(op, d, o)
  BY DEF Others
<1>2. PICK o \in Outcomes(op) : Publish(op, d, o)
  BY <1>1
<1>3. txn' = txn /\ decided' = decided /\ decided \subseteq Calls /\ TypeOK /\ ReadInv /\ LockInv
      /\ txn \in Transactions \cup {NoTxn}
  BY DEF Others, DecidedInv, PageInv, TypeOK
<1>4. /\ \A c \in Calls : cand'[c] # "none" => c \in judged'
      /\ \A c \in Calls : row'[c] = "processing" => c \notin judged'
      /\ \A c \in decided : c \in judged' \/ row'[c] = "gone"
      /\ \A c \in Calls : c # d => row'[c] = row[c] /\ cand'[c] = cand[c]
      /\ op \in Decisions => row' = row /\ cand'[d] \notin {"none", "pending"} /\ d \in judged'
      /\ op \notin Decisions => cand'[d] \in {cand[d], "none"}
  <2>1. /\ op \in Decisions => cand[d] # "none"
        /\ op = "analyse" => row[d] \in {"idle", "queued", "failed"}
    BY <1>1, WritableFits
  <2>2. QED
    BY <1>2, <1>3, <2>1, PublishReads
<1>5. ReadInv'
  BY <1>3, <1>4 DEF ReadInv, Staged
<1>6. ASSUME NEW c \in Calls, Staged(c)
      PROVE  /\ txn.op \in Decisions => cand'[c] # "none"
             /\ txn.op = "analyse" => row'[c] \in {"idle", "queued", "failed"}
  <2>1. CASE c # d
    BY <1>3, <1>4, <1>6, <2>1 DEF LockInv
  <2>2. CASE c = d
    <3>1. txn.op \in Operations
      BY <1>3, <1>6, TxnShape DEF Staged, NoTxn
    <3>2. Rows(txn.op) \cap Rows(op) = {}
      BY <1>1, <1>6, <2>2 DEF Staged
    <3>3. txn.op \in Decisions => op # "delete"
      BY <3>1, <3>2, RowsOverlap
    <3>4. txn.op = "analyse" => op \in Decisions
      BY <3>1, <3>2, RowsOverlap DEF Operations
    <3>5. op = "analyse" => cand' = cand
      BY <1>2 DEF Publish, Decisions
    <3>6. QED
      BY <1>3, <1>4, <1>6, <2>2, <3>3, <3>4, <3>5 DEF LockInv, Operations
  <2>3. QED
    BY <2>1, <2>2
<1>7. LockInv'
  BY <1>3, <1>6 DEF LockInv, Staged
<1>8. QED
  BY <1>5, <1>7

LEMMA EndingReads == DecidedInv /\ Ending => DecidedInv'
<1> SUFFICES ASSUME DecidedInv, Ending PROVE ReadInv' /\ LockInv'
  BY EndingType DEF DecidedInv
<1>0. /\ TypeOK /\ ReadInv /\ LockInv /\ decided \subseteq Calls
      /\ txn \in Transactions \cup {NoTxn}
  BY DEF DecidedInv, PageInv, TypeOK
<1>1. \A c : NoTxn.out = Nothing
  BY DEF NoTxn
<1>2. CASE Raise
  BY <1>0, <1>1, <1>2 DEF Raise, ReadInv, LockInv, Staged, tables
<1>3. ASSUME NEW o \in Outcomes(txn.op), CommitAndAnswer(o) \/ AnswerFirst(o)
      PROVE  ReadInv' /\ LockInv'
  <2>1. /\ txn \in Transactions /\ txn.out = Nothing
        /\ Writable(txn.op, txn.call, txn.seen = "failed")
        /\ decided' = IF txn.op \in Decisions THEN decided \cup {txn.call} ELSE decided
    BY <1>0, <1>3 DEF CommitAndAnswer, AnswerFirst, Written
  <2>2. txn.op \in Operations /\ txn.call \in Calls
    BY <2>1, TxnShape
  <2>3. /\ txn.op \in Decisions => cand[txn.call] # "none"
        /\ txn.op = "analyse" => row[txn.call] \in {"idle", "queued", "failed"}
    BY <2>1, <2>2, WritableFits
  <2>4. CASE CommitAndAnswer(o)
    <3>1. Publish(txn.op, txn.call, o) /\ txn' = NoTxn
      BY <2>4 DEF CommitAndAnswer
    <3>2. /\ \A c \in Calls : cand'[c] # "none" => c \in judged'
          /\ \A c \in Calls : row'[c] = "processing" => c \notin judged'
          /\ \A c \in decided : c \in judged' \/ row'[c] = "gone"
          /\ \A c \in Calls : c # txn.call => row'[c] = row[c] /\ cand'[c] = cand[c]
          /\ txn.op \in Decisions =>
                row' = row /\ cand'[txn.call] \notin {"none", "pending"} /\ txn.call \in judged'
          /\ txn.op \notin Decisions => cand'[txn.call] \in {cand[txn.call], "none"}
      BY <1>0, <2>2, <2>3, <3>1, PublishReads
    <3>3. ReadInv'
      BY <1>0, <2>1, <2>2, <3>2 DEF ReadInv, Staged
    <3>4. LockInv'
      BY <1>1, <3>1 DEF LockInv, Staged
    <3>5. QED
      BY <3>3, <3>4
  <2>5. CASE AnswerFirst(o)
    <3>1. /\ UNCHANGED <<row, judged, cand>>
          /\ txn'.op = txn.op /\ txn'.call = txn.call /\ txn'.out = o /\ o # Nothing
      BY <2>1, <2>2, <2>5, TxnShape, OutcomeTypes DEF AnswerFirst, tables
    <3>2. ReadInv'
      BY <1>0, <2>1, <2>2, <2>3, <3>1 DEF ReadInv, Staged
    <3>3. LockInv'
      BY <2>3, <3>1 DEF LockInv, Staged
    <3>4. QED
      BY <3>2, <3>3
  <2>6. QED
    BY <1>3, <2>4, <2>5
<1>4. CASE Commit
  <2>1. /\ txn \in Transactions /\ txn.out \in Outcomes(txn.op)
        /\ txn.op \in Operations /\ txn.call \in Calls /\ Staged(txn.call)
    BY <1>0, <1>4, TxnShape DEF Commit, NoTxn, Staged
  <2>2. Publish(txn.op, txn.call, txn.out) /\ txn' = NoTxn /\ decided' = decided
    BY <1>4 DEF Commit
  <2>3. /\ txn.op \in Decisions => cand[txn.call] # "none"
        /\ txn.op = "analyse" => row[txn.call] \in {"idle", "queued", "failed"}
    BY <1>0, <2>1 DEF LockInv
  <2>4. /\ \A c \in Calls : cand'[c] # "none" => c \in judged'
        /\ \A c \in Calls : row'[c] = "processing" => c \notin judged'
        /\ \A c \in decided : c \in judged' \/ row'[c] = "gone"
        /\ \A c \in Calls : c # txn.call => row'[c] = row[c] /\ cand'[c] = cand[c]
        /\ txn.op \in Decisions =>
              row' = row /\ cand'[txn.call] \notin {"none", "pending"} /\ txn.call \in judged'
        /\ txn.op \notin Decisions => cand'[txn.call] \in {cand[txn.call], "none"}
    BY <1>0, <2>1, <2>2, <2>3, PublishReads
  <2>5. ReadInv'
    BY <1>0, <2>1, <2>2, <2>4 DEF ReadInv, Staged
  <2>6. LockInv'
    BY <1>1, <2>2 DEF LockInv, Staged
  <2>7. QED
    BY <2>5, <2>6
<1>5. CASE CommitFails
  <2>1. /\ UNCHANGED <<row, judged, cand>> /\ txn' = NoTxn /\ decided' = decided \ {txn.call}
    BY <1>5 DEF CommitFails, tables
  <2>2. ReadInv' /\ LockInv'
    BY <1>0, <1>1, <2>1 DEF ReadInv, LockInv, Staged
  <2>3. QED
    BY <2>2
<1>6. QED
  BY <1>2, <1>3, <1>4, <1>5 DEF Ending, Write

LEMMA LookReads ==
    ASSUME DecidedInv, NEW a \in sent, Look(a)
    PROVE  DecidedInv'
<1>1. PageInv'
  BY LookType DEF DecidedInv
<1>2. txn = NoTxn /\ UNCHANGED <<row, judged, cand, decided>>
  BY DEF Look, tables
<1>3. txn.out = Nothing /\ txn'.out = Nothing
  BY <1>2 DEF Look, NoTxn, Txn
<1>4. QED
  BY <1>1, <1>2, <1>3 DEF DecidedInv, ReadInv, LockInv, Staged

LEMMA DecidedStep == DecidedInv /\ [Next]_vars => DecidedInv'
<1> SUFFICES ASSUME DecidedInv, [Next]_vars PROVE DecidedInv'
  OBVIOUS
<1>0. PageInv'
  BY PageStep DEF DecidedInv
<1>1. CASE UNCHANGED <<row, judged, cand, decided, txn>>
  BY <1>0, <1>1 DEF DecidedInv, ReadInv, LockInv, Staged
<1>2. CASE Work \/ Others \/ \E c \in Calls : Misjudge(c)
  BY <1>2, WorkReads, OthersReads
<1>3. CASE (\E a \in sent : Look(a)) \/ Ending
  BY <1>3, LookReads, EndingReads
<1>4. \A i \in Reads : Read(i) \/ ReadFails(i) => UNCHANGED <<row, judged, cand, decided, txn>>
  BY DEF Read, ReadCalls, ReadCandidates, Answer, ReadFails, server
<1>5. Effect \/ Tick \/ Close \/ (\E c \in Calls : Open(c))
      => UNCHANGED <<row, judged, cand, decided, txn>>
  BY DEF Effect, Tick, Close, Open, server
<1>6. \A op, c : Send(op, c) => UNCHANGED <<row, judged, cand, decided, txn>>
  BY DEF Send, tables
<1>7. (\E c \in Calls : Analyse(c) \/ Delete(c)) \/ (\E op \in Decisions : Decide(op))
      => UNCHANGED <<row, judged, cand, decided, txn>>
  BY <1>6 DEF Analyse, Delete, Decide
<1>8. \A q \in requests : Handled(q) \/ Break(q) => UNCHANGED <<row, judged, cand, decided, txn>>
  BY DEF Handled, Decided, Analysed, Deleted, Break, server, tables
<1>9. QED
  BY <1>1, <1>2, <1>3, <1>4, <1>5, <1>7, <1>8 DEF Next, vars

(* A read takes the tables as they are while no transaction has the session. *)
LEMMA ReadsSeeDecisions ==
    ASSUME DecidedInv, [Next]_vars,
           NEW i \in Reads, NEW f \in polls'[i].rows \ polls[i].rows, NEW c \in decided
    PROVE  f[c] # "pending"
<1>1. polls \in [Reads -> [on : BOOLEAN, calls : SUBSET [Calls -> Analysis],
                           rows : SUBSET [Calls -> Statuses]]]
  BY DEF DecidedInv, PageInv, TypeOK
<1>2. polls' # polls
  OBVIOUS
<1>3. \A j \in Reads : ReadCalls(j) \/ Answer(j) \/ ReadFails(j) => polls'[i].rows \subseteq polls[i].rows
  BY <1>1 DEF ReadCalls, Answer, ReadFails, NoRead
<1>4. Effect \/ Tick => polls'[i].rows \subseteq polls[i].rows
  BY <1>1 DEF Effect, Tick, NoRead, Sent
<1>5. PICK j \in Reads : ReadCandidates(j)
  <2>1. Work \/ Others \/ (\E d \in Calls : Misjudge(d)) \/ (\E a \in sent : Look(a)) => polls' = polls
    BY DEF Work, Others, Misjudge, Look
  <2>2. Ending => polls' = polls
    BY DEF Ending, Write, Raise, CommitAndAnswer, AnswerFirst, Written, Commit, CommitFails
  <2>3. (\E d \in Calls : Open(d) \/ Analyse(d) \/ Delete(d)) \/ (\E op \in Decisions : Decide(op)) \/ Close
        => polls' = polls
    BY DEF Open, Analyse, Delete, Decide, Close, Send
  <2>4. (\E q \in requests : Handled(q) \/ Break(q)) => polls' = polls
    BY DEF Handled, Decided, Analysed, Deleted, Break
  <2>5. QED
    BY <1>2, <1>3, <1>4, <2>1, <2>2, <2>3, <2>4 DEF Next, Read, vars
<1>6. f = cand /\ txn = NoTxn
  BY <1>1, <1>5 DEF ReadCandidates
<1>7. QED
  BY <1>6 DEF DecidedInv, ReadInv, Staged, NoTxn

(* No read brings back as undecided what was decided and answered before it. *)
THEOREM DecisionsAreReadLater == Spec => DecisionsAreRead
<1>1. Init => DecidedInv
  BY PageInit DEF Init, DecidedInv, ReadInv, LockInv, Staged, NoTxn, Listed
<1>2. DecidedInv /\ [Next]_vars =>
         [\A i \in Reads : \A f \in polls'[i].rows \ polls[i].rows :
             \A c \in decided : f[c] # "pending"]_polls
  BY ReadsSeeDecisions
<1>3. QED
  BY <1>1, <1>2, DecidedStep, PTL DEF Spec, DecisionsAreRead
=============================================================================
