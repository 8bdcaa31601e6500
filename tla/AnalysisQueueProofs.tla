------------------------- MODULE AnalysisQueueProofs -------------------------
(***************************************************************************)
(* Safety of AnalysisQueue, for any number of calls, workers and requests, *)
(* and of syncs beside each other.                                         *)
(*                                                                         *)
(* TypeOK and AnalyzedOnce are not inductive by themselves.  The bound of  *)
(* Ids in TypeOK needs the tombstone: RowOK counts the upserts that are    *)
(* past its check, which are what can still import the call.  That a       *)
(* prediction is of its row needs the ids that jobs carry: JobOK.          *)
(*                                                                         *)
(* With jobs that end in time, the row of a job is where the claim or the  *)
(* result left it (JobKept), so no other worker gets it; with connections  *)
(* that hold, a worker that marks its call failed has stored nothing       *)
(* (Unstored).  From these the queue implements CallLifecycle.             *)
(***************************************************************************)
EXTENDS AnalysisQueue, FiniteSetTheorems, TLAPS

(* The syncs whose upsert of the call is past the check of deleted_calls. *)
Upserts(c) == {s \in Syncs : upsert[s] = c \/ c \in written[s]}

(* The row of one call.  Its id is the last one given out; a call without a row
   has no prediction, and has a tombstone if it ever had a row; without one it is
   imported once at most, and with one only by the upserts past their check. *)
RowOK(c) ==
    /\ row[c] # 0 => row[c] = imported[c]
    /\ row[c] = 0 => prediction[c] = NotMade
    /\ row[c] = 0 /\ imported[c] # 0 => tombstone[c]
    /\ ~tombstone[c] => imported[c] <= 1
    /\ tombstone[c] => imported[c] + Cardinality(Upserts(c)) <= Cardinality(Syncs) + 1

AnalyzedOnceOf(c) ==
    /\ status[c] = "processing" => prediction[c] = NotMade
    /\ status[c] = "completed" => prediction[c] # NotMade

OfItsRow(c) == prediction[c] # NotMade => prediction[c].id = row[c]

CallOK(c) == RowOK(c) /\ AnalyzedOnceOf(c) /\ OfItsRow(c)

(* A worker past its claim has a job, and a request past its snapshot a call. *)
JobOK(w) ==
    worker[w] \in {"working", "stored", "failing"} => job[w] \in Job /\ job[w].id # 0
ReqOK(q) ==
    pc[q] = "asking" => req[q] \in [call : Calls, id : Ids, analyzed : BOOLEAN]

QueueInv ==
    /\ TypeOK
    /\ \A c \in Calls : CallOK(c)
    /\ \A w \in Workers : JobOK(w)
    /\ \A q \in Requests : ReqOK(q)

-----------------------------------------------------------------------------
(* Lemmas on the operators *)

(* Ids are numbers, the first two at least. *)
LEMMA IdsAreNumbers ==
    /\ Cardinality(Syncs) \in Nat
    /\ Ids \subseteq Nat /\ 0 \in Ids /\ 1 \in Ids
    /\ \A n \in Nat : n <= Cardinality(Syncs) + 1 => n \in Ids
  <1>1. Cardinality(Syncs) \in Nat
    BY QueueAssumptions, FS_CardinalityType
  <1> QED
    BY <1>1 DEF Ids

(* Fewer syncs are counted less. *)
LEMMA FewerSyncs ==
    ASSUME NEW S \in SUBSET Syncs, NEW T \in SUBSET S
    PROVE  /\ Cardinality(S) \in Nat /\ Cardinality(T) \in Nat
           /\ Cardinality(T) <= Cardinality(S)
           /\ T # S => Cardinality(T) < Cardinality(S)
  <1>1. IsFiniteSet(S)
    BY QueueAssumptions, FS_Subset
  <1>2. IsFiniteSet(T) /\ Cardinality(T) <= Cardinality(S)
        /\ (Cardinality(T) = Cardinality(S) => T = S)
    BY <1>1, FS_Subset
  <1>3. Cardinality(S) \in Nat /\ Cardinality(T) \in Nat
    BY <1>1, <1>2, FS_CardinalityType
  <1> QED
    BY <1>2, <1>3

(* The position of a call among the requested ones. *)
LEMMA AskedAtType ==
    ASSUME TypeOK, NEW c \in Calls, Asked(c)
    PROVE  AskedAt(c) \in 1 .. Len(asked) /\ asked[AskedAt(c)] = c
  <1>1. asked \in Seq(Calls)
    BY DEF TypeOK
  <1>2. PICK i \in DOMAIN asked : asked[i] = c
    BY DEF Asked
  <1>3. AskedAt(c) \in DOMAIN asked /\ asked[AskedAt(c)] = c
    BY <1>2 DEF AskedAt, Asked
  <1> QED
    BY <1>1, <1>3

(* Taking a call out of the requested ones leaves a sequence of calls. *)
LEMMA WithoutType ==
    ASSUME TypeOK, NEW c \in Calls
    PROVE  Without(c) \in Seq(Calls)
  <1>1. asked \in Seq(Calls)
    BY DEF TypeOK
  <1>2. CASE ~Asked(c)
    BY <1>1, <1>2 DEF Without
  <1>3. CASE Asked(c)
    <2>1. AskedAt(c) \in 1 .. Len(asked)
      BY <1>3, AskedAtType
    <2>2. SubSeq(asked, 1, AskedAt(c) - 1) \in Seq(Calls)
      BY <1>1, <2>1
    <2>3. SubSeq(asked, AskedAt(c) + 1, Len(asked)) \in Seq(Calls)
      BY <1>1, <2>1
    <2> QED
      BY <1>3, <2>2, <2>3 DEF Without
  <1> QED
    BY <1>2, <1>3

(* SetStatus keeps the types of what it sets. *)
LEMMA SetStatusType ==
    ASSUME TypeOK, NEW c \in Calls, NEW s \in TranscriptionStatuses, SetStatus(c, s)
    PROVE  status' \in [Calls -> TranscriptionStatuses] /\ stale' \in [Calls -> BOOLEAN]
  BY DEF TypeOK, SetStatus

(* A job whose row is there names a call, and its row is that id. *)
LEMMA JobOfRow ==
    ASSUME QueueInv, NEW w \in Workers,
           worker[w] \in {"working", "stored", "failing"}
    PROVE  job[w].call \in Calls /\ job[w].id \in Ids \ {0}
  BY DEF QueueInv, JobOK, Job

-----------------------------------------------------------------------------
(* Types *)

(* A row that a sync is about to insert can have one id more: without a tombstone
   it never had one, and with one the sync itself is among the upserts that RowOK
   counts.                                                                   *)
LEMMA NewRowHasAnId ==
    ASSUME TypeOK, NEW s \in Syncs, NEW c \in written[s], RowOK(c), row[c] = 0
    PROVE  /\ c \in Calls /\ imported[c] \in Nat /\ imported[c] + 1 \in Ids
           /\ ~tombstone[c] => imported[c] = 0
  <1>1. c \in Calls
    BY DEF TypeOK
  <1>2. imported[c] \in Nat
    BY <1>1, IdsAreNumbers DEF TypeOK
  <1>3. ~tombstone[c] => imported[c] = 0
    BY DEF RowOK
  <1>4. ASSUME tombstone[c] PROVE imported[c] + 1 <= Cardinality(Syncs) + 1
    <2>1. s \in Upserts(c) /\ Upserts(c) \in SUBSET Syncs
      BY DEF Upserts
    <2>2. Cardinality({}) < Cardinality(Upserts(c)) /\ Cardinality(Upserts(c)) \in Nat
      BY <2>1, FewerSyncs
    <2>3. Cardinality(Upserts(c)) >= 1
      BY <2>2, FS_EmptySet
    <2> QED
      BY <1>2, <1>4, <2>2, <2>3, IdsAreNumbers DEF RowOK
  <1> QED
    BY <1>1, <1>2, <1>3, <1>4, IdsAreNumbers

(* The syncs keep the types. *)
LEMMA SyncTypeStep ==
    ASSUME QueueInv, NEW s \in Syncs, SyncOpen(s) \/ SyncStep(s) \/ SyncFail(s)
    PROVE  TypeOK'
  <1> USE DEF TypeOK
  <1>0. TypeOK /\ \A c \in Calls : RowOK(c)
    BY DEF QueueInv, CallOK
  <1>1. CASE SyncOpen(s)
    BY <1>0, <1>1 DEF SyncOpen, rows, works, apis
  <1>2. ASSUME NEW c \in Calls, SyncCheck(s, c) PROVE TypeOK'
    BY <1>0, <1>2 DEF SyncCheck, rows, works, apis
  <1>3. CASE SyncWrite(s)
    BY <1>0, <1>3, QueueAssumptions DEF SyncWrite, rows, works, apis
  <1>4. CASE SyncCommit(s)
    <2> DEFINE new == {c \in written[s] : ~Exists(c)}
    <2>1. ASSUME NEW c \in new PROVE imported[c] + 1 \in Ids
      BY <1>0, NewRowHasAnId DEF Exists
    <2>2. imported' = [c \in Calls |-> imported[c] + IF c \in new THEN 1 ELSE 0]
      BY <1>4 DEF SyncCommit
    <2>3. ASSUME NEW c \in Calls PROVE imported'[c] \in Ids
      <3>1. imported[c] \in Ids /\ imported[c] \in Nat
        BY <1>0, IdsAreNumbers
      <3>2. imported[c] + 0 = imported[c]
        BY <3>1
      <3> HIDE DEF new
      <3> QED
        BY <2>1, <2>2, <3>1, <3>2
    <2>4. imported' \in [Calls -> Ids]
      BY <2>2, <2>3
    <2>5. row' = [c \in Calls |-> IF c \in new THEN imported'[c] ELSE row[c]]
      BY <1>4 DEF SyncCommit
    <2>6. row' \in [Calls -> Ids]
      BY <1>0, <2>3, <2>5
    <2>7. status' \in [Calls -> TranscriptionStatuses]
      BY <1>0, <1>4 DEF SyncCommit, TranscriptionStatuses
    <2>8. stale' \in [Calls -> BOOLEAN]
      BY <1>0, <1>4 DEF SyncCommit
    <2>9. recording' \in [Calls -> BOOLEAN]
      <3>1. PICK has \in SUBSET written[s] :
                recording' = [c \in Calls |-> IF c \in written[s] THEN c \in has ELSE recording[c]]
        BY <1>4 DEF SyncCommit
      <3>2. ASSUME NEW c \in Calls
            PROVE  (IF c \in written[s] THEN c \in has ELSE recording[c]) \in BOOLEAN
        <4>1. CASE c \in written[s]
          BY <4>1
        <4>2. CASE c \notin written[s]
          BY <1>0, <4>2
        <4> QED
          BY <4>1, <4>2
      <3> QED
        BY <3>1, <3>2, Zenon
    <2>10. open' \subseteq Syncs /\ written' \in [Syncs -> SUBSET Calls]
      BY <1>0, <1>4 DEF SyncCommit
    <2>11. UNCHANGED <<asked, prediction, tombstone, age, todo, upsert, works, apis>>
      BY <1>4 DEF SyncCommit
    <2> HIDE DEF new
    <2> QED
      BY <1>0, <2>4, <2>6, <2>7, <2>8, <2>9, <2>10, <2>11 DEF works, apis
  <1>5. CASE SyncFail(s)
    BY <1>0, <1>5 DEF SyncFail, rows, works, apis
  <1> QED
    BY <1>1, <1>2, <1>3, <1>4, <1>5 DEF SyncStep

(* The worker keeps the types. *)
LEMMA WorkerTypeStep ==
    ASSUME QueueInv, NEW w \in Workers,
           Start(w) \/ Claim(w) \/ JobStep(w) \/ Crash(w)
    PROVE  TypeOK'
  <1> USE DEF TypeOK
  <1>0. TypeOK
    BY DEF QueueInv
  <1>1. CASE Start(w)
    BY <1>0, <1>1 DEF Start, TranscriptionStatuses, sync, apis
  <1>2. CASE Claim(w)
    <2>1. PICK c \in Calls :
              SetStatus(c, "processing") /\ job' = [job EXCEPT ![w] = [call |-> c, id |-> row[c]]]
      BY <1>2 DEF Claim
    <2>2. status' \in [Calls -> TranscriptionStatuses] /\ stale' \in [Calls -> BOOLEAN]
      BY <1>0, <2>1, SetStatusType DEF TranscriptionStatuses
    <2>3. job' \in [Workers -> Job \cup {NoJob}]
      BY <1>0, <2>1 DEF Job
    <2> QED
      BY <1>0, <1>2, <2>2, <2>3 DEF Claim, sync, apis
  <1>3. CASE AnalysisFails(w)
    BY <1>0, <1>3 DEF AnalysisFails, rows, sync, apis
  <1>4. CASE Persist(w)
    <2>1. job[w].call \in Calls /\ job[w].id \in Ids
      BY <1>4, JobOfRow DEF Persist
    <2>2. status' \in [Calls -> TranscriptionStatuses] /\ stale' \in [Calls -> BOOLEAN]
      BY <1>0, <1>4, <2>1, SetStatusType DEF Persist, TranscriptionStatuses
    <2>3. prediction' \in [Calls -> Made \cup {NotMade}]
      BY <1>0, <1>4, <2>1 DEF Persist, Made
    <2> QED
      BY <1>0, <1>4, <2>2, <2>3 DEF Persist, sync, apis
  <1>5. CASE PersistRefused(w)
    BY <1>0, <1>5 DEF PersistRefused, rows, sync, apis
  <1>6. CASE ReadBack(w)
    BY <1>0, <1>6 DEF ReadBack, rows, sync, apis
  <1>7. CASE MarkFailed(w)
    <2>1. job[w].call \in Calls
      BY <1>7, JobOfRow DEF MarkFailed
    <2>2. status' \in [Calls -> TranscriptionStatuses] /\ stale' \in [Calls -> BOOLEAN]
      BY <1>0, <1>7, <2>1, SetStatusType DEF MarkFailed, TranscriptionStatuses
    <2> QED
      BY <1>0, <1>7, <2>2 DEF MarkFailed, sync, apis
  <1>8. CASE MarkFailedRaises(w)
    BY <1>0, <1>8 DEF MarkFailedRaises, rows, sync, apis
  <1>9. CASE Crash(w)
    BY <1>0, <1>9, QueueAssumptions DEF Crash, rows, sync, apis
  <1> QED
    BY <1>1, <1>2, <1>3, <1>4, <1>5, <1>6, <1>7, <1>8, <1>9 DEF JobStep

(* A request keeps the types. *)
LEMMA RequestTypeStep ==
    ASSUME QueueInv, NEW q \in Requests,
           Ask(q) \/ Queue(q) \/ QueueRefused(q) \/ Delete(q)
    PROVE  TypeOK'
  <1> USE DEF TypeOK
  <1>0. TypeOK /\ ReqOK(q)
    BY DEF QueueInv
  <1>1. CASE Ask(q)
    BY <1>0, <1>1 DEF Ask, rows, sync, works
  <1>2. CASE Queue(q)
    <2>1. req[q].call \in Calls
      BY <1>0, <1>2 DEF Queue, ReqOK
    <2>2. status' \in [Calls -> TranscriptionStatuses] /\ stale' \in [Calls -> BOOLEAN]
      BY <1>0, <1>2, <2>1, SetStatusType DEF Queue, TranscriptionStatuses
    <2>3. asked' \in Seq(Calls)
      <3>1. Without(req[q].call) \in Seq(Calls)
        BY <1>0, <2>1, WithoutType
      <3>2. asked' = Append(Without(req[q].call), req[q].call)
        BY <1>2 DEF Queue
      <3> QED
        BY <2>1, <3>1, <3>2
    <2> QED
      BY <1>0, <1>2, <2>2, <2>3 DEF Queue, sync, works
  <1>3. CASE QueueRefused(q)
    BY <1>0, <1>3 DEF QueueRefused, rows, sync, works
  <1>4. CASE Delete(q)
    <2>1. PICK c \in Calls :
              /\ row' = [row EXCEPT ![c] = 0]
              /\ SetStatus(c, "pending")
              /\ recording' = [recording EXCEPT ![c] = FALSE]
              /\ asked' = Without(c)
              /\ prediction' = [prediction EXCEPT ![c] = NotMade]
              /\ tombstone' = [tombstone EXCEPT ![c] = TRUE]
      BY <1>4 DEF Delete
    <2>2. status' \in [Calls -> TranscriptionStatuses] /\ stale' \in [Calls -> BOOLEAN]
      BY <1>0, <2>1, SetStatusType DEF TranscriptionStatuses
    <2>3. asked' \in Seq(Calls)
      BY <1>0, <2>1, WithoutType
    <2>4. /\ row' \in [Calls -> Ids] /\ recording' \in [Calls -> BOOLEAN]
          /\ prediction' \in [Calls -> Made \cup {NotMade}]
          /\ tombstone' \in [Calls -> BOOLEAN]
      BY <1>0, <2>1, IdsAreNumbers
    <2> QED
      BY <1>0, <1>4, <2>2, <2>3, <2>4 DEF Delete, sync, works
  <1> QED
    BY <1>1, <1>2, <1>3, <1>4

(* So does time. *)
LEMMA TimeTypeStep ==
    ASSUME QueueInv, NEW c \in Calls, GrowStale(c) \/ GrowOld(c)
    PROVE  TypeOK'
  BY DEF QueueInv, TypeOK, GrowStale, GrowOld, Ages, rows, sync, works, apis

-----------------------------------------------------------------------------
(* The rows of a call *)

(* A step that leaves the row, its status and prediction as they are, and lets no
   upsert past a tombstone, keeps what is known of a call.                   *)
LEMMA CallUntouched ==
    ASSUME TypeOK, NEW c \in Calls, CallOK(c),
           row'[c] = row[c], status'[c] = status[c], prediction'[c] = prediction[c],
           tombstone'[c] = tombstone[c], imported'[c] = imported[c],
           tombstone[c] => Upserts(c)' \subseteq Upserts(c)
    PROVE  CallOK(c)'
  <1>1. imported[c] \in Nat
    BY IdsAreNumbers DEF TypeOK
  <1>2. Upserts(c) \in SUBSET Syncs
    BY DEF Upserts
  <1>3. tombstone[c] => imported[c] + Cardinality(Upserts(c)') <= Cardinality(Syncs) + 1
    <2> SUFFICES ASSUME tombstone[c]
                 PROVE  imported[c] + Cardinality(Upserts(c)') <= Cardinality(Syncs) + 1
      OBVIOUS
    <2>1. /\ Cardinality(Upserts(c)) \in Nat /\ Cardinality(Upserts(c)') \in Nat
          /\ Cardinality(Upserts(c)') <= Cardinality(Upserts(c))
      BY <1>2, FewerSyncs
    <2> QED
      BY <1>1, <2>1, IdsAreNumbers DEF CallOK, RowOK
  <1> QED
    BY <1>3 DEF CallOK, RowOK, AnalyzedOnceOf, OfItsRow

(* A sync: its check lets no upsert past a tombstone, and its commit imports what
   has no row and is no longer counted.                                      *)
LEMMA SyncCallStep ==
    ASSUME QueueInv, NEW s \in Syncs, SyncOpen(s) \/ SyncStep(s) \/ SyncFail(s),
           NEW c \in Calls
    PROVE  CallOK(c)'
  <1>0. TypeOK /\ CallOK(c) /\ None \notin Calls
    BY QueueAssumptions DEF QueueInv
  <1>1. CASE SyncOpen(s)
    BY <1>0, <1>1, CallUntouched DEF SyncOpen, rows, Upserts
  <1>2. ASSUME NEW d \in Calls, SyncCheck(s, d) PROVE CallOK(c)'
    <2>1. tombstone[c] => Upserts(c)' \subseteq Upserts(c)
      BY <1>0, <1>2 DEF SyncCheck, Upserts, TypeOK
    <2> QED
      BY <1>0, <1>2, <2>1, CallUntouched DEF SyncCheck, rows
  <1>3. CASE SyncWrite(s)
    <2>1. Upserts(c)' \subseteq Upserts(c)
      BY <1>0, <1>3 DEF SyncWrite, Upserts, TypeOK
    <2> QED
      BY <1>0, <1>3, <2>1, CallUntouched DEF SyncWrite, rows
  <1>4. CASE SyncCommit(s)
    <2>1. /\ written' = [written EXCEPT ![s] = {}] /\ upsert' = upsert /\ upsert[s] = None
          /\ prediction' = prediction /\ tombstone' = tombstone
      BY <1>4 DEF SyncCommit
    <2>2. Upserts(c)' = Upserts(c) \ {s}
      BY <1>0, <2>1 DEF Upserts, TypeOK
    <2>3. CASE c \in written[s] /\ row[c] = 0
      <3>1. /\ imported'[c] = imported[c] + 1 /\ row'[c] = imported'[c]
            /\ status'[c] = "pending"
        BY <1>0, <1>4, <2>3 DEF SyncCommit, Exists, TypeOK
      <3>2. imported[c] \in Nat /\ (~tombstone[c] => imported[c] = 0)
        BY <1>0, <2>3, NewRowHasAnId DEF CallOK
      <3>3. prediction[c] = NotMade
        BY <1>0, <2>3 DEF CallOK, RowOK
      <3>4. row'[c] # 0
        BY <3>1, <3>2
      <3>5. ASSUME tombstone[c]
            PROVE  imported[c] + 1 + Cardinality(Upserts(c) \ {s}) <= Cardinality(Syncs) + 1
        <4>1. s \in Upserts(c) /\ Upserts(c) \in SUBSET Syncs
          BY <2>3 DEF Upserts
        <4>2. /\ Cardinality(Upserts(c)) \in Nat /\ Cardinality(Upserts(c) \ {s}) \in Nat
              /\ Cardinality(Upserts(c) \ {s}) < Cardinality(Upserts(c))
          <5>1. Upserts(c) \ {s} \in SUBSET Upserts(c) /\ Upserts(c) \ {s} # Upserts(c)
            BY <4>1
          <5> QED
            BY <4>1, <5>1, FewerSyncs
        <4> QED
          BY <1>0, <3>2, <3>5, <4>2, IdsAreNumbers DEF CallOK, RowOK
      <3>6. RowOK(c)'
        BY <2>1, <2>2, <3>1, <3>2, <3>4, <3>5 DEF RowOK
      <3>7. AnalyzedOnceOf(c)' /\ OfItsRow(c)'
        BY <2>1, <3>1, <3>3 DEF AnalyzedOnceOf, OfItsRow
      <3> QED
        BY <3>6, <3>7 DEF CallOK
    <2>4. CASE ~(c \in written[s] /\ row[c] = 0)
      <3>0. imported[c] \in Nat
        BY <1>0, IdsAreNumbers DEF TypeOK
      <3>1. imported'[c] = imported[c] /\ row'[c] = row[c] /\ status'[c] = status[c]
        BY <1>0, <1>4, <2>4, <3>0 DEF SyncCommit, Exists, TypeOK
      <3> QED
        BY <1>0, <2>1, <2>2, <3>1, CallUntouched
    <2> QED
      BY <2>3, <2>4
  <1>5. CASE SyncFail(s)
    <2>1. Upserts(c)' \subseteq Upserts(c)
      BY <1>0, <1>5 DEF SyncFail, Upserts, TypeOK
    <2> QED
      BY <1>0, <1>5, <2>1, CallUntouched DEF SyncFail, rows
  <1> QED
    BY <1>1, <1>2, <1>3, <1>4, <1>5 DEF SyncStep

(* The worker: it claims what has no prediction, stores one with 'completed',
   and only to the row of its job.                                           *)
LEMMA WorkerCallStep ==
    ASSUME QueueInv, NEW w \in Workers,
           Start(w) \/ Claim(w) \/ JobStep(w) \/ Crash(w),
           NEW c \in Calls
    PROVE  CallOK(c)'
  <1>0. TypeOK /\ CallOK(c)
    BY DEF QueueInv
  <1>1. CASE Start(w)
    <2>1. status'[c] \in {status[c], "pending"}
      BY <1>0, <1>1 DEF Start, TypeOK
    <2> QED
      BY <1>0, <1>1, <2>1 DEF Start, sync, CallOK, RowOK, Upserts, AnalyzedOnceOf, OfItsRow
  <1>2. CASE Claim(w)
    <2>1. PICK d \in Calls : Claimable(d) /\ SetStatus(d, "processing")
      BY <1>2 DEF Claim
    <2>2. status'[c] = status[c] \/ (status'[c] = "processing" /\ prediction[c] = NotMade)
      BY <1>0, <2>1 DEF Claimable, SetStatus, TypeOK
    <2> QED
      BY <1>0, <1>2, <2>2 DEF Claim, sync, CallOK, RowOK, Upserts, AnalyzedOnceOf, OfItsRow
  <1>3. CASE Persist(w)
    <2>1. job[w].call \in Calls /\ job[w].id \in Ids \ {0}
      BY <1>3, JobOfRow DEF Persist
    <2>2. row[job[w].call] = job[w].id
      BY <1>3 DEF Persist, Found
    <2>3. /\ status' = [status EXCEPT ![job[w].call] = "completed"]
          /\ prediction' = [prediction EXCEPT ![job[w].call] = [by |-> w, id |-> job[w].id]]
          /\ row' = row /\ imported' = imported /\ tombstone' = tombstone
          /\ upsert' = upsert /\ written' = written
      BY <1>3 DEF Persist, SetStatus, sync
    <2>4. CASE c = job[w].call
      <3>1. prediction'[c] = [by |-> w, id |-> row[c]] /\ status'[c] = "completed"
        BY <1>0, <2>2, <2>3, <2>4 DEF TypeOK
      <3>2. prediction'[c] # NotMade /\ prediction'[c].id = row[c]
        BY <3>1, QueueAssumptions DEF NotMade
      <3>3. row[c] # 0
        BY <2>1, <2>2, <2>4
      <3> QED
        BY <1>0, <2>3, <3>1, <3>2, <3>3 DEF CallOK, RowOK, Upserts, AnalyzedOnceOf, OfItsRow
    <2>5. CASE c # job[w].call
      <3>1. status'[c] = status[c] /\ prediction'[c] = prediction[c]
        BY <1>0, <2>3, <2>5 DEF TypeOK
      <3> QED
        BY <1>0, <2>3, <3>1, CallUntouched DEF Upserts
    <2> QED
      BY <2>4, <2>5
  <1>4. CASE MarkFailed(w)
    <2>1. status'[c] \in {status[c], "failed"}
      BY <1>0, <1>4 DEF MarkFailed, SetStatus, TypeOK
    <2> QED
      BY <1>0, <1>4, <2>1 DEF MarkFailed, sync, CallOK, RowOK, Upserts, AnalyzedOnceOf, OfItsRow
  <1>5. CASE AnalysisFails(w) \/ PersistRefused(w) \/ ReadBack(w)
             \/ MarkFailedRaises(w) \/ Crash(w)
    <2>1. UNCHANGED rows /\ UNCHANGED sync
      BY <1>5 DEF AnalysisFails, PersistRefused, ReadBack, MarkFailedRaises, Crash
    <2> QED
      BY <1>0, <2>1, CallUntouched DEF rows, sync, Upserts
  <1> QED
    BY <1>1, <1>2, <1>3, <1>4, <1>5 DEF JobStep

(* A request: it queues, which no prediction follows from, or deletes. *)
LEMMA RequestCallStep ==
    ASSUME QueueInv, NEW q \in Requests,
           Ask(q) \/ Queue(q) \/ QueueRefused(q) \/ Delete(q),
           NEW c \in Calls
    PROVE  CallOK(c)'
  <1>0. TypeOK /\ CallOK(c)
    BY DEF QueueInv
  <1>1. CASE Ask(q) \/ QueueRefused(q)
    <2>1. UNCHANGED rows /\ UNCHANGED sync
      BY <1>1 DEF Ask, QueueRefused
    <2> QED
      BY <1>0, <2>1, CallUntouched DEF rows, sync, Upserts
  <1>2. CASE Queue(q)
    <2>1. status'[c] \in {status[c], "pending"}
      BY <1>0, <1>2 DEF Queue, SetStatus, TypeOK
    <2> QED
      BY <1>0, <1>2, <2>1 DEF Queue, sync, CallOK, RowOK, Upserts, AnalyzedOnceOf, OfItsRow
  <1>3. CASE Delete(q)
    <2>1. PICK d \in Calls :
              /\ Exists(d)
              /\ row' = [row EXCEPT ![d] = 0]
              /\ status' = [status EXCEPT ![d] = "pending"]
              /\ prediction' = [prediction EXCEPT ![d] = NotMade]
              /\ tombstone' = [tombstone EXCEPT ![d] = TRUE]
      BY <1>3 DEF Delete, SetStatus
    <2>2. UNCHANGED <<imported, upsert, written>>
      BY <1>3 DEF Delete, sync
    <2>3. CASE c = d
      <3>1. /\ row'[c] = 0 /\ status'[c] = "pending" /\ prediction'[c] = NotMade
            /\ tombstone'[c]
        BY <1>0, <2>1, <2>3 DEF TypeOK
      <3>2. imported[c] + Cardinality(Upserts(c)) <= Cardinality(Syncs) + 1
        <4>1. CASE tombstone[c]
          BY <1>0, <4>1 DEF CallOK, RowOK
        <4>2. CASE ~tombstone[c]
          <5>1. imported[c] \in Nat /\ imported[c] <= 1
            BY <1>0, <4>2, IdsAreNumbers DEF CallOK, RowOK, TypeOK
          <5>2. Upserts(c) \in SUBSET Syncs /\ Syncs \in SUBSET Syncs
            BY DEF Upserts
          <5>3. Cardinality(Upserts(c)) \in Nat /\ Cardinality(Upserts(c)) <= Cardinality(Syncs)
            BY <5>2, FewerSyncs
          <5> QED
            BY <5>1, <5>3, IdsAreNumbers
        <4> QED
          BY <4>1, <4>2
      <3>3. Upserts(c)' = Upserts(c)
        BY <2>2 DEF Upserts
      <3> QED
        BY <1>0, <2>2, <3>1, <3>2, <3>3 DEF CallOK, RowOK, AnalyzedOnceOf, OfItsRow
    <2>4. CASE c # d
      <3>1. /\ row'[c] = row[c] /\ status'[c] = status[c]
            /\ prediction'[c] = prediction[c] /\ tombstone'[c] = tombstone[c]
        BY <1>0, <2>1, <2>4 DEF TypeOK
      <3> QED
        BY <1>0, <2>2, <3>1, CallUntouched DEF Upserts
    <2> QED
      BY <2>3, <2>4
  <1> QED
    BY <1>1, <1>2, <1>3

(* Time touches no row but for its age. *)
LEMMA TimeCallStep ==
    ASSUME QueueInv, NEW d \in Calls, GrowStale(d) \/ GrowOld(d), NEW c \in Calls
    PROVE  CallOK(c)'
  <1>1. UNCHANGED <<row, status, prediction, tombstone, imported, sync>>
    BY DEF GrowStale, GrowOld, rows
  <1> QED
    BY <1>1, CallUntouched DEF QueueInv, sync, Upserts

-----------------------------------------------------------------------------
(* Jobs and requests *)

(* A worker gets a job when it claims a row, which has an id. *)
LEMMA JobStepOK ==
    ASSUME QueueInv, Next, NEW v \in Workers
    PROVE  JobOK(v)'
  <1>0. TypeOK /\ JobOK(v)
    BY DEF QueueInv
  <1>1. ASSUME UNCHANGED <<worker, job>> PROVE JobOK(v)'
    BY <1>0, <1>1 DEF JobOK
  <1>2. ASSUME NEW w \in Workers, Start(w) PROVE JobOK(v)'
    BY <1>0, <1>2 DEF Start, JobOK, TypeOK
  <1>3. ASSUME NEW w \in Workers, Claim(w) PROVE JobOK(v)'
    <2>1. PICK c \in Calls :
              Claimable(c) /\ job' = [job EXCEPT ![w] = [call |-> c, id |-> row[c]]]
      BY <1>3 DEF Claim
    <2>2. row[c] \in Ids /\ row[c] # 0
      BY <1>0, <2>1 DEF Claimable, Exists, TypeOK
    <2>3. worker' = [worker EXCEPT ![w] = "working"]
      BY <1>3 DEF Claim
    <2>4. CASE v = w
      BY <1>0, <2>1, <2>2, <2>4 DEF JobOK, Job, TypeOK
    <2>5. CASE v # w
      BY <1>0, <2>1, <2>3, <2>5 DEF JobOK, TypeOK
    <2> QED
      BY <2>4, <2>5
  <1>4. ASSUME NEW w \in Workers, JobStep(w) PROVE JobOK(v)'
    <2>1. \/ /\ worker[w] \in {"working", "stored", "failing"}
             /\ \E s \in {"stored", "failing"} : worker' = [worker EXCEPT ![w] = s]
             /\ job' = job
          \/ /\ \E s \in {"polling", "down"} : worker' = [worker EXCEPT ![w] = s]
             /\ job' = [job EXCEPT ![w] = NoJob]
      BY <1>4 DEF JobStep, AnalysisFails, Persist, PersistRefused, ReadBack,
                  MarkFailed, MarkFailedRaises
    <2> QED
      BY <1>0, <2>1 DEF JobOK, TypeOK
  <1>5. ASSUME NEW w \in Workers, Crash(w) PROVE JobOK(v)'
    BY <1>0, <1>5 DEF Crash, JobOK, TypeOK
  <1>6. ASSUME NEW s \in Syncs, SyncOpen(s) \/ SyncStep(s) \/ SyncFail(s) PROVE JobOK(v)'
    BY <1>1, <1>6 DEF SyncOpen, SyncStep, SyncFail, SyncCheck, SyncWrite, SyncCommit, works
  <1>7. ASSUME NEW q \in Requests, Ask(q) \/ Queue(q) \/ QueueRefused(q) \/ Delete(q)
        PROVE  JobOK(v)'
    BY <1>1, <1>7 DEF Ask, Queue, QueueRefused, Delete, works
  <1>8. ASSUME NEW c \in Calls, GrowStale(c) \/ GrowOld(c) PROVE JobOK(v)'
    BY <1>1, <1>8 DEF GrowStale, GrowOld, works
  <1> QED
    BY <1>2, <1>3, <1>4, <1>5, <1>6, <1>7, <1>8 DEF Next

(* A request that asks has taken its call's row with it. *)
LEMMA ReqStepOK ==
    ASSUME QueueInv, Next, NEW p \in Requests
    PROVE  ReqOK(p)'
  <1>0. TypeOK /\ ReqOK(p)
    BY DEF QueueInv
  <1>1. ASSUME UNCHANGED apis PROVE ReqOK(p)'
    BY <1>0, <1>1 DEF ReqOK, apis
  <1>2. ASSUME NEW q \in Requests, Ask(q) PROVE ReqOK(p)'
    BY <1>0, <1>2 DEF Ask, ReqOK, TypeOK
  <1>3. ASSUME NEW q \in Requests, Queue(q) \/ QueueRefused(q) \/ Delete(q)
        PROVE  ReqOK(p)'
    BY <1>0, <1>3 DEF Queue, QueueRefused, Delete, ReqOK, TypeOK
  <1>4. ASSUME NEW s \in Syncs, SyncOpen(s) \/ SyncStep(s) \/ SyncFail(s) PROVE ReqOK(p)'
    BY <1>1, <1>4 DEF SyncOpen, SyncStep, SyncFail, SyncCheck, SyncWrite, SyncCommit
  <1>5. ASSUME NEW w \in Workers, Start(w) \/ Claim(w) \/ JobStep(w) \/ Crash(w)
        PROVE  ReqOK(p)'
    BY <1>1, <1>5 DEF Start, Claim, JobStep, AnalysisFails, Persist, PersistRefused,
                      ReadBack, MarkFailed, MarkFailedRaises, Crash
  <1>6. ASSUME NEW c \in Calls, GrowStale(c) \/ GrowOld(c) PROVE ReqOK(p)'
    BY <1>1, <1>6 DEF GrowStale, GrowOld
  <1> QED
    BY <1>2, <1>3, <1>4, <1>5, <1>6 DEF Next

-----------------------------------------------------------------------------
(* The invariant *)

(* It holds of the empty table. *)
LEMMA QueueInvInit == Init => QueueInv
  <1> SUFFICES ASSUME Init PROVE QueueInv
    OBVIOUS
  <1>1. TypeOK
    <2>1. /\ row \in [Calls -> Ids] /\ imported \in [Calls -> Ids]
          /\ status \in [Calls -> TranscriptionStatuses]
          /\ age \in [Calls -> Ages]
      BY IdsAreNumbers DEF Init, TranscriptionStatuses, Ages
    <2>2. /\ recording \in [Calls -> BOOLEAN] /\ stale \in [Calls -> BOOLEAN]
          /\ tombstone \in [Calls -> BOOLEAN]
      BY DEF Init
    <2>3. prediction \in [Calls -> Made \cup {NotMade}] /\ asked \in Seq(Calls)
      BY DEF Init
    <2>4. /\ open \subseteq Syncs /\ todo \in [Syncs -> SUBSET Calls]
          /\ written \in [Syncs -> SUBSET Calls] /\ upsert \in [Syncs -> Calls \cup {None}]
      BY DEF Init
    <2>5. /\ worker \in [Workers -> {"down", "polling", "working", "stored", "failing"}]
          /\ job \in [Workers -> Job \cup {NoJob}]
          /\ crashes \in 0 .. MaxCrashes
      BY QueueAssumptions DEF Init
    <2>6. /\ pc \in [Requests -> {"idle", "asking", "done"}]
          /\ req \in [Requests -> [call : Calls, id : Ids, analyzed : BOOLEAN]
                                   \cup {NoRequest}]
      BY DEF Init
    <2> QED
      BY <2>1, <2>2, <2>3, <2>4, <2>5, <2>6 DEF TypeOK
  <1>2. ASSUME NEW c \in Calls PROVE CallOK(c)
    BY DEF Init, CallOK, RowOK, Upserts, AnalyzedOnceOf, OfItsRow
  <1>3. (\A w \in Workers : JobOK(w)) /\ (\A q \in Requests : ReqOK(q))
    BY DEF Init, JobOK, ReqOK
  <1> QED
    BY <1>1, <1>2, <1>3 DEF QueueInv

(* Every step keeps it. *)
LEMMA QueueInvStep == QueueInv /\ [Next]_vars => QueueInv'
  <1> SUFFICES ASSUME QueueInv, [Next]_vars PROVE QueueInv'
    OBVIOUS
  <1>1. CASE Next
    <2>1. TypeOK'
      BY <1>1, SyncTypeStep, WorkerTypeStep, RequestTypeStep, TimeTypeStep DEF Next
    <2>2. ASSUME NEW c \in Calls PROVE CallOK(c)'
      BY <1>1, SyncCallStep, WorkerCallStep, RequestCallStep, TimeCallStep DEF Next
    <2>3. ASSUME NEW w \in Workers PROVE JobOK(w)'
      BY <1>1, JobStepOK
    <2>4. ASSUME NEW q \in Requests PROVE ReqOK(q)'
      BY <1>1, ReqStepOK
    <2> QED
      BY <2>1, <2>2, <2>3, <2>4 DEF QueueInv
  <1>2. CASE UNCHANGED vars
    BY <1>2 DEF vars, QueueInv, TypeOK, CallOK, RowOK, Upserts, AnalyzedOnceOf, OfItsRow, JobOK, ReqOK
  <1> QED
    BY <1>1, <1>2

(* The invariant holds in every reachable state, from any number of calls,
   workers, crashes and requests.                                            *)
THEOREM QueueInvariant == Spec => []QueueInv
  BY QueueInvInit, QueueInvStep, PTL DEF Spec

-----------------------------------------------------------------------------
(* What follows from it *)

(* The variables keep their types; so a call is imported once for every sync that
   runs beside the others, and once more, whatever their upserts, the deletions
   and the tombstones race.                                                  *)
THEOREM QueueTypes == Spec => []TypeOK
  BY QueueInvariant, PTL DEF QueueInv

(* What a worker is at has no prediction, and what is completed has one. *)
THEOREM CallsAnalyzedOnce == Spec => []AnalyzedOnce
  <1>1. QueueInv => AnalyzedOnce
    BY DEF QueueInv, CallOK, AnalyzedOnceOf, AnalyzedOnce
  <1> QED
    BY <1>1, QueueInvariant, PTL

(* A prediction is of the row it hangs on, not of one deleted before. *)
THEOREM PredictionsOfTheirRow == Spec => []PredictionOfItsRow
  <1>1. QueueInv => PredictionOfItsRow
    BY DEF QueueInv, CallOK, OfItsRow, PredictionOfItsRow
  <1> QED
    BY <1>1, QueueInvariant, PTL

(* A prediction is there until its call is deleted. *)
THEOREM PredictionsImmutable == Spec => PredictionIsImmutable
  <1> DEFINE Kept(c) ==
          prediction[c] # NotMade => prediction'[c] = prediction[c] \/ row'[c] # row[c]
  <1>1. ASSUME QueueInv, Next, NEW c \in Calls PROVE Kept(c)
    <2>0. TypeOK
      BY <1>1 DEF QueueInv
    <2>1. ASSUME prediction' = prediction PROVE Kept(c)
      BY <2>1
    <2>2. ASSUME NEW w \in Workers, Persist(w) PROVE Kept(c)
      BY <2>0, <2>2 DEF Persist, TypeOK
    <2>3. ASSUME NEW q \in Requests, Delete(q) PROVE Kept(c)
      BY <2>0, <2>3 DEF Delete, Exists, TypeOK
    <2>4. ASSUME NEW s \in Syncs, SyncOpen(s) \/ SyncStep(s) \/ SyncFail(s) PROVE Kept(c)
      BY <2>1, <2>4 DEF SyncOpen, SyncStep, SyncFail, SyncCheck, SyncWrite, SyncCommit, rows
    <2>5. ASSUME NEW w \in Workers,
                 Start(w) \/ Claim(w) \/ Crash(w) \/ (JobStep(w) /\ ~Persist(w))
          PROVE  Kept(c)
      BY <2>1, <2>5 DEF Start, Claim, JobStep, AnalysisFails, PersistRefused,
                        ReadBack, MarkFailed, MarkFailedRaises, Crash, rows
    <2>6. ASSUME NEW q \in Requests, Ask(q) \/ Queue(q) \/ QueueRefused(q)
          PROVE  Kept(c)
      BY <2>1, <2>6 DEF Ask, Queue, QueueRefused, rows
    <2>7. ASSUME NEW d \in Calls, GrowStale(d) \/ GrowOld(d) PROVE Kept(c)
      BY <2>1, <2>7 DEF GrowStale, GrowOld, rows
    <2> HIDE DEF Kept
    <2> QED
      BY <1>1, <2>2, <2>3, <2>4, <2>5, <2>6, <2>7 DEF Next
  <1>2. QueueInv /\ [Next]_vars => [\A c \in Calls : Kept(c)]_vars
    BY <1>1
  <1> QED
    BY <1>2, QueueInvariant, PTL DEF Spec, PredictionIsImmutable

(* A settled deletion stays settled: an upsert that starts now finds the
   tombstone, and the sync imports only what it has written.                 *)
THEOREM DeletionsSettle == Spec => DeletionSettles
  <1>1. ASSUME QueueInv, Next, NEW c \in Calls, Settled(c) PROVE Settled(c)'
    <2>0. TypeOK
      BY <1>1 DEF QueueInv
    <2>1. /\ tombstone[c] /\ row[c] = 0
          /\ \A s \in Syncs : upsert[s] # c /\ c \notin written[s]
      BY <1>1 DEF Settled, Exists
    <2>2. ASSUME NEW s \in Syncs, SyncOpen(s) \/ SyncFail(s) PROVE Settled(c)'
      BY <2>0, <2>1, <2>2, QueueAssumptions DEF SyncOpen, SyncFail, rows, Settled, Exists, TypeOK
    <2>3. ASSUME NEW s \in Syncs, NEW d \in Calls, SyncCheck(s, d) PROVE Settled(c)'
      <3>1. \A r \in Syncs : upsert'[r] # c
        BY <2>0, <2>1, <2>3, QueueAssumptions DEF SyncCheck, TypeOK
      <3> QED
        BY <2>1, <2>3, <3>1 DEF SyncCheck, rows, Settled, Exists
    <2>4. ASSUME NEW s \in Syncs, SyncWrite(s) PROVE Settled(c)'
      BY <2>0, <2>1, <2>4, QueueAssumptions DEF SyncWrite, rows, Settled, Exists, TypeOK
    <2>5. ASSUME NEW s \in Syncs, SyncCommit(s) PROVE Settled(c)'
      BY <2>0, <2>1, <2>5 DEF SyncCommit, Settled, Exists, TypeOK
    <2>6. CASE \E q \in Requests : Delete(q)
      <3>1. PICK q \in Requests, d \in Calls :
              /\ row[d] # 0
              /\ row' = [row EXCEPT ![d] = 0]
              /\ tombstone' = [tombstone EXCEPT ![d] = TRUE]
              /\ UNCHANGED sync
        BY <2>6 DEF Delete, Exists
      <3>2. d # c
        BY <2>1, <3>1
      <3>3. QED
        BY <1>1, <2>1, <3>1, <3>2 DEF QueueInv, TypeOK, sync, Settled, Exists
    <2>7. CASE UNCHANGED <<row, tombstone, upsert, written>>
      BY <2>1, <2>7 DEF Settled, Exists
    <2>8. QED
      BY <1>1, <2>2, <2>3, <2>4, <2>5, <2>6, <2>7
         DEF Next, SyncStep, Start, Claim, JobStep, AnalysisFails, Persist, PersistRefused,
             ReadBack, MarkFailed, MarkFailedRaises, Crash, Ask, Queue, QueueRefused,
             GrowStale, GrowOld, rows, sync
  <1>2. ASSUME QueueInv, [Next]_vars, NEW c \in Calls, Settled(c) PROVE Settled(c)'
    BY <1>1, <1>2 DEF vars, Settled, Exists
  <1>3. QueueInv /\ [Next]_vars => [\A c \in Calls : Settled(c) => Settled(c)']_vars
    BY <1>2
  <1> QED
    BY <1>3, QueueInvariant, PTL DEF Spec, DeletionSettles

-----------------------------------------------------------------------------
(* Jobs that end within the stale minutes *)

(* What a worker holds is a row that was given out.  As long as that row is
   there, it is where the claim or the stored result has left it: no restart,
   request or claim takes it, because it is neither pending nor stale.       *)
Kept(c) == status[c] = "completed" \/ (status[c] = "processing" /\ ~stale[c])
JobKept(w) ==
    job[w] # NoJob =>
        /\ job[w] \in Job
        /\ job[w].id \in 1 .. imported[job[w].call]
        /\ Found(job[w]) => Kept(job[w].call)

ApartInv == JobsAreApart /\ \A w \in Workers : JobKept(w)

(* A held job stays kept by a step that does nothing to its call but take its
   row away, or give its call another one.                                   *)
LEMMA KeptUntouched ==
    ASSUME NEW v \in Workers, JobKept(v), job'[v] = job[v],
           NEW c, c = job[v].call,
           imported'[c] \in Nat, imported[c] \in Nat, imported'[c] >= imported[c],
           \/ row'[c] = row[c] /\ status'[c] = status[c] /\ (stale'[c] => stale[c])
           \/ row'[c] = 0
           \/ row'[c] = imported[c] + 1
    PROVE  JobKept(v)'
  <1> SUFFICES ASSUME job[v] # NoJob PROVE JobKept(v)'
    BY DEF JobKept
  <1>1. /\ job[v] \in Job /\ job[v].id \in 1 .. imported[c]
        /\ row[c] = job[v].id => Kept(c)
    BY DEF JobKept, Found
  <1>2. job[v].id \in 1 .. imported'[c]
    BY <1>1
  <1>3. row'[c] = job[v].id => Kept(c)'
    BY <1>1 DEF Kept
  <1> QED
    BY <1>1, <1>2, <1>3 DEF JobKept, Found

(* Two jobs on one row that is there are the same job. *)
LEMMA SameRowSameJob ==
    ASSUME JobsAreApart, NEW v \in Workers, NEW w \in Workers,
           job[v] \in Job, job[w] \in Job, Found(job[v]), Found(job[w]),
           job[v].call = job[w].call
    PROVE  v = w
  <1>1. job[v] = job[w] /\ job[v] # NoJob
    BY QueueAssumptions DEF Found, Job, NoJob
  <1> QED
    BY <1>1 DEF JobsAreApart

(* The sync gives a call without a row a new id, and refreshes the others. *)
LEMMA SyncKeepsJobs ==
    ASSUME QueueInv, ApartInv, NEW v \in Workers,
           NEW s \in Syncs, SyncOpen(s) \/ SyncStep(s) \/ SyncFail(s)
    PROVE  JobKept(v)'
  <1>0. TypeOK /\ JobKept(v) /\ UNCHANGED works
    BY DEF QueueInv, ApartInv, SyncOpen, SyncStep, SyncFail, SyncCheck, SyncWrite, SyncCommit
  <1>1. CASE UNCHANGED rows
    BY <1>0, <1>1 DEF rows, works, JobKept, Found, Kept
  <1>2. CASE SyncCommit(s)
    <2>1. CASE job[v] = NoJob
      BY <1>0, <2>1 DEF works, JobKept
    <2>2. CASE job[v] # NoJob
      <3> DEFINE c == job[v].call
      <3>1. c \in Calls /\ job'[v] = job[v]
        BY <1>0, <2>2 DEF JobKept, Job, works
      <3>2. stale'[c] => stale[c]
        BY <1>2, <3>1 DEF SyncCommit
      <3>3. imported[c] \in Nat
        <4>1. imported[c] \in Ids
          BY <1>0, <3>1 DEF TypeOK
        <4> QED
          BY <4>1, IdsAreNumbers
      <3>4. CASE c \in written[s] /\ row[c] = 0
        <4>1. imported'[c] = imported[c] + 1 /\ row'[c] = imported'[c]
          BY <1>0, <1>2, <3>1, <3>4 DEF SyncCommit, Exists, TypeOK
        <4> HIDE DEF c
        <4> QED
          BY <1>0, <3>1, <3>3, <4>1, KeptUntouched DEF c
      <3>5. CASE ~(c \in written[s] /\ row[c] = 0)
        <4>1. imported'[c] = imported[c] /\ row'[c] = row[c] /\ status'[c] = status[c]
          BY <1>0, <1>2, <3>1, <3>3, <3>5 DEF SyncCommit, Exists, TypeOK
        <4> HIDE DEF c
        <4> QED
          BY <1>0, <3>1, <3>2, <3>3, <4>1, KeptUntouched DEF c
      <3> QED
        BY <3>4, <3>5
    <2> QED
      BY <2>1, <2>2
  <1> QED
    BY <1>1, <1>2 DEF SyncOpen, SyncStep, SyncFail, SyncCheck, SyncWrite

(* A claim takes a pending call and a restart a stale one: no held one. *)
LEMMA ClaimKeepsJobs ==
    ASSUME QueueInv, ApartInv, NEW w \in Workers, Claim(w)
    PROVE  ApartInv'
  <1>0. TypeOK /\ \A v \in Workers : JobKept(v)
    BY DEF QueueInv, ApartInv
  <1>1. PICK c \in Calls :
            /\ Claimable(c)
            /\ SetStatus(c, "processing")
            /\ job' = [job EXCEPT ![w] = [call |-> c, id |-> row[c]]]
    BY DEF Claim
  <1>2. row' = row /\ imported' = imported
    BY DEF Claim
  <1>3. /\ row[c] \in Ids /\ row[c] # 0 /\ row[c] = imported[c] /\ status[c] = "pending"
    BY <1>0, <1>1 DEF Claimable, Exists, QueueInv, CallOK, RowOK, TypeOK
  <1>4. ASSUME NEW v \in Workers, job[v] # NoJob, Found(job[v]) PROVE job[v].call # c
    BY <1>0, <1>3, <1>4 DEF JobKept, Kept
  <1>5. job'[w] = [call |-> c, id |-> row[c]] /\ \A v \in Workers \ {w} : job'[v] = job[v]
    BY <1>0, <1>1 DEF TypeOK
  <1>6. /\ status'[c] = "processing" /\ ~stale'[c]
        /\ \A d \in Calls \ {c} : status'[d] = status[d] /\ stale'[d] = stale[d]
    BY <1>0, <1>1 DEF SetStatus, TypeOK
  <1>7. ASSUME NEW v \in Workers PROVE JobKept(v)'
    <2>1. CASE v = w
      <3>0. row[c] \in Nat
        BY <1>3, IdsAreNumbers
      <3>1. row[c] \in 1 .. imported[c]
        BY <1>3, <3>0
      <3> QED
        BY <1>2, <1>3, <1>5, <1>6, <2>1, <3>1 DEF JobKept, Job, Kept
    <2>2. CASE v # w
      BY <1>0, <1>2, <1>4, <1>5, <1>6, <2>2 DEF JobKept, Job, Found, Kept
    <2> QED
      BY <2>1, <2>2
  <1>8. JobsAreApart'
    <2>1. ASSUME NEW v \in Workers, v # w PROVE job'[v] # job'[w]
      BY <1>0, <1>3, <1>4, <1>5, <2>1, QueueAssumptions DEF Found, NoJob
    <2>2. ASSUME NEW u \in Workers, NEW v \in Workers, u # v, job'[u] # NoJob
          PROVE  job'[u] # job'[v]
      BY <1>5, <2>1, <2>2 DEF ApartInv, JobsAreApart
    <2> QED
      BY <2>2 DEF JobsAreApart
  <1> QED
    BY <1>7, <1>8 DEF ApartInv

(* A restart requeues what is stale, which no held call is. *)
LEMMA StartKeepsJobs ==
    ASSUME QueueInv, ApartInv, NEW w \in Workers, Start(w), NEW v \in Workers
    PROVE  JobKept(v)'
  <1>0. TypeOK /\ JobKept(v) /\ job' = job /\ row' = row /\ imported' = imported
    BY DEF QueueInv, ApartInv, Start
  <1>1. ASSUME NEW c \in Calls, Kept(c) PROVE Kept(c)'
    BY <1>0, <1>1 DEF Start, Requeueable, Kept, TypeOK
  <1> QED
    BY <1>0, <1>1 DEF JobKept, Job, Found

(* The rest of a job: its row stays kept until the worker lets go of it. *)
LEMMA JobStepKeepsJobs ==
    ASSUME QueueInv, ApartInv, NEW w \in Workers, JobStep(w) \/ Crash(w)
    PROVE  ApartInv'
  <1>0. TypeOK /\ \A v \in Workers : JobKept(v)
    BY DEF QueueInv, ApartInv
  <1>1. row' = row /\ imported' = imported
    BY DEF JobStep, AnalysisFails, Persist, PersistRefused, ReadBack, MarkFailed,
           MarkFailedRaises, Crash, rows
  <1>2. job' = job \/ job' = [job EXCEPT ![w] = NoJob]
    BY DEF JobStep, AnalysisFails, Persist, PersistRefused, ReadBack, MarkFailed,
           MarkFailedRaises, Crash
  <1>3. ASSUME NEW v \in Workers PROVE job'[v] \in {job[v], NoJob}
    BY <1>0, <1>2 DEF TypeOK
  <1>4. ASSUME NEW v \in Workers, job'[v] # NoJob, Found(job[v]) PROVE Kept(job[v].call)'
    <2>1. job[v] \in Job /\ job'[v] = job[v] /\ Kept(job[v].call)
      BY <1>0, <1>3, <1>4 DEF JobKept
    <2>2. CASE Persist(w)
      <3>1. job[w].call \in Calls
        BY <2>2, JobOfRow DEF Persist
      <3>2. SetStatus(job[w].call, "completed")
        BY <2>2 DEF Persist
      <3> QED
        BY <1>0, <2>1, <3>1, <3>2 DEF SetStatus, Kept, Job, TypeOK
    <2>3. CASE MarkFailed(w)
      <3>1. job[w] \in Job /\ Found(job[w])
        BY <1>0, <2>3, QueueAssumptions DEF MarkFailed, QueueInv, JobOK
      <3>2. v # w
        BY <1>0, <1>4, <2>3 DEF MarkFailed, TypeOK
      <3>3. job[v].call # job[w].call
        BY <1>4, <2>1, <3>1, <3>2, SameRowSameJob DEF ApartInv
      <3>4. SetStatus(job[w].call, "failed")
        BY <2>3 DEF MarkFailed
      <3> QED
        BY <1>0, <2>1, <3>3, <3>4 DEF SetStatus, Kept, Job, TypeOK
    <2>4. CASE status' = status /\ stale' = stale
      BY <2>1, <2>4 DEF Kept
    <2> QED
      BY <2>2, <2>3, <2>4 DEF JobStep, AnalysisFails, PersistRefused, ReadBack,
                              MarkFailedRaises, Crash, rows
  <1>5. ASSUME NEW v \in Workers PROVE JobKept(v)'
    <2>1. CASE job'[v] = NoJob
      BY <2>1 DEF JobKept
    <2>2. CASE job'[v] # NoJob
      BY <1>0, <1>1, <1>3, <1>4, <2>2 DEF JobKept, Found
    <2> QED
      BY <2>1, <2>2
  <1>6. JobsAreApart'
    BY <1>3 DEF ApartInv, JobsAreApart
  <1> QED
    BY <1>5, <1>6 DEF ApartInv

(* A request queues what is neither processing nor completed, and a deletion
   takes the row away from the job.                                          *)
LEMMA RequestKeepsJobs ==
    ASSUME QueueInv, ApartInv, NEW q \in Requests,
           Ask(q) \/ Queue(q) \/ QueueRefused(q) \/ Delete(q),
           NEW v \in Workers
    PROVE  JobKept(v)'
  <1>0. TypeOK /\ JobKept(v) /\ ReqOK(q) /\ UNCHANGED works /\ imported' = imported
    BY DEF QueueInv, ApartInv, Ask, Queue, QueueRefused, Delete, rows
  <1>1. CASE Ask(q) \/ QueueRefused(q)
    BY <1>0, <1>1 DEF Ask, QueueRefused, rows, works, JobKept, Found, Kept
  <1>2. CASE Queue(q)
    <2>1. /\ req[q].call \in Calls
          /\ status[req[q].call] \notin {"completed", "processing"}
          /\ SetStatus(req[q].call, "pending")
          /\ row' = row
      BY <1>0, <1>2 DEF Queue, MayQueue, ReqOK
    <2>2. ASSUME NEW c \in Calls, Kept(c) PROVE Kept(c)'
      BY <1>0, <2>1, <2>2 DEF SetStatus, Kept, TypeOK
    <2> QED
      BY <1>0, <2>1, <2>2 DEF works, JobKept, Job, Found
  <1>3. CASE Delete(q)
    <2>1. PICK c \in Calls : row' = [row EXCEPT ![c] = 0] /\ SetStatus(c, "pending")
      BY <1>3 DEF Delete
    <2>2. ASSUME job[v] # NoJob, Found(job[v])' PROVE job[v].call # c /\ Found(job[v])
      BY <1>0, <2>1, <2>2 DEF JobKept, Job, Found, works, TypeOK
    <2>3. ASSUME NEW d \in Calls, d # c, Kept(d) PROVE Kept(d)'
      BY <1>0, <2>1, <2>3 DEF SetStatus, Kept, TypeOK
    <2> QED
      BY <1>0, <2>2, <2>3 DEF works, JobKept, Job, Found
  <1> QED
    BY <1>1, <1>2, <1>3

(* The claim of a worker that is at it does not become stale. *)
LEMMA TimeKeepsJobs ==
    ASSUME ~Overruns, QueueInv, ApartInv, NEW c \in Calls, GrowStale(c) \/ GrowOld(c),
           NEW v \in Workers
    PROVE  JobKept(v)'
  <1>0. TypeOK /\ JobKept(v) /\ UNCHANGED <<works, row, status, imported>>
    BY DEF QueueInv, ApartInv, GrowStale, GrowOld, rows
  <1>1. CASE GrowOld(c)
    BY <1>0, <1>1 DEF GrowOld, rows, works, JobKept, Found, Kept
  <1>2. CASE GrowStale(c)
    <2>1. job[v] # [call |-> c, id |-> row[c]] /\ stale' = [stale EXCEPT ![c] = TRUE]
      BY <1>2 DEF GrowStale
    <2>2. ASSUME job[v] # NoJob, Found(job[v]) PROVE job[v].call # c
      BY <1>0, <2>1, <2>2 DEF JobKept, Job, Found
    <2> QED
      BY <1>0, <2>1, <2>2 DEF works, JobKept, Job, Found, Kept, TypeOK
  <1> QED
    BY <1>1, <1>2

(* Held jobs stay apart and kept. *)
LEMMA ApartInvStep ==
    ASSUME ~Overruns
    PROVE  QueueInv /\ ApartInv /\ [Next]_vars => ApartInv'
  <1> SUFFICES ASSUME QueueInv, ApartInv, [Next]_vars PROVE ApartInv'
    OBVIOUS
  <1>1. ASSUME job' = job, \A v \in Workers : JobKept(v)' PROVE ApartInv'
    BY <1>1 DEF ApartInv, JobsAreApart
  <1>2. ASSUME NEW s \in Syncs, SyncOpen(s) \/ SyncStep(s) \/ SyncFail(s) PROVE ApartInv'
    <2>1. job' = job
      BY <1>2 DEF SyncOpen, SyncStep, SyncFail, SyncCheck, SyncWrite, SyncCommit, works
    <2> QED
      BY <1>1, <1>2, <2>1, SyncKeepsJobs
  <1>3. ASSUME NEW w \in Workers, Start(w) PROVE ApartInv'
    BY <1>1, <1>3, StartKeepsJobs DEF Start
  <1>4. ASSUME NEW w \in Workers, Claim(w) \/ JobStep(w) \/ Crash(w) PROVE ApartInv'
    BY <1>4, ClaimKeepsJobs, JobStepKeepsJobs
  <1>5. ASSUME NEW q \in Requests, Ask(q) \/ Queue(q) \/ QueueRefused(q) \/ Delete(q)
        PROVE  ApartInv'
    <2>1. job' = job
      BY <1>5 DEF Ask, Queue, QueueRefused, Delete, works
    <2> QED
      BY <1>1, <1>5, <2>1, RequestKeepsJobs
  <1>6. ASSUME NEW c \in Calls, GrowStale(c) \/ GrowOld(c) PROVE ApartInv'
    <2>1. job' = job
      BY <1>6 DEF GrowStale, GrowOld, works
    <2> QED
      BY <1>1, <1>6, <2>1, TimeKeepsJobs
  <1>7. CASE UNCHANGED vars
    BY <1>7 DEF vars, ApartInv, JobsAreApart, JobKept, Found, Kept
  <1> QED
    BY <1>2, <1>3, <1>4, <1>5, <1>6, <1>7 DEF Next

(* Nobody has a job at the beginning. *)
LEMMA ApartInvInit == Init => ApartInv
  BY DEF Init, ApartInv, JobsAreApart, JobKept

(* As long as no job outlasts the stale minutes, no row is with two workers,
   however many of them there are, whenever they are killed and restarted,
   whatever is asked for, deleted and imported meanwhile, and with connections
   that are lost.                                                            *)
THEOREM JobsApart ==
    ASSUME ~Overruns
    PROVE  Spec => []JobsAreApart
  <1>1. Init => QueueInv /\ ApartInv
    BY QueueInvInit, ApartInvInit
  <1>2. QueueInv /\ ApartInv /\ [Next]_vars => (QueueInv /\ ApartInv)'
    BY QueueInvStep, ApartInvStep
  <1>3. ApartInv => JobsAreApart
    BY DEF ApartInv
  <1> QED
    BY <1>1, <1>2, <1>3, PTL DEF Spec

-----------------------------------------------------------------------------
(* Predictions and 'completed' *)

(* A worker that can still mark its call failed has stored nothing for it: the
   row, if it is there, is as the claim left it.                             *)
Unstored(w) ==
    worker[w] \in {"working", "failing"} /\ Found(job[w]) =>
        status[job[w].call] = "processing"

CompletedInv == PredictedIsCompleted /\ \A w \in Workers : Unstored(w)

(* A call that keeps its prediction stays completed unless its status is set,
   which happens to calls without one.                                       *)
LEMMA CompletedUntouched ==
    ASSUME PredictedIsCompleted, NEW c \in Calls,
           \/ prediction'[c] = NotMade
           \/ status'[c] = "completed"
           \/ prediction'[c] = prediction[c] /\ status'[c] = status[c]
    PROVE  prediction'[c] # NotMade => status'[c] = "completed"
  BY DEF PredictedIsCompleted

LEMMA CompletedStep ==
    ASSUME QueueInv, CompletedInv, Next
    PROVE  PredictedIsCompleted'
  <1> SUFFICES ASSUME NEW c \in Calls
               PROVE  prediction'[c] # NotMade => status'[c] = "completed"
    BY DEF PredictedIsCompleted
  <1>0. TypeOK /\ CallOK(c) /\ PredictedIsCompleted
    BY DEF QueueInv, CompletedInv
  <1>1. CASE UNCHANGED <<prediction, status>>
    BY <1>0, <1>1, CompletedUntouched
  <1>2. ASSUME NEW s \in Syncs, SyncCommit(s)
        PROVE  prediction'[c] # NotMade => status'[c] = "completed"
    <2>1. prediction' = prediction /\ (status'[c] = status[c] \/ row[c] = 0)
      BY <1>0, <1>2 DEF SyncCommit, Exists
    <2> QED
      BY <1>0, <2>1, CompletedUntouched DEF CallOK, RowOK
  <1>3. ASSUME NEW w \in Workers, Start(w) \/ Claim(w)
        PROVE  prediction'[c] # NotMade => status'[c] = "completed"
    <2>1. prediction' = prediction
      BY <1>3 DEF Start, Claim
    <2>2. status'[c] = status[c] \/ prediction[c] = NotMade
      BY <1>0, <1>3 DEF Start, Requeueable, Claim, Claimable, SetStatus, TypeOK
    <2> QED
      BY <1>0, <2>1, <2>2, CompletedUntouched
  <1>4. ASSUME NEW w \in Workers, Persist(w)
        PROVE  prediction'[c] # NotMade => status'[c] = "completed"
    <2>1. \/ status'[c] = "completed"
          \/ prediction'[c] = prediction[c] /\ status'[c] = status[c]
      BY <1>0, <1>4 DEF Persist, SetStatus, TypeOK
    <2> QED
      BY <1>0, <2>1, CompletedUntouched
  <1>5. ASSUME NEW w \in Workers, MarkFailed(w)
        PROVE  prediction'[c] # NotMade => status'[c] = "completed"
    <2>1. job[w].call \in Calls /\ status[job[w].call] = "processing"
      BY <1>5, JobOfRow DEF MarkFailed, CompletedInv, Unstored
    <2>2. prediction[job[w].call] = NotMade
      BY <2>1 DEF QueueInv, CallOK, AnalyzedOnceOf
    <2>3. prediction' = prediction /\ (status'[c] = status[c] \/ c = job[w].call)
      BY <1>0, <1>5, <2>1 DEF MarkFailed, SetStatus, TypeOK
    <2> QED
      BY <1>0, <2>2, <2>3, CompletedUntouched
  <1>6. ASSUME NEW q \in Requests, Queue(q)
        PROVE  prediction'[c] # NotMade => status'[c] = "completed"
    <2>1. prediction' = prediction /\ (status'[c] = status[c] \/ status[c] # "completed")
      BY <1>0, <1>6 DEF Queue, MayQueue, SetStatus, TypeOK
    <2> QED
      BY <1>0, <2>1 DEF PredictedIsCompleted
  <1>7. ASSUME NEW q \in Requests, Delete(q)
        PROVE  prediction'[c] # NotMade => status'[c] = "completed"
    <2>1. prediction'[c] = NotMade \/ (prediction'[c] = prediction[c] /\ status'[c] = status[c])
      BY <1>0, <1>7 DEF Delete, SetStatus, TypeOK
    <2> QED
      BY <1>0, <2>1, CompletedUntouched
  <1> QED
    BY <1>1, <1>2, <1>3, <1>4, <1>5, <1>6, <1>7
       DEF Next, SyncOpen, SyncStep, SyncFail, SyncCheck, SyncWrite, JobStep,
           AnalysisFails, PersistRefused, ReadBack, MarkFailedRaises, Crash,
           Ask, QueueRefused, GrowStale, GrowOld, rows

(* A job's row that is there has been there all along; its status is set only by
   its worker, because no restart, request or other worker takes it.         *)
LEMMA UnstoredStep ==
    ASSUME ~ConnectionLoss, QueueInv, ApartInv, CompletedInv, Next, NEW v \in Workers,
           worker'[v] \in {"working", "failing"}
    PROVE  Unstored(v)'
  <1>0. TypeOK /\ Unstored(v) /\ JobKept(v) /\ JobOK(v) /\ NoJob \notin Job
    BY QueueAssumptions DEF QueueInv, CompletedInv, ApartInv, Job, NoJob
  <1>1. ASSUME worker[v] \in {"working", "failing"}, job'[v] = job[v],
               Found(job[v])' => Found(job[v]) /\ status'[job[v].call] = status[job[v].call]
        PROVE  Unstored(v)'
    BY <1>0, <1>1 DEF Unstored
  <1>2. ASSUME UNCHANGED <<worker, job, row, status>> PROVE Unstored(v)'
    BY <1>0, <1>2 DEF Unstored, Found
  <1>3. ASSUME NEW s \in Syncs, SyncCommit(s) PROVE Unstored(v)'
    <2> DEFINE c == job[v].call
    <2>1. /\ UNCHANGED works
          /\ c \in Calls /\ job[v].id \in 1 .. imported[c]
      BY <1>0, <1>3 DEF SyncCommit, works, JobKept, JobOK, Job
    <2>2. CASE c \in written[s] /\ row[c] = 0
      <3>1. row'[c] = imported[c] + 1
        BY <1>0, <1>3, <2>1, <2>2 DEF SyncCommit, Exists, TypeOK
      <3>2. imported[c] \in Nat
        BY <1>0, <2>1, IdsAreNumbers DEF TypeOK
      <3>3. row'[c] # job[v].id
        BY <2>1, <3>1, <3>2
      <3> QED
        BY <2>1, <3>3 DEF Unstored, Found, works
    <2>3. CASE ~(c \in written[s] /\ row[c] = 0)
      <3>1. row'[c] = row[c] /\ status'[c] = status[c]
        BY <1>0, <1>3, <2>1, <2>3 DEF SyncCommit, Exists, TypeOK
      <3> QED
        BY <1>0, <2>1, <3>1 DEF Unstored, Found, works
    <2> QED
      BY <2>2, <2>3
  <1>4. ASSUME NEW w \in Workers, Start(w) PROVE Unstored(v)'
    <2>1. v # w /\ worker'[v] = worker[v] /\ job' = job /\ row' = row
      BY <1>0, <1>4 DEF Start, TypeOK
    <2>2. job[v] \in Job /\ (Found(job[v]) => Kept(job[v].call))
      BY <1>0, <2>1 DEF JobKept, JobOK
    <2>3. Found(job[v]) => status'[job[v].call] = status[job[v].call]
      BY <1>0, <1>4, <2>2 DEF Start, Requeueable, Kept, Job, TypeOK
    <2> QED
      BY <1>0, <2>1, <2>3 DEF Unstored, Found
  <1>5. ASSUME NEW w \in Workers, Claim(w) PROVE Unstored(v)'
    <2>1. PICK c \in Calls :
              /\ SetStatus(c, "processing")
              /\ job' = [job EXCEPT ![w] = [call |-> c, id |-> row[c]]]
      BY <1>5 DEF Claim
    <2>2. row' = row /\ worker' = [worker EXCEPT ![w] = "working"]
      BY <1>5 DEF Claim
    <2>3. CASE v = w
      BY <1>0, <2>1, <2>3 DEF SetStatus, Unstored, TypeOK
    <2>4. CASE v # w
      <3>1. worker'[v] = worker[v] /\ job'[v] = job[v] /\ job[v].call \in Calls
        BY <1>0, <2>1, <2>2, <2>4 DEF TypeOK, JobOK, Job
      <3>2. status'[job[v].call] \in {status[job[v].call], "processing"}
        BY <1>0, <2>1, <3>1 DEF SetStatus, TypeOK
      <3> QED
        BY <1>0, <2>2, <3>1, <3>2 DEF Unstored, Found
    <2> QED
      BY <2>3, <2>4
  <1>6. ASSUME NEW w \in Workers, Persist(w) \/ MarkFailed(w) PROVE Unstored(v)'
    <2>1. /\ v # w /\ worker'[v] = worker[v] /\ job'[v] = job[v] /\ row' = row
          /\ worker[w] \in {"working", "failing"} /\ Found(job[w])
      BY <1>0, <1>6 DEF Persist, MarkFailed, TypeOK
    <2>2. job[v] \in Job /\ job[w] \in Job
      BY <1>0, <2>1 DEF JobOK, QueueInv
    <2>3. Found(job[v]) => job[v].call # job[w].call
      BY <2>1, <2>2, SameRowSameJob DEF ApartInv
    <2>4. Found(job[v]) => status'[job[v].call] = status[job[v].call]
      BY <1>0, <1>6, <2>2, <2>3 DEF Persist, MarkFailed, SetStatus, Job, TypeOK
    <2> QED
      BY <1>0, <2>1, <2>4 DEF Unstored, Found
  <1>7. ASSUME NEW w \in Workers,
               AnalysisFails(w) \/ PersistRefused(w) \/ ReadBack(w) \/ MarkFailedRaises(w)
               \/ Crash(w)
        PROVE  Unstored(v)'
    <2>1. row' = row /\ status' = status
      BY <1>7 DEF AnalysisFails, PersistRefused, ReadBack, MarkFailedRaises, Crash, rows
    <2>2. CASE v # w
      BY <1>0, <1>7, <2>1, <2>2
         DEF AnalysisFails, PersistRefused, ReadBack, MarkFailedRaises, Crash,
             Unstored, Found, TypeOK
    <2>3. CASE v = w /\ worker[w] = "working"
      BY <1>0, <1>7, <2>1, <2>3
         DEF AnalysisFails, PersistRefused, ReadBack, MarkFailedRaises, Crash,
             Unstored, Found, TypeOK
    <2>4. CASE v = w /\ worker[w] # "working"
      <3>1. ~Found(job[v]) /\ job' = job
        BY <1>0, <1>7, <2>4
           DEF AnalysisFails, PersistRefused, ReadBack, MarkFailedRaises, Crash, TypeOK
      <3> QED
        BY <2>1, <3>1 DEF Unstored, Found
    <2> QED
      BY <2>2, <2>3, <2>4
  <1>8. ASSUME NEW q \in Requests, Queue(q) PROVE Unstored(v)'
    <2>1. /\ UNCHANGED works /\ row' = row
          /\ status[req[q].call] \notin {"completed", "processing"}
          /\ SetStatus(req[q].call, "pending")
      BY <1>8 DEF Queue, MayQueue
    <2>2. job[v].call \in Calls
      BY <1>0, <2>1 DEF works, JobOK, Job
    <2>3. status[job[v].call] = "processing" => status'[job[v].call] = "processing"
      BY <1>0, <2>1, <2>2 DEF SetStatus, TypeOK
    <2> QED
      BY <1>0, <2>1, <2>3 DEF Unstored, Found, works
  <1>9. ASSUME NEW q \in Requests, Delete(q) PROVE Unstored(v)'
    <2>1. UNCHANGED works
      BY <1>9 DEF Delete
    <2>2. job[v].call \in Calls /\ job[v].id # 0
      BY <1>0, <2>1 DEF works, JobOK, Job
    <2>3. PICK c \in Calls : row' = [row EXCEPT ![c] = 0] /\ SetStatus(c, "pending")
      BY <1>9 DEF Delete
    <2>4. row'[job[v].call] = job[v].id =>
              Found(job[v]) /\ status'[job[v].call] = status[job[v].call]
      BY <1>0, <2>2, <2>3 DEF SetStatus, Found, TypeOK
    <2> QED
      BY <1>0, <2>1, <2>4 DEF Unstored, Found, works
  <1> QED
    BY <1>2, <1>3, <1>4, <1>5, <1>6, <1>7, <1>8, <1>9
       DEF Next, SyncOpen, SyncStep, SyncFail, SyncCheck, SyncWrite, JobStep,
           Ask, QueueRefused, GrowStale, GrowOld, rows, works

(* The invariants of calls, jobs and results are inductive together. *)
ServedInv == QueueInv /\ ApartInv /\ CompletedInv

LEMMA ServedInvInit == Init => ServedInv
  BY QueueInvInit, ApartInvInit
     DEF Init, ServedInv, CompletedInv, PredictedIsCompleted, Unstored

LEMMA ServedInvStep ==
    ASSUME ~Overruns, ~ConnectionLoss
    PROVE  ServedInv /\ [Next]_vars => ServedInv'
  <1> SUFFICES ASSUME ServedInv, [Next]_vars PROVE CompletedInv'
    BY QueueInvStep, ApartInvStep DEF ServedInv
  <1>1. CASE Next
    <2>1. ASSUME NEW v \in Workers PROVE Unstored(v)'
      BY <1>1, UnstoredStep DEF ServedInv, Unstored
    <2> QED
      BY <1>1, <2>1, CompletedStep DEF ServedInv, CompletedInv
  <1>2. CASE UNCHANGED vars
    BY <1>2 DEF vars, ServedInv, CompletedInv, PredictedIsCompleted, Unstored, Found
  <1> QED
    BY <1>1, <1>2

(* As long as no job outlasts the stale minutes and no connection is lost after
   a commit, 'completed' and the prediction go together, for any number of
   workers and requests: a refusal or a NotFoundError marks nothing failed that
   was stored.                                                               *)
THEOREM PredictedCompleted ==
    ASSUME ~Overruns, ~ConnectionLoss
    PROVE  Spec => []PredictedIsCompleted
  <1>1. ServedInv => PredictedIsCompleted
    BY DEF ServedInv, CompletedInv
  <1> QED
    BY <1>1, ServedInvInit, ServedInvStep, PTL DEF Spec

-----------------------------------------------------------------------------
(* The queue implements CallLifecycle *)

(* The row of an owner is there and in processing, the claim is fresh, and there
   is no other owner, nor another call of this one.                          *)
LEMMA OwnerAlone ==
    ASSUME ServedInv, NEW c \in Calls, NEW w \in Owners(c)
    PROVE  /\ Exists(c) /\ status[c] = "processing" /\ ~stale[c]
           /\ Owners(c) = {w}
           /\ \A d \in Calls : w \in Owners(d) => d = c
  <1>1. /\ w \in Workers /\ worker[w] \in {"working", "failing"}
        /\ job[w] = [call |-> c, id |-> row[c]]
    BY DEF Owners
  <1>2. job[w] \in Job /\ job[w].id # 0 /\ job[w] # NoJob
    BY <1>1, QueueAssumptions DEF ServedInv, QueueInv, JobOK, Job, NoJob
  <1>3. Found(job[w]) /\ Kept(c) /\ status[c] = "processing"
    BY <1>1, <1>2 DEF ServedInv, ApartInv, CompletedInv, JobKept, Unstored, Found
  <1>4. Owners(c) = {w}
    BY <1>1, <1>2 DEF ServedInv, ApartInv, JobsAreApart, Owners
  <1> QED
    BY <1>1, <1>2, <1>3, <1>4 DEF Exists, Kept, Owners

(* Nobody owns a call that is not in processing. *)
LEMMA OnlyProcessingOwned ==
    ASSUME ServedInv, NEW c \in Calls, ~Exists(c) \/ status[c] # "processing" \/ stale[c]
    PROVE  Owners(c) = {}
  <1>1. Owners(c) # {} => \E w : w \in Owners(c)
    OBVIOUS
  <1> QED
    BY <1>1, OwnerAlone

(* A call keeps its owners when their places and jobs and its row stay. *)
LEMMA SameOwners ==
    ASSUME NEW c \in Calls, row'[c] = row[c],
           \A w \in Workers : w \in Owners(c) \/ w \in Owners(c)' =>
                worker'[w] = worker[w] /\ job'[w] = job[w]
    PROVE  Owners(c)' = Owners(c)
  <1>1. ASSUME NEW w \in Workers PROVE w \in Owners(c)' <=> w \in Owners(c)
    BY <1>1 DEF Owners
  <1> QED
    BY <1>1 DEF Owners

States == [c \in Calls |-> StateOf(c)]
Owned  == [c \in Calls |-> Owners(c)]

(* A step that moves one call, and one that moves none. *)
LEMMA MovesOne ==
    ASSUME NEW c \in Calls,
           \A d \in Calls \ {c} : StateOf(d)' = StateOf(d) /\ Owners(d)' = Owners(d)
    PROVE  /\ States' = [States EXCEPT ![c] = StateOf(c)']
           /\ Owned' = [Owned EXCEPT ![c] = Owners(c)']
  BY DEF States, Owned

LEMMA MovesNone ==
    ASSUME \A c \in Calls : StateOf(c)' = StateOf(c) /\ Owners(c)' = Owners(c)
    PROVE  UNCHANGED <<States, Owned>>
  BY DEF States, Owned

(* The commit of a sync imports the calls that had no row. *)
LEMMA SyncCommitImports ==
    ASSUME ServedInv, NEW s \in Syncs, SyncCommit(s)
    PROVE  Lifecycle!Next
  <1> DEFINE new == {c \in written[s] : ~Exists(c)}
  <1>0. /\ TypeOK /\ UNCHANGED works /\ new \subseteq Calls
        /\ \A c \in Calls : CallOK(c)
        /\ \A w \in Workers : JobOK(w) /\ JobKept(w)
    BY DEF ServedInv, QueueInv, ApartInv, SyncCommit, TypeOK
  <1>1. ASSUME NEW c \in new PROVE StateOf(c)' = "pending" /\ Owners(c)' = Owners(c)
    <2>1. c \in Calls /\ imported[c] \in Nat /\ row[c] = 0
      BY <1>0, <1>1, IdsAreNumbers DEF TypeOK, Exists
    <2>2. row'[c] = imported[c] + 1 /\ status'[c] = "pending"
      BY <1>0, <2>1 DEF SyncCommit, Exists
    <2>3. row'[c] # 0
      BY <2>1, <2>2
    <2>4. Owners(c) = {}
      BY <2>1, OnlyProcessingOwned DEF Exists
    <2>5. ASSUME NEW w \in Workers, w \in Owners(c)' PROVE FALSE
      <3>1. worker[w] \in {"working", "failing"} /\ job[w].call = c /\ job[w].id = row'[c]
        BY <1>0, <2>5 DEF Owners, works
      <3>2. job[w] # NoJob
        BY <2>1, <3>1, QueueAssumptions DEF NoJob
      <3>3. job[w].id \in 1 .. imported[c]
        BY <1>0, <3>1, <3>2 DEF JobKept
      <3> QED
        BY <2>1, <2>2, <3>1, <3>3
    <2>6. Owners(c)' = {}
      BY <2>5 DEF Owners
    <2> QED
      BY <2>2, <2>3, <2>4, <2>6 DEF StateOf, Exists
  <1>2. ASSUME NEW c \in Calls \ new PROVE StateOf(c)' = StateOf(c) /\ Owners(c)' = Owners(c)
    <2>1. row'[c] = row[c] /\ status'[c] = status[c]
      BY <1>0, <1>2 DEF SyncCommit, Exists
    <2> QED
      BY <1>0, <2>1, SameOwners DEF StateOf, Exists, works
  <1>3. \A c \in new : StateOf(c) = "absent"
    BY DEF StateOf
  <1> HIDE DEF new
  <1>4. Lifecycle!Import(new)
    BY <1>0, <1>1, <1>2, <1>3 DEF Lifecycle!Import, Lifecycle!BecomePending
  <1> QED
    BY <1>0, <1>4 DEF Lifecycle!Next

(* A restart puts back calls whose owners were lost. *)
LEMMA StartRecovers ==
    ASSUME ServedInv, NEW w \in Workers, Start(w)
    PROVE  Lifecycle!Next
  <1> DEFINE lost == {c \in Calls : Requeueable(c)}
  <1>0. TypeOK /\ job' = job /\ row' = row /\ worker' = [worker EXCEPT ![w] = "polling"]
        /\ worker[w] = "down"
    BY DEF ServedInv, QueueInv, Start
  <1>1. ASSUME NEW c \in Calls PROVE Owners(c)' = Owners(c)
    BY <1>0 DEF Owners, TypeOK
  <1>2. ASSUME NEW c \in lost
        PROVE  StateOf(c) = "processing" /\ Owners(c) = {} /\ StateOf(c)' = "pending"
    BY <1>0, OnlyProcessingOwned DEF Start, Requeueable, StateOf, Exists
  <1>3. ASSUME NEW c \in Calls \ lost PROVE StateOf(c)' = StateOf(c)
    BY <1>0 DEF Start, StateOf, Exists
  <1>4. lost \in SUBSET Calls
    OBVIOUS
  <1> HIDE DEF lost
  <1>5. Lifecycle!Recover(lost)
    BY <1>1, <1>2, <1>3, <1>4 DEF Lifecycle!Recover, Lifecycle!BecomePending
  <1> QED
    BY <1>4, <1>5 DEF Lifecycle!Next

(* A claim takes a pending call, which nobody owns, for a worker without one. *)
LEMMA ClaimTakes ==
    ASSUME ServedInv, NEW w \in Workers, Claim(w)
    PROVE  Lifecycle!Next
  <1>0. TypeOK /\ row' = row /\ worker[w] = "polling" /\ worker' = [worker EXCEPT ![w] = "working"]
    BY DEF ServedInv, QueueInv, Claim
  <1>1. PICK c \in Calls :
            /\ Exists(c) /\ status[c] = "pending"
            /\ SetStatus(c, "processing")
            /\ job' = [job EXCEPT ![w] = [call |-> c, id |-> row[c]]]
    BY DEF Claim, Claimable
  <1>2. /\ \A d \in Calls : status'[d] = IF d = c THEN "processing" ELSE status[d]
        /\ \A v \in Workers \ {w} : worker'[v] = worker[v] /\ job'[v] = job[v]
        /\ worker'[w] = "working" /\ job'[w] = [call |-> c, id |-> row[c]]
    BY <1>0, <1>1 DEF SetStatus, TypeOK
  <1>3. Owners(c) = {} /\ \A d \in Calls : w \notin Owners(d)
    BY <1>0, <1>1, OnlyProcessingOwned DEF Owners
  <1>4. StateOf(c) = "pending" /\ StateOf(c)' = "processing"
    BY <1>0, <1>1, <1>2 DEF StateOf, Exists
  <1>5. ASSUME NEW v \in Workers PROVE v \in Owners(c)' <=> v = w
    BY <1>0, <1>2, <1>3 DEF Owners
  <1>6. Owners(c)' = {w}
    BY <1>5 DEF Owners
  <1>7. ASSUME NEW d \in Calls \ {c} PROVE StateOf(d)' = StateOf(d) /\ Owners(d)' = Owners(d)
    <2>1. w \notin Owners(d)'
      BY <1>2 DEF Owners
    <2> QED
      BY <1>0, <1>2, <1>3, <2>1, SameOwners DEF StateOf, Exists, Owners
  <1>8. Lifecycle!Take(c, w)
    BY <1>3, <1>4, <1>6, <1>7, MovesOne
       DEF Lifecycle!Take, Lifecycle!Become, States, Owned
  <1> QED
    BY <1>8 DEF Lifecycle!Next

(* A worker that owns a call and gives it up is its only owner; what becomes of
   the call is for the step to say.                                          *)
LEMMA OwnerLetsGo ==
    ASSUME ServedInv, NEW c \in Calls, NEW w \in Owners(c), row' = row,
           \A d \in Calls \ {c} : status'[d] = status[d],
           w \notin Owners(c)',
           \A v \in Workers \ {w} : worker'[v] = worker[v] /\ job'[v] = job[v],
           job'[w] \in {job[w], NoJob}
    PROVE  /\ Owners(c) = {w}
           /\ States' = [States EXCEPT ![c] = StateOf(c)']
           /\ Owned' = [Owned EXCEPT ![c] = {}]
  <1>1. Owners(c) = {w} /\ w \in Workers /\ job[w].call = c
    BY OwnerAlone DEF Owners
  <1>2. ASSUME NEW v \in Workers PROVE v \notin Owners(c)'
    BY <1>1 DEF Owners
  <1>3. Owners(c)' = {}
    BY <1>2 DEF Owners
  <1>4. ASSUME NEW d \in Calls \ {c} PROVE StateOf(d)' = StateOf(d) /\ Owners(d)' = Owners(d)
    <2>1. w \notin Owners(d) /\ w \notin Owners(d)'
      BY <1>1, QueueAssumptions DEF Owners, NoJob
    <2> QED
      BY <2>1, SameOwners DEF StateOf, Exists, Owners
  <1> QED
    BY <1>1, <1>3, <1>4, MovesOne

(* The owner alone completes its call, fails it, or is lost. *)
LEMMA PersistCompletes ==
    ASSUME ServedInv, NEW w \in Workers, Persist(w)
    PROVE  Lifecycle!Next
  <1>0. /\ TypeOK /\ row' = row /\ job' = job
        /\ worker' = [worker EXCEPT ![w] = "stored"]
        /\ worker[w] = "working" /\ Found(job[w])
    BY DEF ServedInv, QueueInv, Persist
  <1>1. job[w] \in Job
    BY <1>0 DEF ServedInv, QueueInv, JobOK
  <1>2. PICK c \in Calls : c = job[w].call /\ w \in Owners(c) /\ SetStatus(c, "completed")
    BY <1>0, <1>1 DEF Job, Found, Owners, Persist
  <1>3. /\ w \notin Owners(c)'
        /\ \A v \in Workers \ {w} : worker'[v] = worker[v] /\ job'[v] = job[v]
        /\ status'[c] = "completed" /\ \A d \in Calls \ {c} : status'[d] = status[d]
    BY <1>0, <1>2 DEF SetStatus, Owners, TypeOK
  <1>4. Exists(c) /\ StateOf(c)' = "completed"
    BY <1>0, <1>2, <1>3, OwnerAlone DEF StateOf, Exists
  <1>5. Lifecycle!Complete(c, w)
    BY <1>0, <1>2, <1>3, <1>4, OwnerLetsGo
       DEF Lifecycle!Complete, Lifecycle!Become, States, Owned
  <1> QED
    BY <1>2, <1>5 DEF Lifecycle!Next

LEMMA MarkFailedFails ==
    ASSUME ServedInv, NEW w \in Workers, MarkFailed(w)
    PROVE  Lifecycle!Next
  <1>0. /\ TypeOK /\ row' = row /\ job' = [job EXCEPT ![w] = NoJob]
        /\ worker' = [worker EXCEPT ![w] = "polling"]
        /\ worker[w] = "failing" /\ Found(job[w])
    BY DEF ServedInv, QueueInv, MarkFailed
  <1>1. job[w] \in Job
    BY <1>0 DEF ServedInv, QueueInv, JobOK
  <1>2. PICK c \in Calls : c = job[w].call /\ w \in Owners(c) /\ SetStatus(c, "failed")
    BY <1>0, <1>1 DEF Job, Found, Owners, MarkFailed
  <1>3. /\ w \notin Owners(c)' /\ job'[w] = NoJob
        /\ \A v \in Workers \ {w} : worker'[v] = worker[v] /\ job'[v] = job[v]
        /\ status'[c] = "failed" /\ \A d \in Calls \ {c} : status'[d] = status[d]
    BY <1>0, <1>2 DEF SetStatus, Owners, TypeOK
  <1>4. Exists(c) /\ StateOf(c)' = "failed"
    BY <1>0, <1>2, <1>3, OwnerAlone DEF StateOf, Exists
  <1>5. Lifecycle!Fail(c, w)
    BY <1>0, <1>2, <1>3, <1>4, OwnerLetsGo
       DEF Lifecycle!Fail, Lifecycle!Become, States, Owned
  <1> QED
    BY <1>2, <1>5 DEF Lifecycle!Next

(* A worker that owns nothing goes to another place without consequence. *)
LEMMA Ownerless ==
    ASSUME NEW w \in Workers, row' = row, status' = status,
           \A c \in Calls : w \notin Owners(c) /\ w \notin Owners(c)',
           \A v \in Workers \ {w} : worker'[v] = worker[v] /\ job'[v] = job[v]
    PROVE  UNCHANGED <<States, Owned>>
  <1>1. ASSUME NEW c \in Calls PROVE StateOf(c)' = StateOf(c) /\ Owners(c)' = Owners(c)
    BY SameOwners DEF StateOf, Exists, Owners
  <1> QED
    BY <1>1, MovesNone

LEMMA CrashLoses ==
    ASSUME ServedInv, NEW w \in Workers, Crash(w)
    PROVE  Lifecycle!Next \/ UNCHANGED <<States, Owned>>
  <1>0. TypeOK /\ row' = row /\ status' = status /\ job' = [job EXCEPT ![w] = NoJob]
        /\ worker' = [worker EXCEPT ![w] = "down"]
    BY DEF ServedInv, QueueInv, Crash, rows
  <1>1. /\ \A c \in Calls : w \notin Owners(c)'
        /\ job'[w] = NoJob
        /\ \A v \in Workers \ {w} : worker'[v] = worker[v] /\ job'[v] = job[v]
    BY <1>0 DEF Owners, TypeOK
  <1>2. CASE \A c \in Calls : w \notin Owners(c)
    BY <1>0, <1>1, <1>2, Ownerless
  <1>3. ASSUME NEW c \in Calls, w \in Owners(c) PROVE Lifecycle!Next
    <2>1. StateOf(c)' = StateOf(c)
      BY <1>0 DEF StateOf, Exists
    <2>2. Lifecycle!Lose(c, w)
      BY <1>0, <1>1, <1>3, <2>1, OwnerLetsGo
         DEF Lifecycle!Lose, Lifecycle!Become, States, Owned
    <2> QED
      BY <2>2 DEF Lifecycle!Next
  <1> QED
    BY <1>2, <1>3

(* Before it has stored or failed, the owner keeps its call; after, it owns
   nothing, and neither does it when its row is gone.                        *)
LEMMA JobStutters ==
    ASSUME ServedInv, NEW w \in Workers,
           AnalysisFails(w) \/ PersistRefused(w) \/ ReadBack(w) \/ MarkFailedRaises(w),
           ~ConnectionLoss
    PROVE  UNCHANGED <<States, Owned>>
  <1>0. TypeOK /\ row' = row /\ status' = status
    BY DEF ServedInv, QueueInv, AnalysisFails, PersistRefused, ReadBack, MarkFailedRaises, rows
  <1>1. CASE AnalysisFails(w) \/ PersistRefused(w)
    <2>1. worker[w] = "working" /\ worker' = [worker EXCEPT ![w] = "failing"] /\ job' = job
      BY <1>1 DEF AnalysisFails, PersistRefused
    <2>2. ASSUME NEW c \in Calls PROVE StateOf(c)' = StateOf(c) /\ Owners(c)' = Owners(c)
      BY <1>0, <2>1 DEF StateOf, Exists, Owners, TypeOK
    <2> QED
      BY <2>2, MovesNone
  <1>2. CASE ReadBack(w) \/ MarkFailedRaises(w)
    <2>1. \A v \in Workers \ {w} : worker'[v] = worker[v] /\ job'[v] = job[v]
      BY <1>0, <1>2 DEF ReadBack, MarkFailedRaises, TypeOK
    <2>2. worker[w] = "stored" \/ ~Found(job[w])
      BY <1>2 DEF ReadBack, MarkFailedRaises
    <2>3. worker'[w] \in {"polling", "down"} \/ (job'[w] = job[w] /\ ~Found(job[w]))
      BY <1>0, <1>2 DEF ReadBack, MarkFailedRaises, TypeOK
    <2>4. ASSUME NEW c \in Calls PROVE w \notin Owners(c) /\ w \notin Owners(c)'
      BY <1>0, <2>2, <2>3 DEF Owners, Found
    <2> QED
      BY <1>0, <2>1, <2>4, Ownerless
  <1> QED
    BY <1>1, <1>2

(* A request puts a failed call back, or changes nothing of a pending one. *)
LEMMA QueueRetries ==
    ASSUME ServedInv, NEW q \in Requests, Queue(q)
    PROVE  Lifecycle!Next \/ UNCHANGED <<States, Owned>>
  <1>0. TypeOK /\ row' = row /\ UNCHANGED works
    BY DEF ServedInv, QueueInv, Queue
  <1>1. PICK c \in Calls : SetStatus(c, "pending") /\ status[c] \in {"pending", "failed"}
    BY <1>0 DEF ServedInv, QueueInv, ReqOK, Queue, MayQueue, TypeOK, TranscriptionStatuses
  <1>2. \A d \in Calls : Owners(d)' = Owners(d)
    BY <1>0, SameOwners DEF works
  <1>3. status'[c] = "pending" /\ \A d \in Calls \ {c} : StateOf(d)' = StateOf(d)
    BY <1>0, <1>1 DEF SetStatus, StateOf, Exists, TypeOK
  <1>4. CASE StateOf(c) = "failed"
    <2>1. StateOf(c)' = "pending" /\ Owners(c) = {}
      BY <1>0, <1>1, <1>3, <1>4, OnlyProcessingOwned DEF StateOf, Exists
    <2>2. Lifecycle!Retry(c)
      BY <1>0, <1>2, <1>3, <1>4, <2>1, MovesOne
         DEF Lifecycle!Retry, Lifecycle!Become, States, Owned
    <2> QED
      BY <1>0, <2>2 DEF Lifecycle!Next
  <1>5. CASE StateOf(c) # "failed"
    <2>1. StateOf(c)' = StateOf(c)
      BY <1>0, <1>1, <1>3, <1>5 DEF StateOf, Exists
    <2>2. \A d \in Calls : StateOf(d)' = StateOf(d)
      BY <1>3, <2>1
    <2> QED
      BY <1>2, <2>2, MovesNone
  <1> QED
    BY <1>4, <1>5

(* A deletion takes the call from its owner. *)
LEMMA DeleteDeletes ==
    ASSUME ServedInv, NEW q \in Requests, Delete(q)
    PROVE  Lifecycle!Next
  <1>0. TypeOK /\ UNCHANGED works /\ \A w \in Workers : JobOK(w)
    BY DEF ServedInv, QueueInv, Delete
  <1>1. PICK c \in Calls : Exists(c) /\ row' = [row EXCEPT ![c] = 0] /\ SetStatus(c, "pending")
    BY DEF Delete
  <1>2. row'[c] = 0 /\ \A d \in Calls \ {c} : row'[d] = row[d] /\ status'[d] = status[d]
    BY <1>0, <1>1 DEF SetStatus, TypeOK
  <1>3. ASSUME NEW w \in Workers PROVE w \notin Owners(c)'
    BY <1>0, <1>2 DEF Owners, JobOK, works
  <1>4. Owners(c)' = {} /\ StateOf(c)' = "absent"
    BY <1>2, <1>3 DEF Owners, StateOf, Exists
  <1>5. StateOf(c) # "absent"
    BY <1>0, <1>1 DEF StateOf, TypeOK, TranscriptionStatuses
  <1>6. ASSUME NEW d \in Calls \ {c} PROVE StateOf(d)' = StateOf(d) /\ Owners(d)' = Owners(d)
    BY <1>0, <1>2, SameOwners DEF StateOf, Exists, works
  <1>7. Lifecycle!Delete(c)
    BY <1>4, <1>5, <1>6, MovesOne DEF Lifecycle!Delete, Lifecycle!Become, States, Owned
  <1> QED
    BY <1>7 DEF Lifecycle!Next

(* Every step of the queue is one of the lifecycle or moves no call. *)
LEMMA LifecycleStep ==
    ASSUME ~ConnectionLoss, ServedInv, [Next]_vars
    PROVE  Lifecycle!Next \/ UNCHANGED <<States, Owned>>
  <1>1. ASSUME UNCHANGED <<row, status, worker, job>> PROVE UNCHANGED <<States, Owned>>
    BY <1>1 DEF States, Owned, StateOf, Owners, Exists
  <1>2. ASSUME NEW w \in Workers, JobStep(w) PROVE Lifecycle!Next \/ UNCHANGED <<States, Owned>>
    BY <1>2, PersistCompletes, MarkFailedFails, JobStutters DEF JobStep
  <1> QED
    BY <1>1, <1>2, SyncCommitImports, StartRecovers, ClaimTakes, CrashLoses, QueueRetries,
       DeleteDeletes
       DEF Next, vars, SyncOpen, SyncStep, SyncFail, SyncCheck, SyncWrite, Ask, QueueRefused,
           GrowStale, GrowOld, rows, works

(* With jobs that end within the stale minutes and connections that hold, the
   queue implements CallLifecycle: a call that is being analysed is with the
   worker that claimed it, only a lost claim is put back, and what is completed
   stays so, for any number of workers, calls and requests.                  *)
THEOREM CallsHaveLifecycle ==
    ASSUME ~Overruns, ~ConnectionLoss
    PROVE  Spec => CallLifecycleSpec
  <1>1. Init => Lifecycle!Init
    BY QueueAssumptions DEF Init, Lifecycle!Init, StateOf, Exists, Owners
  <1>2. ServedInv /\ [Next]_vars => [Lifecycle!Next]_(Lifecycle!vars)
    BY LifecycleStep DEF Lifecycle!vars, States, Owned
  <1> QED
    BY <1>1, <1>2, ServedInvInit, ServedInvStep, PTL DEF Spec, CallLifecycleSpec, Lifecycle!Spec
=============================================================================
