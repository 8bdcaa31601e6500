--------------------------- MODULE StartupProofs ---------------------------
(***************************************************************************)
(* Proofs about the migrations, for any scripts and any number of          *)
(* processes that migrate at the same time.                                *)
(*                                                                         *)
(* What a process has read of schema_migrations is old, but a row of it is *)
(* never changed.  So the scripts that a process has passed are recorded,  *)
(* in the table as it is and not only in what it has read (ProcessOK).     *)
(***************************************************************************)
EXTENDS Startup, TLAPS

ProcessOK(m) ==
    /\ \A v \in Scripts : known[m][v] # "none" => recorded[v] = known[m][v]
    /\ at[m] \in {"apply", "record"} =>
          \A v \in Scripts : v < next[m] => recorded[v] = "current"
    /\ at[m] = "record" => next[m] \in executed

ServesRecorded == at[App] = "serving" => \A v \in Scripts : recorded[v] = "current"

StartupInv ==
    /\ StartupTypeOK
    /\ ScriptsInOrder
    /\ ServesRecorded
    /\ \A m \in Migrators : ProcessOK(m)

(* One step of the processes that migrate, of whatever kind *)
StartupStep == \E m \in Migrators : Execute(m) \/ Administer(m) \/ Interrupt(m)

-----------------------------------------------------------------------------
(* One process at a time *)

(* What a step does to the tables: rows and effects only ever come to be. *)
Grows == /\ \A v \in Scripts : recorded[v] # "none" => recorded'[v] = recorded[v]
         /\ executed \subseteq executed'

(* What it leaves alone: what the other processes are at *)
OnlyMoves(m) == \A n \in Migrators \ {m} :
    at'[n] = at[n] /\ next'[n] = next[n] /\ known'[n] = known[n]

(* The processes that do not move keep what holds of them. *)
LEMMA OthersOK ==
    ASSUME StartupInv, Grows, NEW m \in Migrators, OnlyMoves(m), ProcessOK(m)'
    PROVE  \A n \in Migrators : ProcessOK(n)'
  <1> SUFFICES ASSUME NEW n \in Migrators, n # m PROVE ProcessOK(n)'
    OBVIOUS
  <1>1. /\ at'[n] = at[n] /\ next'[n] = next[n] /\ known'[n] = known[n]
        /\ ProcessOK(n)
    BY DEF OnlyMoves, StartupInv
  <1>2. \A v \in Scripts : recorded[v] # "none" => recorded'[v] = recorded[v]
    BY DEF Grows
  <1>3. \A v \in Scripts : known'[n][v] # "none" => recorded'[v] = known'[n][v]
    BY <1>1, <1>2 DEF ProcessOK
  <1>4. at'[n] \in {"apply", "record"} =>
           \A v \in Scripts : v < next'[n] => recorded'[v] = "current"
    BY <1>1, <1>2 DEF ProcessOK
  <1>5. at'[n] = "record" => next'[n] \in executed'
    BY <1>1 DEF ProcessOK, Grows
  <1> QED
    BY <1>3, <1>4, <1>5 DEF ProcessOK

(* How a process leaves migrate(), in whatever stage it ends up. *)
LEMMA LeaveStep ==
    ASSUME StartupInv, NEW m \in Migrators, NEW stage \in {"down", "serving", "ended"},
           Leave(m, stage), UNCHANGED <<executed, recorded>>, faults' \in 0 .. MaxFaults,
           m = App /\ stage = "serving" => \A v \in Scripts : recorded[v] = "current"
    PROVE  StartupInv'
  <1>1. Unread \in [Scripts -> Records]
    BY DEF Unread, Records
  <1>2. StartupTypeOK'
    BY <1>1, StartupAssumption DEF StartupInv, StartupTypeOK, Leave, Stages
  <1>3. ScriptsInOrder'
    BY DEF StartupInv, ScriptsInOrder, Recorded
  <1>4. at'[m] = stage /\ known'[m] = Unread
    BY DEF Leave, StartupInv, StartupTypeOK
  <1>5. OnlyMoves(m)
    BY DEF OnlyMoves, Leave, StartupInv, StartupTypeOK
  <1>6. ServesRecorded'
    <2>1. CASE m = App
      BY <1>4, <2>1 DEF ServesRecorded
    <2>2. CASE m # App
      BY <1>5, <2>2 DEF ServesRecorded, StartupInv, OnlyMoves, Migrators
    <2> QED
      BY <2>1, <2>2
  <1>7. ProcessOK(m)'
    BY <1>4 DEF ProcessOK, Unread
  <1>8. Grows
    BY DEF Grows
  <1>9. \A n \in Migrators : ProcessOK(n)'
    BY <1>5, <1>7, <1>8, OthersOK
  <1> QED
    BY <1>2, <1>3, <1>6, <1>9 DEF StartupInv

(* An exception ends migrate(). *)
LEMMA StopStep ==
    ASSUME StartupInv, NEW m \in Migrators, Stop(m), UNCHANGED <<executed, recorded>>,
           faults' \in 0 .. MaxFaults
    PROVE  StartupInv'
  <1>1. CASE m = App
    <2>1. Leave(m, "down")
      BY <1>1 DEF Stop
    <2> QED
      BY <2>1, LeaveStep
  <1>2. CASE m # App
    <2>1. Leave(m, "ended")
      BY <1>2 DEF Stop
    <2> QED
      BY <2>1, LeaveStep
  <1> QED
    BY <1>1, <1>2

(* Reading schema_migrations: what is known is what is recorded. *)
LEMMA ListStep ==
    ASSUME StartupInv, NEW m \in Migrators, List(m)
    PROVE  StartupInv'
  <1>1. StartupTypeOK'
    BY StartupAssumption DEF StartupInv, StartupTypeOK, List, Stages
  <1>2. ScriptsInOrder' /\ Grows
    BY DEF StartupInv, ScriptsInOrder, Recorded, List, Grows
  <1>3. OnlyMoves(m) /\ at'[m] = "apply" /\ next'[m] = 1 /\ known'[m] = recorded
    BY DEF OnlyMoves, List, StartupInv, StartupTypeOK
  <1>4. recorded' = recorded
    BY DEF List
  <1>5. ServesRecorded'
    <2>1. CASE m = App
      BY <1>3, <2>1 DEF ServesRecorded
    <2>2. CASE m # App
      BY <1>3, <1>4, <2>2 DEF ServesRecorded, StartupInv, OnlyMoves, Migrators
    <2> QED
      BY <2>1, <2>2
  <1>6. ProcessOK(m)'
    BY <1>3, <1>4 DEF ProcessOK, Scripts
  <1>7. \A n \in Migrators : ProcessOK(n)'
    BY <1>2, <1>3, <1>6, OthersOK
  <1> QED
    BY <1>1, <1>2, <1>5, <1>7 DEF StartupInv

(* A script is passed over that is known to be recorded, and therefore is. *)
LEMMA SkipStep ==
    ASSUME StartupInv, NEW m \in Migrators, Skip(m)
    PROVE  StartupInv'
  <1>1. next[m] \in Scripts /\ at[m] = "apply" /\ ProcessOK(m)
    BY DEF Skip, StartupInv, StartupTypeOK, Scripts
  <1>2. CASE known[m][next[m]] = "current"
    <2>1. /\ next' = [next EXCEPT ![m] = @ + 1]
          /\ UNCHANGED <<at, known, executed, recorded, faults>>
      BY <1>2 DEF Skip
    <2>2. next'[m] = next[m] + 1 /\ next[m] \in Nat
      BY <1>1, <2>1 DEF StartupInv, StartupTypeOK, Scripts
    <2>3. StartupTypeOK'
      BY <1>1, <2>1, StartupAssumption DEF StartupInv, StartupTypeOK, Scripts
    <2>4. ScriptsInOrder' /\ ServesRecorded' /\ Grows
      BY <2>1 DEF StartupInv, ScriptsInOrder, Recorded, ServesRecorded, Grows
    <2>5. OnlyMoves(m)
      BY <2>1 DEF OnlyMoves, StartupInv, StartupTypeOK
    <2>6. recorded[next[m]] = "current"
      BY <1>1, <1>2 DEF ProcessOK
    <2>7. \A v \in Scripts : v < next[m] + 1 => recorded[v] = "current"
      <3> SUFFICES ASSUME NEW v \in Scripts, v < next[m] + 1, v # next[m]
                   PROVE  recorded[v] = "current"
        BY <2>6
      <3>1. v < next[m]
        BY <2>2 DEF Scripts
      <3> QED
        BY <1>1, <3>1 DEF ProcessOK
    <2>8. ProcessOK(m)'
      BY <1>1, <2>1, <2>2, <2>7 DEF ProcessOK
    <2>9. \A n \in Migrators : ProcessOK(n)'
      BY <2>4, <2>5, <2>8, OthersOK
    <2> QED
      BY <2>3, <2>4, <2>9 DEF StartupInv
  <1>3. CASE known[m][next[m]] # "current"
    <2>1. Stop(m) /\ UNCHANGED <<executed, recorded, faults>>
      BY <1>3 DEF Skip
    <2> QED
      BY <2>1, StopStep DEF StartupInv, StartupTypeOK
  <1> QED
    BY <1>2, <1>3

(* A script that is executed for the first time is the one after the last. *)
LEMMA ExecuteStep ==
    ASSUME StartupInv, NEW m \in Migrators, Execute(m)
    PROVE  StartupInv'
  <1>1. /\ next[m] \in Scripts /\ at[m] = "apply" /\ ProcessOK(m)
        /\ executed' = executed \cup {next[m]}
        /\ at' = [at EXCEPT ![m] = "record"]
        /\ UNCHANGED <<recorded, next, known, faults>>
    BY DEF Execute, StartupInv, StartupTypeOK, Scripts
  <1>2. StartupTypeOK'
    BY <1>1 DEF StartupInv, StartupTypeOK, Stages
  <1>3. OnlyMoves(m) /\ at'[m] = "record" /\ Grows
    BY <1>1 DEF OnlyMoves, StartupInv, StartupTypeOK, Grows
  <1>4. ScriptsInOrder'
    <2>1. PICK n \in 0 .. Last : /\ executed = 1 .. n
                                 /\ Recorded \subseteq executed
                                 /\ 1 .. n - 1 \subseteq Recorded
      BY DEF StartupInv, ScriptsInOrder
    <2>2. Recorded' = Recorded
      BY <1>1 DEF Recorded
    <2>3. CASE next[m] \in executed
      <3>1. executed' = executed
        BY <1>1, <2>3
      <3> QED
        BY <2>1, <2>2, <3>1 DEF ScriptsInOrder
    <2>4. CASE next[m] \notin executed
      <3>1. \A v \in Scripts : v < next[m] => v \in 1 .. n /\ v \in Recorded
        BY <1>1, <2>1 DEF ProcessOK, Recorded
      <3>2. next[m] = n + 1
        <4>1. next[m] \in Nat /\ n \in Nat /\ next[m] > n
          BY <1>1, <2>1, <2>4 DEF Scripts
        <4>2. CASE next[m] > n + 1
          <5>1. n + 1 \in Scripts
            BY <1>1, <4>1, <4>2, StartupAssumption DEF Scripts
          <5> QED
            BY <3>1, <4>1, <4>2, <5>1
        <4> QED
          BY <4>1, <4>2
      <3>3. executed' = 1 .. n + 1 /\ n + 1 \in 0 .. Last
        BY <1>1, <2>1, <3>2, StartupAssumption DEF Scripts
      <3>4. 1 .. n \subseteq Recorded
        BY <2>1, <3>1, <3>2, StartupAssumption DEF Scripts
      <3>5. (n + 1) - 1 = n /\ Recorded' \subseteq executed'
        BY <1>1, <2>1, <2>2
      <3> QED
        BY <2>2, <3>3, <3>4, <3>5 DEF ScriptsInOrder
    <2> QED
      BY <2>3, <2>4
  <1>5. ServesRecorded'
    <2>1. CASE m = App
      BY <1>3, <2>1 DEF ServesRecorded
    <2>2. CASE m # App
      BY <1>1, <1>3, <2>2 DEF ServesRecorded, StartupInv, OnlyMoves, Migrators
    <2> QED
      BY <2>1, <2>2
  <1>6. ProcessOK(m)'
    BY <1>1, <1>3 DEF ProcessOK
  <1>7. \A n \in Migrators : ProcessOK(n)'
    BY <1>3, <1>6, OthersOK
  <1> QED
    BY <1>2, <1>4, <1>5, <1>7 DEF StartupInv

(* A record is of a script that was executed. *)
LEMMA RecordStep ==
    ASSUME StartupInv, NEW m \in Migrators, Record(m)
    PROVE  StartupInv'
  <1>1. next[m] \in Scripts /\ next[m] \in executed /\ at[m] = "record" /\ ProcessOK(m)
    BY DEF Record, StartupInv, StartupTypeOK, ProcessOK
  <1>2. CASE recorded[next[m]] = "none"
    <2>1. /\ recorded' = [recorded EXCEPT ![next[m]] = "current"]
          /\ at' = [at EXCEPT ![m] = "apply"]
          /\ next' = [next EXCEPT ![m] = @ + 1]
          /\ UNCHANGED <<known, executed, faults>>
      BY <1>2 DEF Record
    <2>2. next'[m] = next[m] + 1 /\ next[m] \in Nat /\ at'[m] = "apply"
      BY <1>1, <2>1 DEF StartupInv, StartupTypeOK, Scripts
    <2>3. StartupTypeOK'
      BY <1>1, <2>1, StartupAssumption DEF StartupInv, StartupTypeOK, Scripts, Stages, Records
    <2>4. Grows /\ \A v \in Scripts : recorded[v] = "current" => recorded'[v] = "current"
      BY <1>1, <1>2, <2>1 DEF Grows, StartupInv, StartupTypeOK
    <2>5. OnlyMoves(m)
      BY <2>1 DEF OnlyMoves, StartupInv, StartupTypeOK
    <2>6. recorded'[next[m]] = "current"
      BY <1>1, <2>1 DEF StartupInv, StartupTypeOK
    <2>7. ScriptsInOrder'
      <3>1. Recorded' = Recorded \cup {next[m]}
        <4>1. \A v \in Scripts : v # next[m] => recorded'[v] = recorded[v]
          BY <2>1 DEF StartupInv, StartupTypeOK
        <4> QED
          BY <1>1, <2>6, <4>1 DEF Recorded
      <3> QED
        BY <1>1, <2>1, <3>1 DEF StartupInv, ScriptsInOrder
    <2>8. ServesRecorded'
      <3>1. CASE m = App
        BY <2>2, <3>1 DEF ServesRecorded
      <3>2. CASE m # App
        BY <2>4, <2>5, <3>2 DEF ServesRecorded, StartupInv, OnlyMoves, Migrators
      <3> QED
        BY <3>1, <3>2
    <2>9. \A v \in Scripts : v < next[m] + 1 => recorded'[v] = "current"
      <3> SUFFICES ASSUME NEW v \in Scripts, v < next[m] + 1, v # next[m]
                   PROVE  recorded'[v] = "current"
        BY <2>6
      <3>1. v < next[m]
        BY <2>2 DEF Scripts
      <3> QED
        BY <1>1, <2>4, <3>1 DEF ProcessOK
    <2>10. \A v \in Scripts : known'[m][v] # "none" => recorded'[v] = known'[m][v]
      BY <1>1, <2>1, <2>4 DEF ProcessOK, Grows
    <2>11. ProcessOK(m)'
      BY <2>2, <2>9, <2>10 DEF ProcessOK
    <2>12. \A n \in Migrators : ProcessOK(n)'
      BY <2>4, <2>5, <2>11, OthersOK
    <2> QED
      BY <2>3, <2>7, <2>8, <2>12 DEF StartupInv
  <1>3. CASE recorded[next[m]] # "none"
    <2>1. Stop(m) /\ UNCHANGED <<executed, recorded, faults>>
      BY <1>3 DEF Record
    <2> QED
      BY <2>1, StopStep DEF StartupInv, StartupTypeOK
  <1> QED
    BY <1>2, <1>3

(* A process that has passed all scripts has found them recorded. *)
LEMMA FinishStep ==
    ASSUME StartupInv, NEW m \in Migrators, Finish(m)
    PROVE  StartupInv'
  <1>1. /\ at[m] = "apply" /\ next[m] > Last /\ ProcessOK(m) /\ next[m] \in 1 .. Last + 1
        /\ Leave(m, IF m = App THEN "serving" ELSE "ended")
        /\ UNCHANGED <<executed, recorded, faults>>
    BY DEF Finish, StartupInv, StartupTypeOK
  <1>2. \A v \in Scripts : recorded[v] = "current"
    BY <1>1, StartupAssumption DEF ProcessOK, Scripts
  <1>3. faults' \in 0 .. MaxFaults
    BY <1>1 DEF StartupInv, StartupTypeOK
  <1>4. CASE m = App
    <2>1. Leave(m, "serving")
      BY <1>1, <1>4
    <2> QED
      BY <1>1, <1>2, <1>3, <2>1, LeaveStep
  <1>5. CASE m # App
    <2>1. Leave(m, "ended")
      BY <1>1, <1>5
    <2> QED
      BY <1>1, <1>2, <1>3, <2>1, LeaveStep
  <1> QED
    BY <1>4, <1>5

-----------------------------------------------------------------------------
(* The invariant *)

(* It holds of every installation that a release may find. *)
LEMMA StartupInvInit == StartupInit => StartupInv
  <1> SUFFICES ASSUME StartupInit PROVE StartupInv
    OBVIOUS
  <1>1. PICK first \in 1 .. Last + 1, edited \in Scripts \cup {0} :
          /\ edited < first
          /\ executed = 1 .. first - 1
          /\ recorded = [v \in Scripts |-> IF v >= first THEN "none"
                                           ELSE IF v = edited THEN "earlier" ELSE "current"]
          /\ faults = IF edited = 0 THEN 0 ELSE 1
    BY DEF StartupInit
  <1>2. /\ at = [m \in Migrators |-> "down"]
        /\ next = [m \in Migrators |-> 1]
        /\ known = [m \in Migrators |-> Unread]
    BY DEF StartupInit
  <1>3. Unread \in [Scripts -> Records] /\ recorded \in [Scripts -> Records]
    BY <1>1 DEF Unread, Records
  <1>4. StartupTypeOK
    <2>1. executed \subseteq Scripts /\ 1 \in 1 .. Last + 1 /\ faults \in 0 .. MaxFaults
      BY <1>1, StartupAssumption DEF Scripts
    <2> QED
      BY <1>2, <1>3, <2>1 DEF StartupTypeOK, Stages
  <1>5. ScriptsInOrder
    <2>1. first - 1 \in 0 .. Last
      BY <1>1, StartupAssumption
    <2>2. Recorded = 1 .. first - 1
      <3>1. \A v \in Scripts : recorded[v] # "none" <=> ~(v >= first)
        BY <1>1
      <3>2. \A v \in Scripts : ~(v >= first) <=> v \in 1 .. first - 1
        BY <1>1, StartupAssumption DEF Scripts
      <3>3. 1 .. first - 1 \subseteq Scripts
        BY <1>1, StartupAssumption DEF Scripts
      <3> QED
        BY <3>1, <3>2, <3>3 DEF Recorded
    <2>3. 1 .. (first - 1) - 1 \subseteq Recorded
      BY <1>1, <2>2
    <2> QED
      BY <1>1, <2>1, <2>2, <2>3 DEF ScriptsInOrder
  <1>6. \A m \in Migrators : ProcessOK(m)
    BY <1>2 DEF ProcessOK, Unread
  <1>7. ServesRecorded
    BY <1>2 DEF ServesRecorded, Migrators
  <1> QED
    BY <1>4, <1>5, <1>6, <1>7 DEF StartupInv

(* Every step of a process that migrates keeps it. *)
LEMMA StartupInvStep ==
    ASSUME StartupInv, StartupStep
    PROVE  StartupInv'
  <1>1. PICK m \in Migrators : Execute(m) \/ Administer(m) \/ Interrupt(m)
    BY DEF StartupStep
  <1>2. CASE ExecuteFails(m)
    BY <1>2, StopStep DEF ExecuteFails, StartupInv, StartupTypeOK
  <1>3. CASE Interrupt(m)
    <2>1. faults' \in 0 .. MaxFaults
      BY <1>3, StartupAssumption DEF Interrupt, StartupInv, StartupTypeOK
    <2> QED
      BY <1>3, <2>1, StopStep DEF Interrupt
  <1> QED
    BY <1>1, <1>2, <1>3, ExecuteStep, ListStep, SkipStep, RecordStep, FinishStep
    DEF Administer

(* Steps of other processes do not concern it. *)
LEMMA StartupInvStutter ==
    ASSUME StartupInv, UNCHANGED startup
    PROVE  StartupInv'
  BY DEF StartupInv, startup, StartupTypeOK, ScriptsInOrder, Recorded, ServesRecorded,
         ProcessOK

(* A server runs on a complete schema. *)
LEMMA InvServes == StartupInv => ServesCompleteSchema
  <1> SUFFICES ASSUME StartupInv, at[App] = "serving"
               PROVE  executed = Scripts /\ \A v \in Scripts : recorded[v] = "current"
    BY DEF ServesCompleteSchema
  <1>1. \A v \in Scripts : recorded[v] = "current"
    BY DEF StartupInv, ServesRecorded
  <1>2. Recorded = Scripts
    BY <1>1 DEF Recorded
  <1>3. Recorded \subseteq executed /\ executed \subseteq Scripts
    BY DEF StartupInv, ScriptsInOrder, StartupTypeOK
  <1> QED
    BY <1>1, <1>2, <1>3
=============================================================================
