------------------------------ MODULE Startup ------------------------------
(***************************************************************************)
(* The start of the application container and the SQL migrations.          *)
(*                                                                         *)
(* entrypoint.py calls migrate() until PostgreSQL answers, and then turns  *)
(* into uvicorn.  migrate() reads which scripts are recorded, once, and    *)
(* then executes and records the others in order.  It runs in autocommit   *)
(* mode: a script is one transaction and its record is another, and        *)
(* nothing keeps a second process (`python -m backend.migrate`, another    *)
(* container) from doing the same at the same time.                        *)
(*                                                                         *)
(* A container that fails is started again by Docker; a command is not.    *)
(***************************************************************************)
EXTENDS Naturals

CONSTANTS
    Last,           \* the scripts are 1 .. Last, in the order of their names
    Repeatable,     \* scripts that PostgreSQL executes a second time
    App,            \* the process of the application container
    Commands,       \* processes of `python -m backend.migrate`
    MaxFaults       \* bound on edited files, lost connections and killed processes

Scripts   == 1 .. Last
Migrators == {App} \cup Commands

ASSUME StartupAssumption ==
    /\ Last \in Nat \ {0}
    /\ Repeatable \subseteq Scripts
    /\ App \notin Commands
    /\ MaxFaults \in Nat \ {0}

VARIABLES
    executed,   \* scripts whose transaction has committed
    recorded,   \* schema_migrations: no row, the checksum of the file as it is
                \* now, or that of an earlier version of the file
    at,         \* where each process stands
    next,       \* the script it is at
    known,      \* the rows of schema_migrations that it has read
    faults

startup == <<executed, recorded, at, next, known, faults>>

Records == {"none", "current", "earlier"}
Stages  == {"down", "apply", "record", "serving", "ended"}

Recorded == {v \in Scripts : recorded[v] # "none"}

-----------------------------------------------------------------------------
Unread == [v \in Scripts |-> "none"]

Leave(m, stage) ==
    /\ at' = [at EXCEPT ![m] = stage]
    /\ next' = [next EXCEPT ![m] = 1]
    /\ known' = [known EXCEPT ![m] = Unread]

(* m leaves migrate().  After an exception the container starts again: at once
   after an OperationalError, before its deadline, else by the restart policy. *)
StopForGood(m) == Leave(m, "ended")     \* slip: the container is not started again
Stop(m) == Leave(m, IF m = App THEN "down" ELSE "ended")

(* CREATE TABLE IF NOT EXISTS schema_migrations; SELECT version, checksum *)
List(m) ==
    /\ at[m] = "down"
    /\ at' = [at EXCEPT ![m] = "apply"]
    /\ next' = [next EXCEPT ![m] = 1]
    /\ known' = [known EXCEPT ![m] = recorded]
    /\ UNCHANGED <<executed, recorded, faults>>

SkipAny(m) ==                   \* slip: the checksum is not compared
    /\ at[m] = "apply" /\ next[m] <= Last
    /\ known[m][next[m]] # "none"
    /\ next' = [next EXCEPT ![m] = @ + 1]
    /\ UNCHANGED <<executed, recorded, at, known, faults>>

(* The script is recorded: it is passed over, or was modified since. *)
Skip(m) ==
    /\ at[m] = "apply" /\ next[m] <= Last
    /\ known[m][next[m]] # "none"
    /\ IF known[m][next[m]] = "current"
       THEN next' = [next EXCEPT ![m] = @ + 1] /\ UNCHANGED <<at, known>>
       ELSE Stop(m)
    /\ UNCHANGED <<executed, recorded, faults>>

RunsAgain(v) == TRUE            \* slip: scripts that can be executed twice

(* The statements of a script fail when it was executed before, but for the
   repeatable ones.                                                          *)
Runs(v) == v \notin executed \/ v \in Repeatable

Execute(m) ==
    /\ at[m] = "apply" /\ next[m] <= Last
    /\ known[m][next[m]] = "none"
    /\ Runs(next[m])
    /\ executed' = executed \cup {next[m]}
    /\ at' = [at EXCEPT ![m] = "record"]
    /\ UNCHANGED <<recorded, next, known, faults>>

ExecuteIgnored(m) ==            \* slip: an error of a script is passed over
    /\ at[m] = "apply" /\ next[m] <= Last
    /\ known[m][next[m]] = "none"
    /\ ~Runs(next[m])
    /\ next' = [next EXCEPT ![m] = @ + 1]
    /\ UNCHANGED <<executed, recorded, at, known, faults>>

ExecuteFails(m) ==
    /\ at[m] = "apply" /\ next[m] <= Last
    /\ known[m][next[m]] = "none"
    /\ ~Runs(next[m])
    /\ Stop(m)
    /\ UNCHANGED <<executed, recorded, faults>>

(* INSERT INTO schema_migrations; the version is its primary key. *)
Record(m) ==
    /\ at[m] = "record"
    /\ IF recorded[next[m]] = "none"
       THEN /\ recorded' = [recorded EXCEPT ![next[m]] = "current"]
            /\ at' = [at EXCEPT ![m] = "apply"]
            /\ next' = [next EXCEPT ![m] = @ + 1]
            /\ UNCHANGED known
       ELSE Stop(m) /\ UNCHANGED recorded
    /\ UNCHANGED <<executed, faults>>

(* All scripts are passed: the container becomes the server. *)
Finish(m) ==
    /\ at[m] = "apply" /\ next[m] > Last
    /\ Leave(m, IF m = App THEN "serving" ELSE "ended")
    /\ UNCHANGED <<executed, recorded, faults>>

(* The connection is lost, or the process killed, between two statements. *)
Interrupt(m) ==
    /\ faults < MaxFaults
    /\ at[m] \in {"apply", "record", "serving"}
    /\ Stop(m)
    /\ faults' = faults + 1
    /\ UNCHANGED <<executed, recorded>>

-----------------------------------------------------------------------------
(* An installation with the scripts before `first` applied.  One of their files
   may have been edited since, which counts as a fault.                      *)
StartupInit ==
    /\ \E first \in 1 .. Last + 1, edited \in Scripts \cup {0} :
          /\ edited < first
          /\ executed = 1 .. first - 1
          /\ recorded = [v \in Scripts |-> IF v >= first THEN "none"
                                           ELSE IF v = edited THEN "earlier" ELSE "current"]
          /\ faults = IF edited = 0 THEN 0 ELSE 1
    /\ at = [m \in Migrators |-> "down"]
    /\ next = [m \in Migrators |-> 1]
    /\ known = [m \in Migrators |-> Unread]

(* What a process does besides executing a script *)
Administer(m) ==
    \/ List(m) \/ Skip(m) \/ ExecuteFails(m) \/ Record(m) \/ Finish(m)

-----------------------------------------------------------------------------
(* Properties *)

StartupTypeOK ==
    /\ executed \subseteq Scripts
    /\ recorded \in [Scripts -> Records]
    /\ at \in [Migrators -> Stages]
    /\ next \in [Migrators -> 1 .. Last + 1]
    /\ known \in [Migrators -> [Scripts -> Records]]
    /\ faults \in 0 .. MaxFaults

(* The application serves only on the schema that its files describe: every
   script was executed, and every file is as it was then, whatever other
   processes migrate at the same time and wherever earlier ones broke off.   *)
ServesCompleteSchema ==
    at[App] = "serving" =>
        executed = Scripts /\ \A v \in Scripts : recorded[v] = "current"

(* Two processes keep the order of the scripts: those executed are an initial
   segment, and at most the last one of them is not recorded.                *)
ScriptsInOrder ==
    \E n \in 0 .. Last :
        /\ executed = 1 .. n
        /\ Recorded \subseteq executed
        /\ 1 .. n - 1 \subseteq Recorded
=============================================================================
