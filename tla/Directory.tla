----------------------------- MODULE Directory -----------------------------
(***************************************************************************)
(* The copy of the Bitrix directory in PostgreSQL, and who may use the     *)
(* application by it.                                                      *)
(*                                                                         *)
(* sync_directory reads the departments and then the users of the scope    *)
(* department from the portal, page by page, and writes what it read in    *)
(* one transaction.  The sync service does so once an hour; somebody may   *)
(* run `python -m backend.sync_bitrix directory` at the same time.  A page *)
(* is an offset into the list as it is when the page is served, and the    *)
(* portal changes between pages: an entry can be skipped, and the parts    *)
(* that were read need never have existed together.                        *)
(*                                                                         *)
(* Two such transactions both write the row of the scope department, which *)
(* makes them serial, so that the transaction is one step.                 *)
(***************************************************************************)
EXTENDS Destination

CONSTANTS
    Scope,              \* BITRIX_OPERATOR_DEPARTMENT_ID
    Bypass,             \* BITRIX_ACCESS_BYPASS_USER_IDS
    Leads,              \* users whose position is that of a supervisor
    Requested,          \* departments that a task is addressed to
    Syncers,            \* processes that run sync_directory
    Daemon,             \* the sync service, one of them
    PageSize,           \* entries on a page of a list method
    FirstDepartments,   \* the portal at the beginning
    FirstUsers,
    DepartmentValues,   \* what the portal may come to say of each department
    UserValues,         \* and of each user
    MaxChanges          \* bound on the changes of the portal

(* A department of the portal.  Its ID is never given to another one. *)
PortalDepartment == [state : {"unborn", "there", "gone"},
                     parent : Departments \cup {Null}, head : Users \cup {Null}]

(* A user of the portal.  `depts` is empty for one that is not active, or in no
   department that counts here.                                              *)
PortalUser == [depts : SUBSET Departments, named : BOOLEAN]
NoUser     == [depts |-> {}, named |-> TRUE]

There(departments) == {d \in Departments : departments[d].state = "there"}

(* Bitrix keeps its departments a forest and users in existing departments. *)
Forest(departments) ==
    /\ \A d \in There(departments) :
          departments[d].parent \in There(departments) \cup {Null}
    /\ \A S \in SUBSET There(departments) :
          S # {} => \E d \in S : departments[d].parent \notin S
Housed(departments, users) == \A u \in Users : users[u].depts \subseteq There(departments)

ASSUME DirectoryAssumption ==
    /\ IsFiniteSet(Departments) /\ IsFiniteSet(Users)
    /\ Scope \in Departments
    /\ Bypass \subseteq Users /\ Leads \subseteq Users
    /\ Requested \subseteq Departments
    /\ Daemon \in Syncers
    /\ PageSize \in Nat \ {0}
    /\ FirstDepartments \in [Departments -> PortalDepartment]
    /\ FirstUsers \in [Users -> PortalUser]
    /\ Forest(FirstDepartments) /\ Housed(FirstDepartments, FirstUsers)
    /\ DepartmentValues \in [Departments -> SUBSET PortalDepartment]
    /\ UserValues \in [Users -> SUBSET PortalUser]
    /\ MaxChanges \in Nat

VARIABLES
    (* The portal *)
    portalDepartments,
    portalUsers,
    changes,        \* how often it has changed
    (* The tables *)
    department,     \* departments
    operator,       \* operators
    member,         \* operator_departments: the departments of each operator
    (* The processes *)
    fetch,          \* what each syncer has read
    signing,        \* users of the sign-ins that found no active operator and
                    \* have yet to make one
    destination,    \* a request that resolves its destination
    (* For the properties *)
    readAt          \* `changes` when the committed copy began to be read, if it
                    \* had not changed when the reading ended; else Never

portal == <<portalDepartments, portalUsers, changes>>
tables == <<department, operator, member>>
vars   == <<portalDepartments, portalUsers, changes, department, operator, member,
            fetch, signing, destination, readAt>>

-----------------------------------------------------------------------------
(* Types *)

Operator   == [present : BOOLEAN, active : BOOLEAN, role : {"operator", "supervisor"}]
NoOperator == [present |-> FALSE, active |-> FALSE, role |-> "operator"]

Fetch == [at : {"departments", "users", "commit"}, offset : Nat,
          departments : [Departments -> Row], users : [Users -> PortalUser],
          since : 0 .. MaxChanges]

(* A syncer between two cycles, at its first page *)
NoFetch == [at |-> "departments", offset |-> 0,
            departments |-> [d \in Departments |-> NoRow],
            users |-> [u \in Users |-> NoUser], since |-> 0]

Undestined == [at |-> "idle", department |-> Null, responsible |-> Null]
Destined ==
    {Undestined}
    \cup [at : {"origin"}, department : Departments, responsible : {Null}]
    \cup [at : {"resolved"}, department : Departments, responsible : Users]

Never == MaxChanges + 1

-----------------------------------------------------------------------------
(* The portal *)

ChangeDepartment(d, new) ==
    /\ changes < MaxChanges
    /\ new # portalDepartments[d]
    /\ portalDepartments[d].state # "gone" /\ new.state # "unborn"
    /\ portalDepartments[d].state = "unborn" =>     \* IDs are given out in order
          \A e \in Departments : e < d => portalDepartments[e].state # "unborn"
    /\ new.state = "gone" => new.parent = Null /\ new.head = Null
    /\ portalDepartments' = [portalDepartments EXCEPT ![d] = new]
    /\ Forest(portalDepartments') /\ Housed(portalDepartments', portalUsers)
    /\ changes' = changes + 1
    /\ UNCHANGED <<portalUsers, tables, fetch, signing, destination, readAt>>

ChangeUser(u, new) ==
    /\ changes < MaxChanges
    /\ new # portalUsers[u]
    /\ portalUsers' = [portalUsers EXCEPT ![u] = new]
    /\ Housed(portalDepartments, portalUsers')
    /\ changes' = changes + 1
    /\ UNCHANGED <<portalDepartments, tables, fetch, signing, destination, readAt>>

(* user.get with UF_DEPARTMENT and ACTIVE *)
Scoped == {u \in Users : Scope \in portalUsers[u].depts}

(* A list method serves the entries in the order of their IDs, from an offset
   on, and gives the next offset while there are more.                       *)
Rank(S, x)      == Cardinality({y \in S : y < x})
Page(S, offset) == {x \in S : Rank(S, x) >= offset /\ Rank(S, x) < offset + PageSize}
More(S, offset) == \E x \in S : Rank(S, x) >= offset + PageSize

-----------------------------------------------------------------------------
(* sync_directory: the pages *)

ReadDepartments(s) ==
    LET f == fetch[s]
        page == Page(There(portalDepartments), f.offset)
    IN  /\ f.at = "departments"
        /\ fetch' = [fetch EXCEPT ![s] =
              [at |-> IF More(There(portalDepartments), f.offset)
                      THEN "departments" ELSE "users",
               offset |-> IF More(There(portalDepartments), f.offset)
                          THEN f.offset + PageSize ELSE 0,
               departments |-> [d \in Departments |->
                  IF d \in page
                  THEN [present |-> TRUE, active |-> TRUE,
                        parent |-> portalDepartments[d].parent,
                        head |-> portalDepartments[d].head]
                  ELSE f.departments[d]],
               users |-> f.users,
               since |-> IF f.offset = 0 THEN changes ELSE f.since]]
        /\ UNCHANGED <<portal, tables, signing, destination, readAt>>

ReadUsers(s) ==
    LET f == fetch[s]
        page == Page(Scoped, f.offset)
    IN  /\ f.at = "users"
        /\ fetch' = [fetch EXCEPT ![s] =
              [f EXCEPT !.at = IF More(Scoped, f.offset) THEN "users" ELSE "commit",
                        !.offset = IF More(Scoped, f.offset)
                                   THEN f.offset + PageSize ELSE 0,
                        !.users = [u \in Users |->
                           IF u \in page THEN portalUsers[u] ELSE f.users[u]]]]
        /\ UNCHANGED <<portal, tables, signing, destination, readAt>>

(* A slip of Fail: what was read before the failing page is written. *)
FailKeeps(s) ==
    /\ fetch[s].at = "users"
    /\ fetch' = [fetch EXCEPT ![s].at = "commit", ![s].offset = 0]
    /\ UNCHANGED <<portal, tables, signing, destination, readAt>>

(* A page is not served, or not understood, or the transaction is rolled back:
   the cycle ends without having written anything, and the next one starts from
   the first page.                                                           *)
Fail(s) ==
    /\ fetch[s] # NoFetch
    /\ fetch' = [fetch EXCEPT ![s] = NoFetch]
    /\ UNCHANGED <<portal, tables, signing, destination, readAt>>

-----------------------------------------------------------------------------
(* sync_directory: the transaction *)

Listed(f) == {u \in Users : f.users[u].depts # {}}

(* department_id is inserted or updated, or deactivated when it was not read. *)
SyncedDepartment(f, d) ==
    IF f.departments[d].present THEN f.departments[d]
    ELSE [department[d] EXCEPT !.active = FALSE]

(* _operator_role *)
Role(f, u) ==
    IF f.departments[Scope].head = u \/ u \in Leads THEN "supervisor" ELSE "operator"

(* The memberships of an operator are replaced when it was read, and kept
   otherwise.                                                                *)
SyncedMember(f, u) == IF u \in Listed(f) THEN f.users[u].depts ELSE member[u]

DroppedByEmpty(f, u) ==         \* slip: without "if current_user_ids"
    Scope \in SyncedMember(f, u) /\ u \notin Listed(f)

(* An operator of the scope department that was not read is deactivated, unless
   nobody was read.                                                          *)
Dropped(f, u) ==
    /\ Listed(f) # {}
    /\ Scope \in SyncedMember(f, u)
    /\ u \notin Listed(f)

SyncedOperator(f, u) ==
    IF u \in Listed(f) THEN [present |-> TRUE, active |-> TRUE, role |-> Role(f, u)]
    ELSE IF Dropped(f, u) THEN [operator[u] EXCEPT !.active = FALSE]
    ELSE operator[u]

(* What the code or the schema refuses: a list without the scope department, a
   user without a name, and references to departments without a row.  That of a
   parent is checked at the end of the transaction, that of a membership at
   once, when all departments have been written.                             *)
Refused(f) ==
    \/ ~f.departments[Scope].present
    \/ \E u \in Listed(f) : ~f.users[u].named
    \/ \E u \in Listed(f) : \E d \in f.users[u].depts : ~SyncedDepartment(f, d).present
    \/ \E d \in Departments : LET parent == SyncedDepartment(f, d).parent IN
          parent # Null /\ ~SyncedDepartment(f, parent).present

Commit(s) ==
    LET f == fetch[s] IN
    /\ f.at = "commit"
    /\ ~Refused(f)
    /\ department' = [d \in Departments |-> SyncedDepartment(f, d)]
    /\ operator' = [u \in Users |-> SyncedOperator(f, u)]
    /\ member' = [u \in Users |-> SyncedMember(f, u)]
    /\ readAt' = f.since
    /\ fetch' = [fetch EXCEPT ![s] = NoFetch]
    /\ UNCHANGED <<portal, signing, destination>>

RefuseKeeps(s) ==               \* slip: the same lists are tried again
    /\ fetch[s].at = "commit"
    /\ Refused(fetch[s])
    /\ UNCHANGED vars

Refuse(s) ==
    /\ fetch[s].at = "commit"
    /\ Refused(fetch[s])
    /\ fetch' = [fetch EXCEPT ![s] = NoFetch]
    /\ UNCHANGED <<portal, tables, signing, destination, readAt>>

SyncStep(s) == ReadDepartments(s) \/ ReadUsers(s) \/ Commit(s) \/ Refuse(s)

-----------------------------------------------------------------------------
(* Sign-in and requests *)

(* upsert_bypass_supervisor: the row that it inserts or updates to *)
Supervisor == [present |-> TRUE, active |-> TRUE, role |-> "supervisor"]

SignInAnybody(u) ==             \* slip: nobody asks for the bypass list
    /\ ~operator[u].active
    /\ signing' = signing \cup {u}
    /\ UNCHANGED <<portal, tables, fetch, destination, readAt>>

(* open_bitrix_session, first statement: an active operator is signed in, which
   changes no table here; anybody else is refused, but for a listed bypass user,
   for whom an operator is yet to be made.                                   *)
SignIn(u) ==
    /\ ~operator[u].active
    /\ u \in Bypass
    /\ signing' = signing \cup {u}
    /\ UNCHANGED <<portal, tables, fetch, destination, readAt>>

(* Second statement: the row becomes a supervisor's whatever a sync has made of
   it since the first.  Sign-ins of one user may be many, so that this need not
   be the last of them.                                                      *)
UpsertSupervisor(u) ==
    /\ u \in signing
    /\ operator' = [operator EXCEPT ![u] = Supervisor]
    /\ signing' \in {signing, signing \ {u}}
    /\ UNCHANGED <<portal, department, member, fetch, destination, readAt>>

CurrentUserAnyRow(u) == operator[u].present     \* slip: without "operator.active"

(* Whether a request of u gets past current_user, with a session that was opened
   at some time and has not reached its expires_at                           *)
CurrentUser(u) == operator[u].active

(* Whether it gets past _require_supervisor, and past the checks of who owns a
   call or a candidate, which ask for the same role                          *)
Supervises(u) == CurrentUser(u) /\ operator[u].role = "supervisor"

-----------------------------------------------------------------------------
(* A delivery resolves its destination, in two statements. *)

Origin(d) ==
    /\ destination.at # "origin"
    /\ Active(department, d)
    /\ destination' = [at |-> "origin", department |-> d, responsible |-> Null]
    /\ UNCHANGED <<portal, tables, fetch, signing, readAt>>

ResolveAnyway ==                \* slip: nobody asks whether a head was found
    /\ destination.at = "origin"
    /\ destination' = [destination EXCEPT !.at = "resolved",
          !.responsible = Responsible(department, destination.department)]
    /\ UNCHANGED <<portal, tables, fetch, signing, readAt>>

Resolve ==
    LET head == Responsible(department, destination.department) IN
    /\ destination.at = "origin"
    /\ destination' = IF head = Null THEN Undestined
                      ELSE [destination EXCEPT !.at = "resolved", !.responsible = head]
    /\ UNCHANGED <<portal, tables, fetch, signing, readAt>>

-----------------------------------------------------------------------------
Init ==
    /\ portalDepartments = FirstDepartments
    /\ portalUsers = FirstUsers
    /\ changes = 0
    /\ department = [d \in Departments |-> NoRow]
    /\ operator = [u \in Users |-> NoOperator]
    /\ member = [u \in Users |-> {}]
    /\ fetch = [s \in Syncers |-> NoFetch]
    /\ signing = {}
    /\ destination = Undestined
    /\ readAt = Never

Next ==
    \/ \E d \in Departments : \E new \in DepartmentValues[d] : ChangeDepartment(d, new)
    \/ \E u \in Users : \E new \in UserValues[u] : ChangeUser(u, new)
    \/ \E s \in Syncers : SyncStep(s) \/ Fail(s)
    \/ \E u \in Users : SignIn(u) \/ UpsertSupervisor(u)
    \/ \E d \in Requested : Origin(d)
    \/ Resolve

(* The sync service starts a cycle again after every one, however it ended. *)
Spec == Init /\ [][Next]_vars /\ WF_vars(SyncStep(Daemon))

-----------------------------------------------------------------------------
(* Properties *)

TypeOK ==
    /\ portalDepartments \in [Departments -> PortalDepartment]
    /\ portalUsers \in [Users -> PortalUser]
    /\ changes \in 0 .. MaxChanges
    /\ department \in [Departments -> Row]
    /\ operator \in [Users -> Operator]
    /\ member \in [Users -> SUBSET Departments]
    /\ fetch \in [Syncers -> Fetch]
    /\ signing \subseteq Users
    /\ destination \in Destined
    /\ readAt \in 0 .. Never

(* The copy says what the portal says: the departments there are active, with
   their parent and head; the users of the scope department are active, with
   their departments and role; and other operators are not active.  The bypass
   list is excepted: its users may be active, and supervise, in any case.    *)
DepartmentInStep(d) ==
    /\ Active(department, d) <=> d \in There(portalDepartments)
    /\ Active(department, d) =>
          /\ department[d].parent = portalDepartments[d].parent
          /\ department[d].head = portalDepartments[d].head

Leading(u) == portalDepartments[Scope].head = u \/ u \in Leads

OperatorInStep(u) ==
    /\ u \in Scoped =>
          /\ operator[u].active
          /\ Leading(u) => operator[u].role = "supervisor"
          /\ operator[u].role = "supervisor" => Leading(u) \/ u \in Bypass
          /\ member[u] = portalUsers[u].depts
    /\ operator[u].active => u \in Scoped \cup Bypass \/ Scoped = {}

InStep ==
    /\ \A d \in Departments : DepartmentInStep(d)
    /\ \A u \in Users : OperatorInStep(u)

(* A sync that read the portal without a change in between leaves a copy in
   step with it until the portal changes, whatever pages failed, other syncs
   committed before, and users signed in, before the commit, across it or after. *)
CopyIsFaithful == readAt = changes => InStep

(* By such a copy nobody acts who is not of the scope department or the bypass
   list, and nobody supervises who is not a lead or of the bypass list, even
   with a session from before.                                               *)
AccessFollowsPortal ==
    readAt = changes /\ Scoped # {} =>
        \A u \in Users \ Bypass : /\ CurrentUser(u) => u \in Scoped
                                  /\ Supervises(u) => Leading(u)

(* An active operator that is not of the bypass list was taken from the scope
   department, by whatever mixture of pages.                                 *)
ScopedUnlessBypass ==
    \A u \in Users : operator[u].active => Scope \in member[u] \/ u \in Bypass

(* No step leaves the application without an active operator: an empty list of
   users deactivates nobody.                                                 *)
SomebodyActive == \E u \in Users : operator[u].active
NeverEmptied == [][SomebodyActive => SomebodyActive']_vars

(* Whatever the syncs have put in the table, cycles of parents and inactive
   departments included, the query finds the head of the nearest department
   that has one, over active departments only, and none if there is none; unless
   the way up is longer than it climbs.                                      *)
FindsNearestHead ==
    [][department' # department =>
          \A d \in Departments :
             Active(department', d) =>
                \/ Responsible(department', d) = NearestHead(department', d)
                \/ Cardinality(Passed(department', d)) > MaxDepth + 1]_vars

(* A resolved destination is an active department and its nearest head, in the
   state of the last statement, whatever was committed after the first.      *)
DestinationIsCurrent ==
    [][destination.at = "origin" /\ destination'.at = "resolved" =>
          /\ Active(department, destination.department)
          /\ destination'.responsible =
                NearestHead(department, destination.department)]_vars

(* When the portal stays as it is, with the scope department and a name for
   each of its users, and cycles cease to fail, the copy comes to be in step
   with it and stays so.                                                     *)
Sound == Scope \in There(portalDepartments) /\ \A u \in Scoped : portalUsers[u].named
CyclesGoOn == <>[][~\E s \in Syncers : Fail(s)]_vars
DirectoryConverges == <>[]Sound /\ CyclesGoOn => <>[]InStep
=============================================================================
