-------------------------- MODULE DirectoryProofs --------------------------
(***************************************************************************)
(* Proofs about the copy of the directory, for any portal, any number of   *)
(* processes that sync it, and any changes between their pages.            *)
(*                                                                         *)
(* What makes a copy faithful is an invariant of the lists on the way: as  *)
(* long as the portal has not changed since the first page, exactly the    *)
(* entries before the offset have been read, as they are (ReadInStep).     *)
(***************************************************************************)
EXTENDS Directory, DestinationProofs, FiniteSetTheorems, TLAPS

-----------------------------------------------------------------------------
(* The invariant *)

(* What holds of a list on the way, whatever the portal does *)
FetchOK(s) ==
    /\ fetch[s].since <= changes
    /\ fetch[s].at = "departments" =>
          /\ fetch[s].users = [u \in Users |-> NoUser]
          /\ fetch[s].offset = 0 => fetch[s] = NoFetch
    /\ \A u \in Users : fetch[s].users[u].depts # {} => Scope \in fetch[s].users[u].depts

(* The row that the portal's department d becomes *)
PortalRow(d) == [present |-> TRUE, active |-> TRUE,
                 parent |-> portalDepartments[d].parent, head |-> portalDepartments[d].head]

(* An entry has been read when its place in the list is before the offset. *)
DepartmentPassed(f, d) ==
    d \in There(portalDepartments)
    /\ (f.at = "departments" => Rank(There(portalDepartments), d) < f.offset)
UserPassed(f, u) ==
    u \in Scoped /\ f.at # "departments" /\ (f.at = "users" => Rank(Scoped, u) < f.offset)

DepartmentRead(f, d) ==
    f.departments[d] = IF DepartmentPassed(f, d) THEN PortalRow(d) ELSE NoRow
UserRead(f, u) ==
    f.users[u] = IF UserPassed(f, u) THEN portalUsers[u] ELSE NoUser

ReadInStep(s) ==
    fetch[s].since = changes =>
        /\ \A d \in Departments : DepartmentRead(fetch[s], d)
        /\ \A u \in Users : UserRead(fetch[s], u)

ReadAtOK == readAt = Never \/ readAt <= changes

DirectoryInv ==
    /\ TypeOK
    /\ ReadAtOK
    /\ \A s \in Syncers : FetchOK(s) /\ ReadInStep(s)
    /\ signing \subseteq Bypass
    /\ ScopedUnlessBypass
    /\ CopyIsFaithful

-----------------------------------------------------------------------------
(* Lemmas on the operators *)

(* A place in a list of the portal is a natural number. *)
LEMMA RankType ==
    ASSUME NEW S, NEW x, IsFiniteSet(S)
    PROVE  Rank(S, x) \in Nat
  <1>1. {y \in S : y < x} \in SUBSET S
    OBVIOUS
  <1>2. IsFiniteSet({y \in S : y < x})
    BY <1>1, FS_Subset
  <1> QED
    BY <1>2, FS_CardinalityType DEF Rank

(* The lists of the portal are finite. *)
LEMMA ListsAreFinite ==
    IsFiniteSet(There(portalDepartments)) /\ IsFiniteSet(Scoped)
  <1>1. There(portalDepartments) \in SUBSET Departments /\ Scoped \in SUBSET Users
    BY DEF There, Scoped
  <1> QED
    BY <1>1, FS_Subset, DirectoryAssumption

(* NoFetch is a state of a syncer. *)
LEMMA NoFetchType == NoFetch \in Fetch
  <1>1. [d \in Departments |-> NoRow] \in [Departments -> Row]
    BY DEF NoRow, Row
  <1>2. [u \in Users |-> NoUser] \in [Users -> PortalUser]
    BY DEF NoUser, PortalUser
  <1>3. 0 \in 0 .. MaxChanges
    BY DirectoryAssumption
  <1> QED
    BY <1>1, <1>2, <1>3 DEF NoFetch, Fetch

(* The fields of the lists of a syncer. *)
LEMMA FetchFields ==
    ASSUME TypeOK, NEW s \in Syncers
    PROVE  /\ fetch[s] \in Fetch
           /\ fetch[s].at \in {"departments", "users", "commit"}
           /\ fetch[s].offset \in Nat
           /\ fetch[s].departments \in [Departments -> Row]
           /\ fetch[s].users \in [Users -> PortalUser]
           /\ fetch[s].since \in 0 .. MaxChanges
           /\ changes \in 0 .. MaxChanges /\ MaxChanges \in Nat
           /\ PageSize \in Nat \ {0}
  BY DirectoryAssumption DEF TypeOK, Fetch

(* The tables keep their types when a list is written. *)
LEMMA SyncedTypes ==
    ASSUME TypeOK, NEW f \in Fetch
    PROVE  /\ \A d \in Departments : SyncedDepartment(f, d) \in Row
           /\ \A u \in Users : SyncedMember(f, u) \in SUBSET Departments
           /\ \A u \in Users : SyncedOperator(f, u) \in Operator
  <1>1. ASSUME NEW d \in Departments PROVE SyncedDepartment(f, d) \in Row
    <2>1. f.departments[d] \in Row /\ department[d] \in Row
      BY DEF TypeOK, Fetch
    <2>2. [department[d] EXCEPT !.active = FALSE] \in Row
      BY <2>1 DEF Row
    <2> QED
      BY <2>1, <2>2 DEF SyncedDepartment
  <1>2. ASSUME NEW u \in Users PROVE SyncedMember(f, u) \in SUBSET Departments
    <2>1. f.users[u] \in PortalUser /\ member[u] \in SUBSET Departments
      BY DEF TypeOK, Fetch
    <2> QED
      BY <2>1 DEF SyncedMember, PortalUser
  <1>3. ASSUME NEW u \in Users PROVE SyncedOperator(f, u) \in Operator
    <2>1. operator[u] \in Operator
      BY DEF TypeOK
    <2>2. [operator[u] EXCEPT !.active = FALSE] \in Operator
      BY <2>1 DEF Operator
    <2>3. Role(f, u) \in {"operator", "supervisor"}
      BY DEF Role
    <2>4. [present |-> TRUE, active |-> TRUE, role |-> Role(f, u)] \in Operator
      BY <2>3 DEF Operator
    <2> QED
      BY <2>1, <2>2, <2>4 DEF SyncedOperator
  <1> QED
    BY <1>1, <1>2, <1>3

(* A head that the query finds is a user. *)
LEMMA ResponsibleType ==
    ASSUME NEW table \in [Departments -> Row], NEW origin
    PROVE  Responsible(table, origin) \in Users \cup {Null}
  <1> DEFINE First(d) == \E n \in 0 .. MaxDepth :
                            /\ d \in Chain(table, origin)[n] /\ table[d].head # Null
                            /\ \A m \in 0 .. n - 1 : \A e \in Chain(table, origin)[m] :
                                  table[e].head = Null
  <1>1. CASE \E d \in Departments : First(d)
    <2> DEFINE found == CHOOSE d \in Departments : First(d)
    <2>1. found \in Departments
      BY <1>1
    <2>2. Responsible(table, origin) = table[found].head
      BY <1>1 DEF Responsible
    <2> QED
      BY <2>1, <2>2 DEF Row
  <1>2. CASE ~\E d \in Departments : First(d)
    BY <1>2 DEF Responsible
  <1> QED
    BY <1>1, <1>2

(* The portal's department d has a row, and its user u is one. *)
LEMMA PortalTypes ==
    ASSUME TypeOK
    PROVE  /\ \A d \in Departments : PortalRow(d) \in Row
           /\ \A u \in Users : portalUsers[u] \in PortalUser
           /\ NoRow \in Row /\ NoUser \in PortalUser
  <1>1. ASSUME NEW d \in Departments PROVE PortalRow(d) \in Row
    <2>1. portalDepartments[d] \in PortalDepartment
      BY DEF TypeOK
    <2> QED
      BY <2>1 DEF PortalRow, Row, PortalDepartment
  <1> QED
    BY <1>1 DEF TypeOK, NoRow, Row, NoUser, PortalUser

-----------------------------------------------------------------------------
(* The steps that leave the tables alone *)

(* A list that nobody touches stays what it is while the portal stays. *)
LEMMA UntouchedList ==
    ASSUME NEW t \in Syncers, FetchOK(t), ReadInStep(t), fetch'[t] = fetch[t],
           UNCHANGED portal
    PROVE  FetchOK(t)' /\ ReadInStep(t)'
  <1>1. FetchOK(t)'
    BY DEF FetchOK, portal
  <1>2. ASSUME NEW d \in Departments
        PROVE  DepartmentRead(fetch[t], d)' <=> DepartmentRead(fetch[t], d)
    BY DEF DepartmentRead, DepartmentPassed, PortalRow, There, portal
  <1>3. ASSUME NEW u \in Users
        PROVE  UserRead(fetch[t], u)' <=> UserRead(fetch[t], u)
    BY DEF UserRead, UserPassed, Scoped, portal
  <1>4. ReadInStep(t)'
    BY <1>2, <1>3 DEF ReadInStep, portal
  <1> QED
    BY <1>1, <1>4

(* A faithful copy stays one while neither it nor the portal changes. *)
LEMMA UntouchedCopy ==
    ASSUME ReadAtOK, ScopedUnlessBypass, CopyIsFaithful, UNCHANGED <<portal, tables, readAt>>
    PROVE  ReadAtOK' /\ ScopedUnlessBypass' /\ CopyIsFaithful'
  <1>1. ReadAtOK' /\ ScopedUnlessBypass'
    BY DEF ReadAtOK, ScopedUnlessBypass, portal, tables
  <1>2. CopyIsFaithful'
    BY DEF CopyIsFaithful, InStep, DepartmentInStep, OperatorInStep, Active, Leading,
           There, Scoped, portal, tables
  <1> QED
    BY <1>1, <1>2

(* A syncer that forgets its lists keeps the invariant of them. *)
LEMMA NoFetchOK ==
    ASSUME NEW s \in Syncers, TypeOK, fetch' = [fetch EXCEPT ![s] = NoFetch],
           UNCHANGED portal
    PROVE  FetchOK(s)' /\ ReadInStep(s)'
  <1>1. fetch'[s] = NoFetch /\ changes' \in Nat /\ changes' >= 0
    BY DirectoryAssumption DEF TypeOK, portal
  <1>2. FetchOK(s)'
    <2>1. NoFetch.since = 0 /\ NoFetch.users = [u \in Users |-> NoUser]
      BY DEF NoFetch
    <2>2. \A u \in Users : NoFetch.users[u].depts = {}
      BY <2>1 DEF NoUser
    <2> QED
      BY <1>1, <2>1, <2>2 DEF FetchOK
  <1>3. ASSUME NEW d \in Departments PROVE DepartmentRead(NoFetch, d)'
    <2>1. Rank(There(portalDepartments'), d) \in Nat
      BY ListsAreFinite, RankType DEF portal
    <2> QED
      BY <2>1 DEF DepartmentRead, DepartmentPassed, NoFetch
  <1>4. ASSUME NEW u \in Users PROVE UserRead(NoFetch, u)'
    BY DEF UserRead, UserPassed, NoFetch
  <1> QED
    BY <1>1, <1>2, <1>3, <1>4 DEF ReadInStep

(* Invariants of all lists follow from those of the one that is touched. *)
LEMMA OneListTouched ==
    ASSUME DirectoryInv, NEW s \in Syncers, NEW g,
           fetch' = [fetch EXCEPT ![s] = g], g \in Fetch, UNCHANGED portal,
           FetchOK(s)' /\ ReadInStep(s)'
    PROVE  /\ fetch' \in [Syncers -> Fetch]
           /\ \A t \in Syncers : FetchOK(t)' /\ ReadInStep(t)'
  <1>1. fetch \in [Syncers -> Fetch]
    BY DEF DirectoryInv, TypeOK
  <1>2. ASSUME NEW t \in Syncers, t # s PROVE FetchOK(t)' /\ ReadInStep(t)'
    <2>1. fetch'[t] = fetch[t]
      BY <1>1, <1>2
    <2> QED
      BY <2>1, UntouchedList DEF DirectoryInv
  <1> QED
    BY <1>1, <1>2

(* The other parts of the type invariant in a step that only touches a list. *)
LEMMA ListStep ==
    ASSUME DirectoryInv, NEW s \in Syncers, NEW g,
           fetch' = [fetch EXCEPT ![s] = g], g \in Fetch,
           UNCHANGED <<portal, tables, signing, destination, readAt>>,
           FetchOK(s)' /\ ReadInStep(s)'
    PROVE  DirectoryInv'
  <1>1. /\ fetch' \in [Syncers -> Fetch]
        /\ \A t \in Syncers : FetchOK(t)' /\ ReadInStep(t)'
    BY OneListTouched
  <1>2. ReadAtOK' /\ ScopedUnlessBypass' /\ CopyIsFaithful'
    BY UntouchedCopy DEF DirectoryInv
  <1>3. TypeOK'
    BY <1>1 DEF DirectoryInv, TypeOK, portal, tables
  <1> QED
    BY <1>1, <1>2, <1>3 DEF DirectoryInv

(* Fail and Refuse *)
LEMMA ForgetStep ==
    ASSUME DirectoryInv, NEW s \in Syncers, Fail(s) \/ Refuse(s)
    PROVE  DirectoryInv'
  <1>1. /\ fetch' = [fetch EXCEPT ![s] = NoFetch]
        /\ UNCHANGED <<portal, tables, signing, destination, readAt>>
    BY DEF Fail, Refuse
  <1>2. FetchOK(s)' /\ ReadInStep(s)'
    BY <1>1, NoFetchOK DEF DirectoryInv
  <1> QED
    BY <1>1, <1>2, NoFetchType, ListStep

(* A page of departments extends what has been read by the places from the
   offset on, and the last page by all that are left.                        *)
LEMMA ReadDepartmentsStep ==
    ASSUME DirectoryInv, NEW s \in Syncers, ReadDepartments(s)
    PROVE  DirectoryInv'
  <1> DEFINE f == fetch[s]
             list == There(portalDepartments)
             g == fetch'[s]
  <1>1. /\ f \in Fetch /\ f.offset \in Nat /\ f.departments \in [Departments -> Row]
        /\ f.users \in [Users -> PortalUser] /\ f.since \in 0 .. MaxChanges
        /\ changes \in 0 .. MaxChanges /\ MaxChanges \in Nat /\ PageSize \in Nat \ {0}
    BY FetchFields DEF DirectoryInv
  <1>2. FetchOK(s) /\ ReadInStep(s) /\ f.at = "departments"
    BY DEF DirectoryInv, ReadDepartments
  <1>3. /\ fetch' = [fetch EXCEPT ![s] = g]
        /\ UNCHANGED <<portal, tables, signing, destination, readAt>>
        /\ g.at = (IF More(list, f.offset) THEN "departments" ELSE "users")
        /\ g.offset = (IF More(list, f.offset) THEN f.offset + PageSize ELSE 0)
        /\ g.departments = [d \in Departments |->
              IF d \in Page(list, f.offset) THEN PortalRow(d) ELSE f.departments[d]]
        /\ g.users = f.users
        /\ g.since = (IF f.offset = 0 THEN changes ELSE f.since)
        /\ DOMAIN g = {"at", "offset", "departments", "users", "since"}
    BY DEF ReadDepartments, DirectoryInv, TypeOK, PortalRow
  <1>4. g.departments \in [Departments -> Row]
    <2>1. ASSUME NEW d \in Departments
          PROVE  (IF d \in Page(list, f.offset) THEN PortalRow(d) ELSE f.departments[d]) \in Row
      BY <1>1, PortalTypes DEF DirectoryInv
    <2> QED
      BY <1>3, <2>1
  <1>5. g \in Fetch
    <2>1. g = [at |-> g.at, offset |-> g.offset, departments |-> g.departments,
               users |-> g.users, since |-> g.since]
      BY DEF ReadDepartments, DirectoryInv, TypeOK
    <2>2. g.at \in {"departments", "users", "commit"} /\ g.offset \in Nat
      BY <1>1, <1>3
    <2>3. g.users \in [Users -> PortalUser] /\ g.since \in 0 .. MaxChanges
      BY <1>1, <1>3
    <2> QED
      BY <1>4, <2>1, <2>2, <2>3 DEF Fetch
  <1>6. FetchOK(s)'
    <2>1. g.since <= changes
      BY <1>1, <1>2, <1>3 DEF FetchOK
    <2>2. g.at = "departments" => g.offset # 0
      BY <1>1, <1>3
    <2>3. g.users = [u \in Users |-> NoUser]
      BY <1>2, <1>3 DEF FetchOK
    <2> QED
      BY <1>3, <2>1, <2>2, <2>3 DEF FetchOK, NoUser, portal
  <1>7. f.offset = 0 \/ f.since = changes =>
            \A d \in Departments : f.departments[d] =
                IF d \in list /\ Rank(list, d) < f.offset THEN PortalRow(d) ELSE NoRow
    <2>1. CASE f.offset = 0
      <3>1. \A d \in Departments : f.departments[d] = NoRow
        BY <1>2, <2>1 DEF FetchOK, NoFetch
      <3>2. \A d \in Departments : Rank(list, d) \in Nat
        BY ListsAreFinite, RankType
      <3> QED
        BY <2>1, <3>1, <3>2
    <2>2. CASE f.since = changes
      BY <1>2, <2>2 DEF ReadInStep, DepartmentRead, DepartmentPassed
    <2> QED
      BY <2>1, <2>2
  <1>8. ReadInStep(s)'
    <2>1. SUFFICES ASSUME g.since = changes
                   PROVE  /\ \A d \in Departments : DepartmentRead(fetch[s], d)'
                          /\ \A u \in Users : UserRead(fetch[s], u)'
      BY <1>3 DEF ReadInStep, portal
    <2>2. f.offset = 0 \/ f.since = changes
      BY <1>3, <2>1
    <2>3. ASSUME NEW d \in Departments PROVE DepartmentRead(fetch[s], d)'
      <3>1. Rank(list, d) \in Nat
        BY ListsAreFinite, RankType
      <3>2. d \in list => Rank(list, d) < f.offset + PageSize \/ More(list, f.offset)
        BY <1>1, <3>1 DEF More
      <3>3. g.departments[d] =
              IF d \in list /\ (g.at = "departments" => Rank(list, d) < g.offset)
              THEN PortalRow(d) ELSE NoRow
        <4>1. g.departments[d] = IF d \in Page(list, f.offset) THEN PortalRow(d)
                                                               ELSE f.departments[d]
          BY <1>3
        <4>2. f.departments[d] = IF d \in list /\ Rank(list, d) < f.offset
                                 THEN PortalRow(d) ELSE NoRow
          BY <1>7, <2>2
        <4>3. d \in Page(list, f.offset) <=>
                  d \in list /\ Rank(list, d) >= f.offset /\ Rank(list, d) < f.offset + PageSize
          BY DEF Page
        <4> QED
          BY <1>1, <1>3, <3>1, <3>2, <4>1, <4>2, <4>3
      <3> QED
        BY <1>3, <3>3 DEF DepartmentRead, DepartmentPassed, PortalRow, portal
    <2>4. ASSUME NEW u \in Users PROVE UserRead(fetch[s], u)'
      <3>1. g.users[u] = NoUser
        BY <1>2, <1>3 DEF FetchOK
      <3>2. ~UserPassed(fetch[s], u)'
        <4>1. CASE g.at = "departments"
          BY <4>1 DEF UserPassed
        <4>2. CASE g.at = "users"
          <5>1. g.offset = 0 /\ Rank(Scoped, u) \in Nat
            BY <1>3, <4>2, ListsAreFinite, RankType
          <5> QED
            BY <1>3, <4>2, <5>1 DEF UserPassed, Scoped, portal
        <4> QED
          BY <1>3, <4>1, <4>2
      <3> QED
        BY <3>1, <3>2 DEF UserRead
    <2> QED
      BY <2>3, <2>4
  <1> QED
    BY <1>3, <1>5, <1>6, <1>8, ListStep

(* A page of users, likewise; they are all of the scope department. *)
LEMMA ReadUsersStep ==
    ASSUME DirectoryInv, NEW s \in Syncers, ReadUsers(s)
    PROVE  DirectoryInv'
  <1> DEFINE f == fetch[s]
             g == fetch'[s]
  <1>1. /\ f \in Fetch /\ f.offset \in Nat /\ f.departments \in [Departments -> Row]
        /\ f.users \in [Users -> PortalUser] /\ f.since \in 0 .. MaxChanges
        /\ changes \in 0 .. MaxChanges /\ MaxChanges \in Nat /\ PageSize \in Nat \ {0}
    BY FetchFields DEF DirectoryInv
  <1>2. FetchOK(s) /\ ReadInStep(s) /\ f.at = "users"
    BY DEF DirectoryInv, ReadUsers
  <1>3. /\ fetch' = [fetch EXCEPT ![s] = g]
        /\ UNCHANGED <<portal, tables, signing, destination, readAt>>
        /\ g.at = (IF More(Scoped, f.offset) THEN "users" ELSE "commit")
        /\ g.offset = (IF More(Scoped, f.offset) THEN f.offset + PageSize ELSE 0)
        /\ g.departments = f.departments
        /\ g.users = [u \in Users |->
              IF u \in Page(Scoped, f.offset) THEN portalUsers[u] ELSE f.users[u]]
        /\ g.since = f.since
        /\ g = [at |-> g.at, offset |-> g.offset, departments |-> g.departments,
                users |-> g.users, since |-> g.since]
    BY <1>1 DEF ReadUsers, DirectoryInv, TypeOK, Fetch
  <1>4. g.users \in [Users -> PortalUser]
    <2>1. ASSUME NEW u \in Users
          PROVE  (IF u \in Page(Scoped, f.offset) THEN portalUsers[u] ELSE f.users[u])
                    \in PortalUser
      BY <1>1, PortalTypes DEF DirectoryInv
    <2> QED
      BY <1>3, <2>1
  <1>5. g \in Fetch
    <2>1. g.at \in {"departments", "users", "commit"} /\ g.offset \in Nat
      BY <1>1, <1>3
    <2> QED
      BY <1>1, <1>3, <1>4, <2>1 DEF Fetch
  <1>6. FetchOK(s)'
    <2>1. ASSUME NEW u \in Users, g.users[u].depts # {} PROVE Scope \in g.users[u].depts
      <3>1. CASE u \in Page(Scoped, f.offset)
        BY <1>3, <3>1 DEF Page, Scoped
      <3>2. CASE u \notin Page(Scoped, f.offset)
        BY <1>2, <1>3, <2>1, <3>2 DEF FetchOK
      <3> QED
        BY <3>1, <3>2
    <2>2. g.since <= changes' /\ g.at # "departments"
      BY <1>2, <1>3 DEF FetchOK, portal
    <2> QED
      BY <2>1, <2>2 DEF FetchOK
  <1>7. ReadInStep(s)'
    <2>1. SUFFICES ASSUME f.since = changes
                   PROVE  /\ \A d \in Departments : DepartmentRead(fetch[s], d)'
                          /\ \A u \in Users : UserRead(fetch[s], u)'
      BY <1>3 DEF ReadInStep, portal
    <2>2. ASSUME NEW d \in Departments PROVE DepartmentRead(fetch[s], d)'
      <3>1. f.departments[d] = IF d \in There(portalDepartments)
                               THEN PortalRow(d) ELSE NoRow
        BY <1>2, <2>1 DEF ReadInStep, DepartmentRead, DepartmentPassed
      <3>2. g.departments[d] = f.departments[d] /\ g.at # "departments"
        BY <1>3
      <3> QED
        BY <1>3, <3>1, <3>2 DEF DepartmentRead, DepartmentPassed, PortalRow, portal
    <2>3. ASSUME NEW u \in Users PROVE UserRead(fetch[s], u)'
      <3>1. Rank(Scoped, u) \in Nat
        BY ListsAreFinite, RankType
      <3>2. u \in Scoped => Rank(Scoped, u) < f.offset + PageSize \/ More(Scoped, f.offset)
        BY <1>1, <3>1 DEF More
      <3>3. g.users[u] = IF u \in Scoped /\ (g.at = "users" => Rank(Scoped, u) < g.offset)
                         THEN portalUsers[u] ELSE NoUser
        <4>1. g.users[u] = IF u \in Page(Scoped, f.offset) THEN portalUsers[u] ELSE f.users[u]
          BY <1>3
        <4>2. f.users[u] = IF u \in Scoped /\ Rank(Scoped, u) < f.offset
                           THEN portalUsers[u] ELSE NoUser
          BY <1>2, <2>1 DEF ReadInStep, UserRead, UserPassed
        <4>3. u \in Page(Scoped, f.offset) <=>
                  /\ u \in Scoped /\ Rank(Scoped, u) >= f.offset
                  /\ Rank(Scoped, u) < f.offset + PageSize
          BY DEF Page
        <4> QED
          BY <1>1, <1>3, <3>1, <3>2, <4>1, <4>2, <4>3
      <3>4. g.at # "departments" /\ Scoped' = Scoped /\ portalUsers' = portalUsers
        BY <1>3 DEF Scoped, portal
      <3> QED
        BY <3>3, <3>4 DEF UserRead, UserPassed
    <2> QED
      BY <2>2, <2>3
  <1> QED
    BY <1>3, <1>5, <1>6, <1>7, ListStep

(* When the portal changes, no list and no copy that there is can be of the
   portal as it is now.                                                      *)
LEMMA ChangeStep ==
    ASSUME DirectoryInv, changes < MaxChanges, changes' = changes + 1,
           portalDepartments' \in [Departments -> PortalDepartment],
           portalUsers' \in [Users -> PortalUser],
           UNCHANGED <<tables, fetch, signing, destination, readAt>>
    PROVE  DirectoryInv'
  <1>1. changes \in 0 .. MaxChanges /\ MaxChanges \in Nat
    BY DirectoryAssumption DEF DirectoryInv, TypeOK
  <1>2. TypeOK'
    BY <1>1 DEF DirectoryInv, TypeOK, tables
  <1>3. ReadAtOK' /\ readAt # changes' /\ ScopedUnlessBypass'
    <2>1. readAt \in 0 .. Never /\ ReadAtOK
      BY DEF DirectoryInv, TypeOK
    <2> QED
      BY <1>1, <2>1 DEF DirectoryInv, ReadAtOK, Never, ScopedUnlessBypass, tables
  <1>4. ASSUME NEW s \in Syncers PROVE FetchOK(s)' /\ ReadInStep(s)'
    <2>1. FetchOK(s) /\ fetch[s].since \in 0 .. MaxChanges
      BY <1>1, FetchFields DEF DirectoryInv
    <2>2. fetch[s].since <= changes' /\ fetch[s].since # changes'
      BY <1>1, <2>1 DEF FetchOK
    <2> QED
      BY <2>1, <2>2 DEF FetchOK, ReadInStep
  <1> QED
    BY <1>2, <1>3, <1>4 DEF DirectoryInv, CopyIsFaithful

-----------------------------------------------------------------------------
(* The transaction *)

(* The list whose reading saw one state of the portal is that state. *)
LEMMA ListIsPortal ==
    ASSUME DirectoryInv, NEW s \in Syncers, fetch[s].at = "commit",
           fetch[s].since = changes
    PROVE  /\ \A d \in Departments : fetch[s].departments[d] =
                  IF d \in There(portalDepartments) THEN PortalRow(d) ELSE NoRow
           /\ \A u \in Users : fetch[s].users[u] =
                  IF u \in Scoped THEN portalUsers[u] ELSE NoUser
  <1>1. ReadInStep(s)
    BY DEF DirectoryInv
  <1> QED
    BY <1>1 DEF ReadInStep, DepartmentRead, DepartmentPassed, UserRead, UserPassed

(* Writing such a list brings the copy in step. *)
LEMMA CommitInStep ==
    ASSUME DirectoryInv, NEW s \in Syncers, Commit(s), fetch[s].since = changes
    PROVE  InStep'
  <1> DEFINE f == fetch[s]
  <1>1. /\ department' = [d \in Departments |-> SyncedDepartment(f, d)]
        /\ operator' = [u \in Users |-> SyncedOperator(f, u)]
        /\ member' = [u \in Users |-> SyncedMember(f, u)]
        /\ UNCHANGED portal /\ ~Refused(f) /\ f.at = "commit"
    BY DEF Commit
  <1>2. /\ \A d \in Departments : f.departments[d] =
               IF d \in There(portalDepartments) THEN PortalRow(d) ELSE NoRow
        /\ \A u \in Users : f.users[u] =
               IF u \in Scoped THEN portalUsers[u] ELSE NoUser
    BY <1>1, ListIsPortal
  <1>3. /\ There(portalDepartments') = There(portalDepartments) /\ Scoped' = Scoped
        /\ portalDepartments' = portalDepartments /\ portalUsers' = portalUsers
    BY <1>1 DEF Scoped, portal
  <1>4. \A u \in Users : u \in Listed(f) <=> u \in Scoped
    BY <1>2 DEF Listed, Scoped, NoUser
  <1>5. ASSUME NEW d \in Departments PROVE DepartmentInStep(d)'
    <2>1. CASE d \in There(portalDepartments)
      <3>1. f.departments[d] = PortalRow(d)
        BY <1>2, <2>1
      <3>2. department'[d] = PortalRow(d)
        BY <1>1, <3>1 DEF SyncedDepartment, PortalRow
      <3> QED
        BY <1>3, <2>1, <3>2 DEF DepartmentInStep, Active, PortalRow
    <2>2. CASE d \notin There(portalDepartments)
      <3>1. f.departments[d] = NoRow
        BY <1>2, <2>2
      <3>2. department'[d] = [department[d] EXCEPT !.active = FALSE]
        BY <1>1, <3>1 DEF SyncedDepartment, NoRow
      <3>3. department[d] \in Row
        BY DEF DirectoryInv, TypeOK
      <3>4. ~department'[d].active
        BY <3>2, <3>3 DEF Row
      <3> QED
        BY <1>3, <2>2, <3>4 DEF DepartmentInStep, Active
    <2> QED
      BY <2>1, <2>2
  <1>6. ASSUME NEW u \in Users PROVE OperatorInStep(u)'
    <2>1. CASE u \in Scoped
      <3>1. u \in Listed(f) /\ f.users[u] = portalUsers[u]
        BY <1>2, <1>4, <2>1
      <3>2. f.departments[Scope].head = portalDepartments[Scope].head
        <4>1. Scope \in Departments /\ f.departments[Scope].present
          BY <1>1, DirectoryAssumption DEF Refused
        <4>2. f.departments[Scope] =
                  IF Scope \in There(portalDepartments) THEN PortalRow(Scope) ELSE NoRow
          BY <1>2, <4>1
        <4>3. f.departments[Scope] = PortalRow(Scope)
          BY <4>1, <4>2 DEF NoRow
        <4> QED
          BY <4>3 DEF PortalRow
      <3>3. operator'[u] = [present |-> TRUE, active |-> TRUE, role |-> Role(f, u)]
        BY <1>1, <3>1 DEF SyncedOperator
      <3>4. member'[u] = portalUsers[u].depts
        BY <1>1, <3>1 DEF SyncedMember
      <3>5. Role(f, u) = IF Leading(u)' THEN "supervisor" ELSE "operator"
        BY <1>3, <3>2 DEF Role, Leading
      <3> QED
        BY <1>3, <2>1, <3>3, <3>4, <3>5 DEF OperatorInStep
    <2>2. CASE u \notin Scoped
      <3>1. u \notin Listed(f)
        BY <1>4, <2>2
      <3>2. operator[u] \in Operator
        BY DEF DirectoryInv, TypeOK
      <3>3. operator'[u].active => operator[u].active /\ ~Dropped(f, u)
        BY <1>1, <3>1, <3>2 DEF SyncedOperator, Operator
      <3>4. operator[u].active => Scope \in member[u] \/ u \in Bypass
        BY DEF DirectoryInv, ScopedUnlessBypass
      <3>5. ~Dropped(f, u) => Listed(f) = {} \/ Scope \notin member[u]
        BY <3>1 DEF Dropped, SyncedMember
      <3>6. Listed(f) = {} => Scoped = {}
        <4>1. Scoped \subseteq Users
          BY DEF Scoped
        <4> QED
          BY <1>4, <4>1
      <3> QED
        BY <1>3, <2>2, <3>3, <3>4, <3>5, <3>6 DEF OperatorInStep
    <2> QED
      BY <2>1, <2>2
  <1> QED
    BY <1>5, <1>6 DEF InStep

(* The transaction of a sync keeps the invariant. *)
LEMMA CommitStep ==
    ASSUME DirectoryInv, NEW s \in Syncers, Commit(s)
    PROVE  DirectoryInv'
  <1> DEFINE f == fetch[s]
  <1>1. /\ department' = [d \in Departments |-> SyncedDepartment(f, d)]
        /\ operator' = [u \in Users |-> SyncedOperator(f, u)]
        /\ member' = [u \in Users |-> SyncedMember(f, u)]
        /\ readAt' = f.since
        /\ fetch' = [fetch EXCEPT ![s] = NoFetch]
        /\ UNCHANGED <<portal, signing, destination>>
    BY DEF Commit
  <1>2. f \in Fetch /\ f.since \in 0 .. MaxChanges /\ MaxChanges \in Nat /\ FetchOK(s)
    BY FetchFields DEF DirectoryInv
  <1>3. FetchOK(s)' /\ ReadInStep(s)'
    BY <1>1, NoFetchOK DEF DirectoryInv
  <1>4. /\ fetch' \in [Syncers -> Fetch]
        /\ \A t \in Syncers : FetchOK(t)' /\ ReadInStep(t)'
    BY <1>1, <1>3, NoFetchType, OneListTouched
  <1>5. TypeOK'
    <2>1. /\ department' \in [Departments -> Row]
          /\ operator' \in [Users -> Operator]
          /\ member' \in [Users -> SUBSET Departments]
      BY <1>1, <1>2, SyncedTypes DEF DirectoryInv
    <2>2. readAt' \in 0 .. Never
      BY <1>1, <1>2 DEF Never
    <2> QED
      BY <1>1, <1>4, <2>1, <2>2 DEF DirectoryInv, TypeOK, portal
  <1>6. ReadAtOK'
    BY <1>1, <1>2 DEF ReadAtOK, FetchOK, portal
  <1>7. ScopedUnlessBypass'
    <2>1. ASSUME NEW u \in Users, operator'[u].active
          PROVE  Scope \in member'[u] \/ u \in Bypass
      <3>1. CASE u \in Listed(f)
        BY <1>1, <1>2, <3>1 DEF SyncedMember, Listed, FetchOK
      <3>2. CASE u \notin Listed(f)
        <4>1. operator[u] \in Operator
          BY DEF DirectoryInv, TypeOK
        <4>2. operator[u].active
          BY <1>1, <2>1, <3>2, <4>1 DEF SyncedOperator, Operator
        <4> QED
          BY <1>1, <3>2, <4>2 DEF SyncedMember, DirectoryInv, ScopedUnlessBypass
      <3> QED
        BY <3>1, <3>2
    <2> QED
      BY <2>1 DEF ScopedUnlessBypass
  <1>8. CopyIsFaithful'
    BY <1>1, CommitInStep DEF CopyIsFaithful, portal
  <1>9. signing' \subseteq Bypass
    BY <1>1 DEF DirectoryInv
  <1> QED
    BY <1>4, <1>5, <1>6, <1>7, <1>8, <1>9 DEF DirectoryInv

-----------------------------------------------------------------------------
(* Sign-in and the resolution of destinations *)

(* The first statement of a sign-in changes no table. *)
LEMMA SignInStep ==
    ASSUME DirectoryInv, NEW u \in Users, SignIn(u)
    PROVE  DirectoryInv'
  <1>1. u \in Bypass /\ signing' = signing \cup {u}
    BY DEF SignIn
  <1>2. UNCHANGED <<portal, tables, readAt, fetch, destination>>
    BY DEF SignIn
  <1>3. TypeOK' /\ signing' \subseteq Bypass
    BY <1>1, <1>2 DEF DirectoryInv, TypeOK, portal, tables
  <1>4. ReadAtOK' /\ ScopedUnlessBypass' /\ CopyIsFaithful'
    BY <1>2, UntouchedCopy DEF DirectoryInv
  <1>5. \A t \in Syncers : FetchOK(t)' /\ ReadInStep(t)'
    BY <1>2, UntouchedList DEF DirectoryInv
  <1> QED
    BY <1>3, <1>4, <1>5 DEF DirectoryInv

(* The second makes an active supervisor of a user of the bypass list, whatever
   a sync has made of the user since the first; that list is excepted from what
   a copy in step says of activity and roles.                                *)
LEMMA UpsertStep ==
    ASSUME DirectoryInv, NEW u \in Users, UpsertSupervisor(u)
    PROVE  DirectoryInv'
  <1>1. /\ operator' = [operator EXCEPT ![u] = Supervisor]
        /\ UNCHANGED <<portal, department, member, fetch, destination, readAt>>
    BY DEF UpsertSupervisor
  <1>2. operator \in [Users -> Operator] /\ Supervisor \in Operator
    BY DEF DirectoryInv, TypeOK, Supervisor, Operator
  <1>3. u \in Bypass /\ signing' \subseteq signing
    BY DEF DirectoryInv, UpsertSupervisor
  <1>4. TypeOK' /\ signing' \subseteq Bypass
    BY <1>1, <1>2, <1>3 DEF DirectoryInv, TypeOK, portal
  <1>5. ReadAtOK' /\ ScopedUnlessBypass'
    BY <1>1, <1>2, <1>3 DEF DirectoryInv, ReadAtOK, ScopedUnlessBypass, portal
  <1>6. \A t \in Syncers : FetchOK(t)' /\ ReadInStep(t)'
    BY <1>1, UntouchedList DEF DirectoryInv
  <1>7. ASSUME readAt' = changes' PROVE InStep'
    <2>1. InStep
      BY <1>1, <1>7 DEF DirectoryInv, CopyIsFaithful, portal
    <2>2. \A d \in Departments : DepartmentInStep(d)'
      BY <1>1, <2>1 DEF InStep, DepartmentInStep, Active, There, portal
    <2>3. ASSUME NEW v \in Users PROVE OperatorInStep(v)'
      <3>1. OperatorInStep(v) /\ Scoped' = Scoped /\ Leading(v)' = Leading(v)
        BY <1>1, <2>1 DEF InStep, Scoped, Leading, portal
      <3>2. CASE v = u
        <4>1. operator'[v] = Supervisor /\ v \in Bypass
          BY <1>1, <1>2, <1>3, <3>2
        <4> QED
          BY <1>1, <3>1, <4>1 DEF OperatorInStep, Supervisor, portal
      <3>3. CASE v # u
        <4>1. operator'[v] = operator[v]
          BY <1>1, <1>2, <3>3
        <4> QED
          BY <1>1, <3>1, <4>1 DEF OperatorInStep, portal
      <3> QED
        BY <3>2, <3>3
    <2> QED
      BY <2>2, <2>3 DEF InStep
  <1> QED
    BY <1>4, <1>5, <1>6, <1>7 DEF DirectoryInv, CopyIsFaithful

(* So does the resolution of a destination, which writes nothing else. *)
LEMMA DestinationStep ==
    ASSUME DirectoryInv, (\E d \in Requested : Origin(d)) \/ Resolve
    PROVE  DirectoryInv'
  <1>1. UNCHANGED <<portal, tables, readAt, fetch, signing>>
    BY DEF Origin, Resolve
  <1>2. ReadAtOK' /\ ScopedUnlessBypass' /\ CopyIsFaithful'
    BY <1>1, UntouchedCopy DEF DirectoryInv
  <1>3. \A t \in Syncers : FetchOK(t)' /\ ReadInStep(t)'
    BY <1>1, UntouchedList DEF DirectoryInv
  <1>4. destination' \in Destined
    <2>1. CASE \E d \in Requested : Origin(d)
      <3>1. PICK d \in Requested : Origin(d)
        BY <2>1
      <3>2. d \in Departments
        BY <3>1, DirectoryAssumption
      <3> QED
        BY <3>1, <3>2 DEF Origin, Destined
    <2>2. CASE Resolve
      <3> DEFINE head == Responsible(department, destination.department)
      <3>1. destination \in Destined /\ destination.at = "origin"
        BY <2>2 DEF Resolve, DirectoryInv, TypeOK
      <3>2. /\ destination.department \in Departments
            /\ destination = [at |-> "origin", department |-> destination.department,
                              responsible |-> Null]
        BY <3>1 DEF Destined, Undestined
      <3>3. CASE head = Null
        BY <2>2, <3>3 DEF Resolve, Destined
      <3>4. CASE head # Null
        <4>1. head \in Users
          BY <3>4, ResponsibleType DEF DirectoryInv, TypeOK
        <4>2. destination' = [destination EXCEPT !.at = "resolved", !.responsible = head]
          BY <2>2, <3>4 DEF Resolve
        <4>3. destination' = [at |-> "resolved", department |-> destination.department,
                              responsible |-> head]
          BY <3>2, <4>2
        <4> QED
          BY <3>2, <4>1, <4>3 DEF Destined
      <3> QED
        BY <3>3, <3>4
    <2> QED
      BY <2>1, <2>2
  <1>5. TypeOK'
    BY <1>1, <1>4 DEF DirectoryInv, TypeOK, portal, tables
  <1> QED
    BY <1>1, <1>2, <1>3, <1>5 DEF DirectoryInv

-----------------------------------------------------------------------------
(* The invariant *)

(* The empty tables and the syncers before their first page satisfy it. *)
LEMMA DirectoryInvInit == Init => DirectoryInv
  <1> SUFFICES ASSUME Init PROVE DirectoryInv
    OBVIOUS
  <1> USE DirectoryAssumption
  <1>1. TypeOK
    <2>1. department \in [Departments -> Row]
      BY DEF Init, NoRow, Row
    <2>2. operator \in [Users -> Operator]
      BY DEF Init, NoOperator, Operator
    <2>3. fetch \in [Syncers -> Fetch]
      BY NoFetchType DEF Init
    <2>4. readAt \in 0 .. Never /\ changes \in 0 .. MaxChanges
      BY DEF Init, Never
    <2> QED
      BY <2>1, <2>2, <2>3, <2>4 DEF Init, TypeOK, Destined
  <1>2. ReadAtOK /\ CopyIsFaithful
    BY DEF Init, ReadAtOK, CopyIsFaithful, Never
  <1>3. ScopedUnlessBypass
    BY DEF Init, ScopedUnlessBypass, NoOperator
  <1>4. ASSUME NEW s \in Syncers PROVE FetchOK(s) /\ ReadInStep(s)
    <2>1. fetch[s] = NoFetch /\ changes = 0
      BY DEF Init
    <2>2. NoFetch.since = 0 /\ NoFetch.users = [u \in Users |-> NoUser]
      BY DEF NoFetch
    <2>3. FetchOK(s)
      BY <2>1, <2>2 DEF FetchOK, NoUser
    <2>4. ASSUME NEW d \in Departments PROVE DepartmentRead(NoFetch, d)
      <3>1. Rank(There(portalDepartments), d) \in Nat
        BY ListsAreFinite, RankType
      <3> QED
        BY <3>1 DEF DepartmentRead, DepartmentPassed, NoFetch
    <2>5. ASSUME NEW u \in Users PROVE UserRead(NoFetch, u)
      BY DEF UserRead, UserPassed, NoFetch
    <2> QED
      BY <2>1, <2>3, <2>4, <2>5 DEF ReadInStep
  <1> QED
    BY <1>1, <1>2, <1>3, <1>4 DEF DirectoryInv, Init

(* Every action keeps it. *)
LEMMA DirectoryInvStep == DirectoryInv /\ [Next]_vars => DirectoryInv'
  <1> SUFFICES ASSUME DirectoryInv, [Next]_vars PROVE DirectoryInv'
    OBVIOUS
  <1>1. ASSUME NEW d \in Departments, NEW new \in DepartmentValues[d],
               ChangeDepartment(d, new)
        PROVE  DirectoryInv'
    <2>1. new \in PortalDepartment
      BY DirectoryAssumption
    <2>2. portalDepartments' \in [Departments -> PortalDepartment]
      BY <1>1, <2>1 DEF ChangeDepartment, DirectoryInv, TypeOK
    <2> QED
      BY <1>1, <2>2, ChangeStep DEF ChangeDepartment, DirectoryInv, TypeOK
  <1>2. ASSUME NEW u \in Users, NEW new \in UserValues[u], ChangeUser(u, new)
        PROVE  DirectoryInv'
    <2>1. new \in PortalUser
      BY DirectoryAssumption
    <2>2. portalUsers' \in [Users -> PortalUser]
      BY <1>2, <2>1 DEF ChangeUser, DirectoryInv, TypeOK
    <2> QED
      BY <1>2, <2>2, ChangeStep DEF ChangeUser, DirectoryInv, TypeOK
  <1>3. ASSUME NEW s \in Syncers, SyncStep(s) \/ Fail(s) PROVE DirectoryInv'
    BY <1>3, ReadDepartmentsStep, ReadUsersStep, CommitStep, ForgetStep DEF SyncStep
  <1>4. ASSUME NEW u \in Users, SignIn(u) \/ UpsertSupervisor(u) PROVE DirectoryInv'
    BY <1>4, SignInStep, UpsertStep
  <1>5. CASE (\E d \in Requested : Origin(d)) \/ Resolve
    BY <1>5, DestinationStep
  <1>6. CASE UNCHANGED vars
    <2>1. UNCHANGED <<portal, tables, readAt, fetch, signing, destination>>
      BY <1>6 DEF vars, portal, tables
    <2>2. ReadAtOK' /\ ScopedUnlessBypass' /\ CopyIsFaithful'
      BY <2>1, UntouchedCopy DEF DirectoryInv
    <2>3. \A t \in Syncers : FetchOK(t)' /\ ReadInStep(t)'
      BY <2>1, UntouchedList DEF DirectoryInv
    <2>4. TypeOK'
      BY <2>1 DEF DirectoryInv, TypeOK, portal, tables
    <2> QED
      BY <2>1, <2>2, <2>3, <2>4 DEF DirectoryInv
  <1> QED
    BY <1>1, <1>2, <1>3, <1>4, <1>5, <1>6 DEF Next

(* The invariant holds in every state. *)
THEOREM DirectoryInvariant == Spec => []DirectoryInv
  BY DirectoryInvInit, DirectoryInvStep, PTL DEF Spec

-----------------------------------------------------------------------------
(* What follows *)

(* The tables, the lists and the destinations keep their types. *)
THEOREM TypeCorrect == Spec => []TypeOK
  <1>1. DirectoryInv => TypeOK
    BY DEF DirectoryInv
  <1> QED
    BY <1>1, DirectoryInvariant, PTL

(* A sync that saw one state of the portal leaves a copy in step with it, which
   no other sync, failing page or sign-in spoils.                            *)
THEOREM CopiesAreFaithful == Spec => []CopyIsFaithful
  <1>1. DirectoryInv => CopyIsFaithful
    BY DEF DirectoryInv
  <1> QED
    BY <1>1, DirectoryInvariant, PTL

(* By such a copy only members of the scope department act, only its leads
   supervise, and the bypass list is the only exception.                     *)
THEOREM AccessFollowsThePortal == Spec => []AccessFollowsPortal
  <1>1. DirectoryInv => AccessFollowsPortal
    <2> SUFFICES ASSUME DirectoryInv, readAt = changes, Scoped # {}, NEW u \in Users \ Bypass
                 PROVE  /\ CurrentUser(u) => u \in Scoped
                        /\ Supervises(u) => Leading(u)
      BY DEF AccessFollowsPortal
    <2>1. OperatorInStep(u)
      BY DEF DirectoryInv, CopyIsFaithful, InStep
    <2> QED
      BY <2>1 DEF OperatorInStep, CurrentUser, Supervises
  <1> QED
    BY <1>1, DirectoryInvariant, PTL

(* Whatever mixture of pages is written, nobody becomes active who was not read
   as a member of the scope department or is of the bypass list.             *)
THEOREM OnlyScopedOrBypass == Spec => []ScopedUnlessBypass
  <1>1. DirectoryInv => ScopedUnlessBypass
    BY DEF DirectoryInv
  <1> QED
    BY <1>1, DirectoryInvariant, PTL

(* How a step touches the operators: a sync, a sign-in, or not at all *)
LEMMA OperatorSteps ==
    ASSUME [Next]_vars
    PROVE  \/ \E s \in Syncers : Commit(s)
           \/ \E u \in Users : UpsertSupervisor(u)
           \/ UNCHANGED operator
  BY DEF Next, vars, SyncStep, ChangeDepartment, ChangeUser, ReadDepartments, ReadUsers,
         Fail, Refuse, SignIn, Origin, Resolve, tables

(* A sign-in takes nobody's access. *)
LEMMA SignInKeepsAccess ==
    ASSUME DirectoryInv, NEW u \in Users, UpsertSupervisor(u), NEW v \in Users,
           operator[v].active
    PROVE  operator'[v].active
  <1>1. operator \in [Users -> Operator]
    BY DEF DirectoryInv, TypeOK
  <1> QED
    BY <1>1 DEF UpsertSupervisor, Supervisor

(* Once somebody is active, somebody always is: no sync of a list without users
   locks everybody out.                                                      *)
THEOREM NeverLocksOut == Spec => NeverEmptied
  <1>1. DirectoryInv /\ [Next]_vars => [SomebodyActive => SomebodyActive']_vars
    <2> SUFFICES ASSUME DirectoryInv, [Next]_vars, SomebodyActive PROVE SomebodyActive'
      OBVIOUS
    <2>1. PICK v \in Users : operator[v].active
      BY DEF SomebodyActive
    <2>2. ASSUME NEW s \in Syncers, Commit(s) PROVE SomebodyActive'
      <3> DEFINE f == fetch[s]
      <3>1. operator' = [u \in Users |-> SyncedOperator(f, u)]
        BY <2>2 DEF Commit
      <3>2. CASE Listed(f) = {}
        <4>1. operator'[v] = operator[v]
          BY <3>1, <3>2 DEF SyncedOperator, Dropped
        <4> QED
          BY <2>1, <4>1 DEF SomebodyActive
      <3>3. CASE Listed(f) # {}
        <4>1. PICK u \in Users : u \in Listed(f)
          BY <3>3 DEF Listed
        <4>2. operator'[u].active
          BY <3>1, <4>1 DEF SyncedOperator
        <4> QED
          BY <4>2 DEF SomebodyActive
      <3> QED
        BY <3>2, <3>3
    <2>3. ASSUME NEW u \in Users, UpsertSupervisor(u) PROVE SomebodyActive'
      <3>1. operator'[v].active
        BY <2>1, <2>3, SignInKeepsAccess
      <3> QED
        BY <3>1 DEF SomebodyActive
    <2>4. CASE UNCHANGED operator
      BY <2>4 DEF SomebodyActive
    <2> QED
      BY <2>2, <2>3, <2>4, OperatorSteps
  <1> QED
    BY <1>1, DirectoryInvariant, PTL DEF Spec, NeverEmptied

-----------------------------------------------------------------------------
(* The destination *)

(* In whatever table a sync has left, the query finds the nearest head of each
   department from which the way up is not longer than it climbs.            *)
THEOREM NearestHeadsFound == Spec => FindsNearestHead
  <1> DEFINE Nearest ==
          department' # department =>
              \A d \in Departments :
                  Active(department', d) =>
                      \/ Responsible(department', d) = NearestHead(department', d)
                      \/ Cardinality(Passed(department', d)) > MaxDepth + 1
  <1>1. Nearest
    <2> SUFFICES ASSUME NEW d \in Departments, Active(department', d),
                        ~(Cardinality(Passed(department', d)) > MaxDepth + 1)
                 PROVE  Responsible(department', d) = NearestHead(department', d)
      OBVIOUS
    <2>1. IsFiniteSet(Departments) /\ MaxDepth \in Nat
      BY DirectoryAssumption, DestinationAssumption
    <2>2. Passed(department', d) \in SUBSET Departments
      BY PassedIsLeast
    <2>3. Cardinality(Passed(department', d)) \in Nat
      BY <2>1, <2>2, FS_Subset, FS_CardinalityType
    <2>4. Cardinality(Passed(department', d)) <= MaxDepth + 1
      BY <2>1, <2>3
    <2> QED
      BY <2>1, <2>4, FindsNearest
  <1>2. [Next]_vars => [Nearest]_vars
    BY <1>1
  <1> QED
    BY <1>2, PTL DEF Spec, FindsNearestHead

(* A destination is resolved to an active department and its nearest head, in the
   table as it is at that step, however long the way up and whatever was
   committed since the department was chosen.                                *)
THEOREM DestinationsAreCurrent == Spec => DestinationIsCurrent
  <1> DEFINE Current ==
          destination.at = "origin" /\ destination'.at = "resolved" =>
              /\ Active(department, destination.department)
              /\ destination'.responsible = NearestHead(department, destination.department)
  <1>1. ASSUME TypeOK, Next PROVE Current
    <2>1. CASE Resolve
      <3> SUFFICES ASSUME destination.at = "origin", destination'.at = "resolved"
                   PROVE  Current
        OBVIOUS
      <3>1. destination.department \in Departments
        BY <1>1 DEF TypeOK, Destined, Undestined
      <3>2. /\ Responsible(department, destination.department) # Null
            /\ destination'.responsible = Responsible(department, destination.department)
        BY <1>1, <2>1 DEF Resolve, Undestined, TypeOK, Destined
      <3> QED
        BY <3>1, <3>2, FoundIsNearest
    <2>2. CASE \E d \in Requested : Origin(d)
      BY <2>2 DEF Origin
    <2>3. CASE destination' = destination
      BY <2>3
    <2> HIDE DEF Current
    <2> QED
      BY <1>1, <2>1, <2>2, <2>3
         DEF Next, ChangeDepartment, ChangeUser, SyncStep, ReadDepartments, ReadUsers,
             Commit, Refuse, Fail, SignIn, UpsertSupervisor
  <1>2. TypeOK /\ [Next]_vars => [Current]_vars
    BY <1>1
  <1> QED
    BY <1>2, TypeCorrect, PTL DEF Spec, DestinationIsCurrent
=============================================================================
