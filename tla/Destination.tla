---------------------------- MODULE Destination ----------------------------
(***************************************************************************)
(* Who is made responsible for a confirmed task.                           *)
(*                                                                         *)
(* resolve_task_destination takes the department of the request and climbs *)
(* to the nearest one that has a head, with a recursive query over the     *)
(* table `departments`.  The table is a copy of the portal's tree that the *)
(* directory sync writes row by row, so that nothing in the schema keeps   *)
(* it a tree: a parent can be inactive, and parents can form a cycle.      *)
(***************************************************************************)
EXTENDS Naturals, FiniteSets

CONSTANTS
    Departments,    \* Bitrix IDs of departments
    Users,          \* Bitrix IDs of users
    MaxDepth        \* how many parents the query climbs: 50 in the code

ASSUME DestinationAssumption ==
    /\ Departments \subseteq Nat \ {0}
    /\ Users \subseteq Nat \ {0}
    /\ MaxDepth \in Nat

(* NULL in parent_bitrix_department_id and head_bitrix_user_id *)
Null == 0

(* The table: one row per department, `present` once it was ever inserted *)
Row   == [present : BOOLEAN, active : BOOLEAN,
          parent : Departments \cup {Null}, head : Users \cup {Null}]
NoRow == [present |-> FALSE, active |-> FALSE, parent |-> Null, head |-> Null]

Active(table, d) == table[d].present /\ table[d].active

-----------------------------------------------------------------------------
(* The query *)

(* Two variants with a slip, to see that the properties notice: a parent, or the
   origin, without "AND active".                                              *)
ChainAnyParent(table, origin) ==
    LET level[n \in 0 .. MaxDepth] ==
            IF n = 0
            THEN {d \in {origin} : Active(table, d)}
            ELSE LET below == level[n - 1]
                 IN  {d \in Departments : /\ table[d].present
                                          /\ \E c \in below : table[c].parent = d}
    IN  level

ChainAnyOrigin(table, origin) ==
    LET level[n \in 0 .. MaxDepth] ==
            IF n = 0
            THEN {d \in {origin} : table[d].present}
            ELSE LET below == level[n - 1]
                 IN  {d \in Departments : /\ Active(table, d)
                                          /\ \E c \in below : table[c].parent = d}
    IN  level

(* department_chain: the rows of each depth, starting from the origin *)
Chain(table, origin) ==
    LET level[n \in 0 .. MaxDepth] ==
            IF n = 0
            THEN {d \in {origin} : Active(table, d)}
            ELSE LET below == level[n - 1]
                 IN  {d \in Departments : /\ Active(table, d)
                                          /\ \E c \in below : table[c].parent = d}
    IN  level

(* WHERE head_bitrix_user_id IS NOT NULL ORDER BY depth LIMIT 1 *)
Responsible(table, origin) ==
    LET chain == Chain(table, origin)
        First(d) == \E n \in 0 .. MaxDepth :
                       /\ d \in chain[n] /\ table[d].head # Null
                       /\ \A m \in 0 .. n - 1 : \A e \in chain[m] : table[e].head = Null
    IN  IF \E d \in Departments : First(d)
        THEN table[CHOOSE d \in Departments : First(d)].head
        ELSE Null

-----------------------------------------------------------------------------
(* What it is meant to find, without a depth and without the query *)

(* The departments passed on the way up: the least set with the origin and, for
   each department in it that has no head, the active parent of that one.  It
   holds at most one department with a head, where the way ends.             *)
Passed(table, origin) ==
    LET Closed(S) ==
            /\ origin \in S
            /\ \A d \in S : table[d].head = Null =>
                  \A p \in Departments : table[d].parent = p /\ Active(table, p) => p \in S
    IN  {d \in Departments : \A S \in SUBSET Departments : Closed(S) => d \in S}

NearestHead(table, origin) ==
    LET headed == {d \in Passed(table, origin) : table[d].head # Null}
    IN  IF headed = {} THEN Null ELSE table[CHOOSE d \in headed : TRUE].head
=============================================================================
