---------------------------- MODULE MCDirectory ----------------------------
(* Directory on a small portal, with two entries on a page.  Department 2 is the
   scope; 1 is a leaf that can be closed, which moves 3, the root, from the second
   page to the first.                                                        *)
EXTENDS Directory, TLC

MCFirstDepartments ==
    1 :> [state |-> "there", parent |-> 2, head |-> Null] @@
    2 :> [state |-> "there", parent |-> 4, head |-> Null] @@
    3 :> [state |-> "there", parent |-> Null, head |-> 1] @@
    4 :> [state |-> "there", parent |-> 3, head |-> Null]

MCFirstUsers ==
    1 :> [depts |-> {2, 4}, named |-> TRUE] @@
    2 :> [depts |-> {2}, named |-> TRUE] @@
    3 :> NoUser

(* Department 1 is closed, 2 is moved and given a head, 4 is put under 2. *)
MCDepartmentValues ==
    1 :> {[state |-> "gone", parent |-> Null, head |-> Null]} @@
    2 :> {[state |-> "there", parent |-> 3, head |-> 2]} @@
    3 :> {} @@
    4 :> {[state |-> "there", parent |-> 2, head |-> Null]}

(* A user leaves, or comes without a name; a third one fills a second page. *)
MCUserValues ==
    1 :> {NoUser} @@
    2 :> {NoUser, [depts |-> {2}, named |-> FALSE]} @@
    3 :> {[depts |-> {2}, named |-> TRUE]}
=============================================================================
