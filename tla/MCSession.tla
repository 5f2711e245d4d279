----------------------------- MODULE MCSession -----------------------------
(***************************************************************************)
(* Clients and tables for model checking Session: two versions of a table, *)
(* which a cut file may be mistaken for.                                   *)
(***************************************************************************)
EXTENDS Session

CONSTANTS alice, bob, none

Student(v) == [name |-> "student", version |-> v]

TwoVersions == {Student(1), Student(2)}
=============================================================================
