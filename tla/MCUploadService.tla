-------------------------- MODULE MCUploadService --------------------------
(***************************************************************************)
(* Small tables for model checking UploadService.  student has a second,   *)
(* longer version, two that cannot be built, and a column of a type that   *)
(* is not encrypted; both of its rows join the one of courseinfo.          *)
(***************************************************************************)
EXTENDS UploadService, Sequences

CONSTANT none

FromZero(s) == [i \in 0 .. (Len(s) - 1) |-> s[i + 1]]
Table(name, types, rows) ==
  [name |-> name, types |-> FromZero(types),
   rows |-> FromZero([r \in DOMAIN rows |-> FromZero(rows[r])])]

TheNumerals == {"1", "2"}

CourseInfo == Table("courseinfo", <<"string">>, <<<<"m">>>>)
Student1 == Table("student", <<"date", "int", "string">>, <<<<"a", "1", "m">>>>)
Student2 == Table("student", <<"date", "int", "string">>, <<<<"a", "1", "m">>, <<"a", "1", "m">>>>)
StudentX == Table("student", <<"date", "int", "string">>, <<<<"a", "x", "m">>>>)
Empty == Table("courseinfo", <<"string">>, <<>>)

GrowingTables == {CourseInfo, Student1, Student2}
JoinTables == {CourseInfo, Student1, StudentX, Empty}
Versions == {Student1, Student2}
=============================================================================
