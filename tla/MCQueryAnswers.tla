---------------------------- MODULE MCQueryAnswers ----------------------------
(***************************************************************************)
(* The tables of Resource/data with their values varied, and a student     *)
(* whose first column has a type that is not encrypted; queries of the     *)
(* kinds in main.cpp, the last ones beyond what the planner does.          *)
(***************************************************************************)
EXTENDS QueryAnswers

CONSTANTS noColumn, undefined, garbage, notRun, noTable

FromZero(s) == [i \in 0 .. (Len(s) - 1) |-> s[i + 1]]
Table(name, columns, types, rows) ==
  [name |-> name, columns |-> FromZero(columns), types |-> FromZero(types),
   rows |-> FromZero([r \in DOMAIN rows |-> FromZero(rows[r])])]

TheNumerals == {"16", "18"}
TheValues == [x \in TheNumerals |-> IF x = "16" THEN 16 ELSE 18]
TheOrder == <<"courseinfo", "student">>

RowsUpTo(n, S) == UNION {[1 .. k -> S] : k \in 1 .. n}

TheCourses ==
  {Table("courseinfo", <<"Course", "CourseName">>, <<"string", "string">>, rows) :
     rows \in RowsUpTo(2, {"16", "18"} \X {"CS", "Math"})}
TheStudents ==
  {Table("student", <<"ID", "Name", "Course", "Score">>, <<"string", "string", "string", "int">>, rows) :
     rows \in RowsUpTo(2, {"A05"} \X {"Bob", "18"} \X {"16", "18"} \X {"16", "18"})}
DatedStudents ==
  {Table("student", <<"Entered", "Name", "Course", "Score">>, <<"date", "string", "string", "int">>, rows) :
     rows \in RowsUpTo(1, {"May"} \X {"Bob", "18"} \X {"16", "18"} \X {"16", "18"})}
AllStudents == TheStudents \cup DatedStudents

Q(from, select, where) ==
  [from |-> from, joins |-> <<>>, select |-> select, sum |-> NoColumn, where |-> where]
QSum(from, column, where) ==
  [from |-> from, joins |-> <<>>, select |-> <<<<"SUM">>>>, sum |-> column, where |-> where]
QOn(from, table, on, select, where) ==
  [from |-> from, joins |-> <<[table |-> table, on |-> on]>>, select |-> select,
   sum |-> NoColumn, where |-> where]

Both == <<"student", "courseinfo">>
OnCourse == <<<<"student", "Course">>, <<"courseinfo", "Course">>>>
IsMath == <<<<"courseinfo", "CourseName">>, <<"Math">>>>

SupportedQueries ==
  {Q(<<"student">>, <<<<a>>>>, <<<<<<c>>, <<"18">>>>>>) : a \in {"ID", "Name", "Score"}, c \in {"Name", "Course"}} \cup
  {Q(<<"courseinfo">>, <<<<"CourseName">>>>, <<<<<<"Course">>, <<"16">>>>>>),
   QSum(<<"student">>, "Score", <<>>),
   Q(Both, <<<<"student", "Name">>>>, <<OnCourse, IsMath>>),
   Q(Both, <<<<"student", "Course">>>>, <<OnCourse, <<<<"courseinfo", "Course">>, <<"18">>>>>>),
   QOn(<<"student">>, "courseinfo", OnCourse, <<<<"CourseName">>>>, <<<<<<"CourseName">>, <<"Math">>>>>>)}

OtherQueries ==
  {QOn(<<"student">>, "courseinfo", OnCourse, <<<<"Name">>>>, <<<<<<"Name">>, <<"Bob">>>>>>),
   QOn(<<"student">>, "courseinfo", OnCourse, <<<<"student", "Name">>>>, <<IsMath>>),
   QSum(<<"student">>, "Score", <<<<<<"Course">>, <<"18">>>>>>),
   Q(<<"student">>, <<<<"Name">>>>, <<<<<<"Course">>, <<"18">>>>, <<<<"Score">>, <<"16">>>>>>),
   Q(Both, <<<<"courseinfo", "CourseName">>>>, <<OnCourse, IsMath>>),
   Q(Both, <<<<"student", "Name">>>>, <<IsMath, OnCourse>>),
   Q(Both, <<<<"student", "Name">>>>, <<OnCourse, <<<<"student", "Name">>, <<"Bob">>>>>>)}
AllQueries == SupportedQueries \cup OtherQueries
=============================================================================
