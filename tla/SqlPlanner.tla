----------------------------- MODULE SqlPlanner -----------------------------
(***************************************************************************)
(* paser.cpp: from the text of a query to the stages of its plan.          *)
(*                                                                         *)
(* A query is modelled by what the regular expressions find in it:         *)
(*   from   the tables after FROM, of which parseTables sees the first;    *)
(*   joins  the JOIN clauses, each the table and the condition after ON;   *)
(*   select the attributes between SELECT and FROM;                        *)
(*   sum    the column in SUM(...), or NoColumn;                           *)
(*   where  the conditions, pairs of the texts left and right of a "=".    *)
(* A text is the sequence of its parts between dots, which is what split   *)
(* makes of it, so <<"student", "Name">> is a qualified name.  Quotes      *)
(* around a literal are already gone.  The metadata maps the name of a     *)
(* table to its columns and their types, both numbered from 0.             *)
(***************************************************************************)
EXTENDS Integers, Sequences

CONSTANTS
  NoColumn,     \* no SUM in the query, or no column where one was looked for
  Undefined,    \* the parser reads beyond a vector or an unset value
  Alphabetical  \* the names of tables in the order of std::set

NoColumns == [k \in {} |-> k]

(***************************************************************************)
(* tables[name] of a map that has no such name is an empty TableInfo.      *)
(***************************************************************************)
ColumnsOf(meta, name) == IF name \in DOMAIN meta THEN meta[name].columns ELSE NoColumns

(***************************************************************************)
(* The loops that look a name up in the columns of a table: the first      *)
(* column with that name.                                                  *)
(***************************************************************************)
FindColumn(columns, name) ==
  LET hits == {i \in DOMAIN columns : columns[i] = name}
  IN  IF hits = {} THEN NoColumn ELSE CHOOSE i \in hits : \A j \in hits : i <= j

(***************************************************************************)
(* A qualified name has its column replaced by its number.  If there is no *)
(* such column its name stays; NoColumn stands for it, since a name is no  *)
(* column of what is stored.                                               *)
(***************************************************************************)
Qualified(text) == Len(text) > 1

Resolve(meta, text) == <<text[1], FindColumn(ColumnsOf(meta, text[1]), text[2])>>

ResolveSide(meta, text) == IF Qualified(text) THEN Resolve(meta, text) ELSE text

IsJoinCondition(cond) == Len(cond[1]) = 2 /\ Len(cond[2]) = 2

IsJoin(q) == \E i \in DOMAIN q.where : IsJoinCondition(q.where[i])

Conditions(meta, q) ==
  [i \in DOMAIN q.where |->
     <<ResolveSide(meta, q.where[i][1]), ResolveSide(meta, q.where[i][2])>>]

(***************************************************************************)
(* parseTables collects the table after FROM, those after JOIN and those   *)
(* before a column on the left of a "=", after ON as well as after WHERE,  *)
(* in a set; the callers use the first of it.  Nothing else is made of a   *)
(* condition after ON: parseWhereConditions starts at WHERE.               *)
(***************************************************************************)
FirstTable(q) ==
  LET joined == {q.joins[i].table : i \in DOMAIN q.joins}
      lefts == {q.where[i][1] : i \in DOMAIN q.where} \cup {q.joins[i].on[1] : i \in DOMAIN q.joins}
      named == {q.from[1]} \cup joined \cup {left[1] : left \in {l \in lefts : Qualified(l)}}
      place == CHOOSE i \in DOMAIN Alphabetical :
                 Alphabetical[i] \in named /\ \A j \in 1 .. (i - 1) : Alphabetical[j] \notin named
  IN  Alphabetical[place]

(***************************************************************************)
(* projectionIndex: the last qualified attribute whose column is found.    *)
(***************************************************************************)
ProjectionIndex(meta, q) ==
  LET column(i) == IF Qualified(q.select[i])
                   THEN FindColumn(ColumnsOf(meta, q.select[i][1]), q.select[i][2]) ELSE NoColumn
      found == {i \in DOMAIN q.select : column(i) # NoColumn}
  IN  IF found = {} THEN NoColumn ELSE column(CHOOSE i \in found : \A j \in found : j <= i)

-----------------------------------------------------------------------------
Stage(op, arg) == [op |-> op, arg |-> arg]
Plan(stages, type) == [stages |-> stages, type |-> type]

(***************************************************************************)
(* The first condition is taken for the join and the second for the        *)
(* selection.  The index of a selection is "first,second", its parts are   *)
(* joined by commas or, in a join condition, by underscores.               *)
(***************************************************************************)
JoinPlan(meta, q) ==
  LET c == Conditions(meta, q)
      index == IF IsJoinCondition(q.where[2]) THEN <<"_", c[2]>> ELSE c[2][1] \o c[2][2]
  IN  IF Len(q.where) < 2 THEN Undefined
      ELSE Plan(<<Stage("sigma", index),
                  Stage("join", <<c[1][2], c[1][1]>>),
                  Stage("projection", ProjectionIndex(meta, q))>>, "string")

SumPlan(meta, q) ==
  LET name == FirstTable(q)
      i == FindColumn(ColumnsOf(meta, name), q.sum)
  IN  IF i = NoColumn THEN Undefined
      ELSE Plan(<<Stage("sum", <<name, i>>)>>, meta[name].types[i])

(***************************************************************************)
(* findColIndex has no return for a name that is not a column, and a       *)
(* qualified name, resolved or not, is none.                               *)
(***************************************************************************)
SelectPlan(meta, q) ==
  LET name == FirstTable(q)
      column(text) == IF Qualified(text) THEN NoColumn ELSE FindColumn(ColumnsOf(meta, name), text[1])
      c == Conditions(meta, q)
  IN  IF q.where = <<>> \/ q.select = <<>> THEN Undefined
      ELSE IF NoColumn \in {column(q.where[1][1]), column(q.select[1])} THEN Undefined
      ELSE Plan(<<Stage("select", <<name, column(q.where[1][1])>> \o c[1][2]),
                  Stage("projection", column(q.select[1]))>>, meta[name].types[column(q.select[1])])

parseSql(meta, q) ==
  IF IsJoin(q) THEN JoinPlan(meta, q)
  ELSE IF q.sum # NoColumn THEN SumPlan(meta, q)
  ELSE SelectPlan(meta, q)
=============================================================================
