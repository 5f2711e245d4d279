---------------------------- MODULE QueryAnswers ----------------------------
(***************************************************************************)
(* What a query over the encrypted tables answers: executeSql from the     *)
(* text of the query to the decrypted rows, over the entries that an       *)
(* upload of both tables has stored, without failures (those are the       *)
(* subject of UploadService and PlanExecutor).                             *)
(*                                                                         *)
(* The server's functions are not in the repository, except for the loop   *)
(* of sum_by_row; they are modelled by what the client uses them for.      *)
(***************************************************************************)
EXTENDS MultiMaps, SqlPlanner, SequencesExt

CONSTANTS
  Courses,    \* the versions of courseinfo and of student to choose from;
  Students,   \* besides what MultiMaps has, a table has its columns
  Queries,    \* the queries to choose from
  ValueOf,    \* the number a numeral stands for
  Modulus,    \* the plain modulus of the homomorphic encryption
  Garbage,    \* the outcome of decrypting with the wrong scheme
  NotRun,     \* no plan, or no answer, yet
  NoTable     \* the table of a stage that failed

(***************************************************************************)
(* A file gives a table its columns in the line above their types.  The    *)
(* joins the code knows by number are column 0 of courseinfo and column 2  *)
(* of student.                                                             *)
(***************************************************************************)
ASSUME StoredAssumption ==
  /\ \A t \in Courses \cup Students : IsTable(t) /\ ~Unbuildable(t) /\ DOMAIN t.columns = Cols(t)
  /\ \A c \in Courses : 0 \in Cols(c)
  /\ \A s \in Students : 2 \in Cols(s)
  /\ \A c \in Courses, s \in Students : c.name # s.name
  /\ \A n \in Numerals : ValueOf[n] \in Nat
  /\ Modulus \in Nat \ {0}

(***************************************************************************)
(* What the regular expressions find are sequences of texts, none without  *)
(* parts, and the tables after FROM and JOIN are stored ones.              *)
(***************************************************************************)
IsText(text) == text \in Seq(ToSet(text)) /\ text # <<>>

IsQuery(q) ==
  /\ q.from \in Seq(ToSet(q.from)) /\ q.from # <<>>
  /\ q.joins \in Seq(ToSet(q.joins))
  /\ q.select \in Seq(ToSet(q.select)) /\ \A text \in ToSet(q.select) : IsText(text)
  /\ q.where \in Seq(ToSet(q.where))
  /\ \A cond \in ToSet(q.where) : IsText(cond[1]) /\ IsText(cond[2])

ASSUME QueriesAssumption ==
  /\ \A q \in Queries : IsQuery(q)
  /\ \A c \in Courses, s \in Students, q \in Queries :
       ToSet(q.from) \cup {join.table : join \in ToSet(q.joins)} \subseteq {c.name, s.name}
  /\ Alphabetical \in Seq(ToSet(Alphabetical))
  /\ \A t \in Courses \cup Students : t.name \in ToSet(Alphabetical)
  /\ NoColumn \notin Nat

VARIABLES
  course, student,  \* the tables stored
  known,            \* the names in tableMap: those uploaded since the process began
  query,
  plan,             \* SqlPlanExecutor::plans
  at,               \* the stage to run next
  tmp,              \* the temporary table of the stage before
  answer            \* what executeSql returns

vars == <<course, student, known, query, plan, at, tmp, answer>>

(***************************************************************************)
(* tableMap, and the SQL tables after both uploads, some of which another  *)
(* process may have done before this one was started.                      *)
(***************************************************************************)
Meta ==
  [name \in known |->
     IF name = course.name THEN course ELSE student]

Entries(e1, e2) == [k \in DOMAIN e1 \cup DOMAIN e2 |-> IF k \in DOMAIN e1 THEN e1[k] ELSE e2[k]]

mmr == Entries(Setup(RowMM(course)), Setup(RowMM(student)))
mmv == Entries(Setup(ValueMM(course)), Setup(ValueMM(student)))
mmc == Entries(Setup(ColMM(course)), Setup(ColMM(student)))
mmjoin == Setup(JoinMM(course, student, 0, 2))

JoinTable == <<<<course.name, 0>>, <<student.name, 2>>>>

Init ==
  /\ course \in Courses /\ student \in Students /\ query \in Queries
  /\ known \in SUBSET {course.name, student.name}
  /\ plan = NotRun /\ at = 0 /\ tmp = NoTable /\ answer = NotRun

(***************************************************************************)
(* An undefined plan leads anywhere, and so does reading the table of a    *)
(* stage that failed (PlanExecutor): the model stops there.                *)
(***************************************************************************)
Parse ==
  /\ at = 0
  /\ plan' = parseSql(Meta, query) /\ plan' # Undefined
  /\ at' = 1
  /\ UNCHANGED <<course, student, known, query, tmp, answer>>

AsSequence(v) == [i \in 1 .. Cardinality(DOMAIN v) |-> v[i - 1]]

(***************************************************************************)
(* enc_query_text_full_table: all that is stored for a token in an index.  *)
(* For a table of tokens it is called once per row.                        *)
(***************************************************************************)
LookUp(store, idx) == AsSequence(Walk(store, idx))

LookUpAll(store, tokens) == FlattenSeq([i \in DOMAIN tokens |-> LookUp(store, tokens[i])])

(***************************************************************************)
(* enc_projection_text: the entry of mmr with the given counter.           *)
(***************************************************************************)
Project(tokens, col) ==
  LET hits == Ascending({i \in DOMAIN tokens : <<tokens[i], col>> \in DOMAIN mmr})
  IN  AsSequence([k \in DOMAIN hits |-> mmr[<<tokens[hits[k]], col>>]])

(***************************************************************************)
(* SUM_ex adds ciphertexts; their plaintexts add up modulo Modulus.        *)
(***************************************************************************)
Sum(cells) ==
  IF cells = <<>> \/ \E i \in DOMAIN cells : cells[i][1] # "bfv" THEN NoTable
  ELSE LET add(total, cell) == (total + ValueOf[cell[2]]) % Modulus
       IN  <<<<"sum", FoldLeft(add, 0, cells)>>>>

Outcome(stage) ==
  CASE stage.op \in {"select", "sigma"} -> LookUp(mmv, stage.arg)
    [] stage.op = "join" ->
         IF tmp # NoTable /\ stage.arg = JoinTable THEN LookUpAll(mmjoin, tmp) ELSE NoTable
    [] stage.op = "projection" ->
         IF tmp # NoTable /\ stage.arg # NoColumn THEN Project(tmp, stage.arg) ELSE NoTable
    [] stage.op = "sum" -> Sum(LookUp(mmc, stage.arg))

RunStage ==
  /\ at > 0 /\ at <= Len(plan.stages)
  /\ tmp' = Outcome(plan.stages[at])
  /\ at' = at + 1
  /\ UNCHANGED <<course, student, known, query, plan, answer>>

(***************************************************************************)
(* decryptedResult: all rows, of one cell each, are decrypted for the type *)
(* in the plan.                                                            *)
(***************************************************************************)
Decrypt(cell, type) ==
  CASE cell[1] = "sum" /\ type = "int" -> <<"int", cell[2]>>
    [] cell[1] = "bfv" /\ type = "int" -> <<"int", ValueOf[cell[2]]>>
    [] cell[1] = "aes" /\ type = "string" -> <<"string", cell[2]>>
    [] OTHER -> Garbage

decryptedResult ==
  /\ at > 0 /\ at = Len(plan.stages) + 1 /\ tmp # NoTable
  /\ answer' = [i \in DOMAIN tmp |-> <<Decrypt(tmp[i], plan.type)>>]
  /\ at' = at + 1
  /\ UNCHANGED <<course, student, known, query, plan, tmp>>

Next == Parse \/ RunStage \/ decryptedResult

Spec == Init /\ [][Next]_vars
-----------------------------------------------------------------------------
(***************************************************************************)
(* The meaning of a query over the plain tables: the rows of the tables    *)
(* after FROM and JOIN that satisfy all conditions, and the attributes of  *)
(* each, or the sum of a column over them.                                 *)
(***************************************************************************)
QueryTables == ToSet(query.from) \cup {query.joins[i].table : i \in DOMAIN query.joins}

TableNamed(name) == IF name = course.name THEN course ELSE student

Places(text) ==
  {p \in QueryTables \X (Cols(course) \cup Cols(student)) :
     /\ p[2] \in Cols(TableNamed(p[1])) /\ TableNamed(p[1]).columns[p[2]] = Last(text)
     /\ Qualified(text) => text[1] = p[1]}

Place(text) == CHOOSE p \in Places(text) : TRUE

Cell(p, choice) == TableNamed(p[1]).rows[choice[p[1]]][p[2]]
TypeOf(p) == TableNamed(p[1]).types[p[2]]

Denotes(text, choice) == IF Places(text) = {} THEN text[1] ELSE Cell(Place(text), choice)

RowChoices ==
  {choice \in [QueryTables -> Rows(course) \cup Rows(student)] :
     \A name \in QueryTables : choice[name] \in Rows(TableNamed(name))}

Holds(cond, choice) == Denotes(cond[1], choice) = Denotes(cond[2], choice)

Joined(choice) == \A i \in DOMAIN query.joins : Holds(query.joins[i].on, choice)

Solutions ==
  {choice \in RowChoices :
     Joined(choice) /\ \A i \in DOMAIN query.where : Holds(query.where[i], choice)}

Value(p, choice) ==
  IF TypeOf(p) = "int" THEN <<"int", ValueOf[Cell(p, choice)]>> ELSE <<"string", Cell(p, choice)>>

AnswerRow(choice) == [i \in DOMAIN query.select |-> Value(Place(query.select[i]), choice)]

TrueSum == MapThenSumSet(LAMBDA choice : ValueOf[Cell(Place(<<query.sum>>), choice)], Solutions)

RightAnswer ==
  IF query.sum # NoColumn THEN answer = <<<<<<"int", TrueSum>>>>>>
  ELSE /\ Len(answer) = Cardinality(Solutions)
       /\ \A s \in Solutions :
            Cardinality({i \in DOMAIN answer : answer[i] = AnswerRow(s)})
              = Cardinality({u \in Solutions : AnswerRow(u) = AnswerRow(s)})

(***************************************************************************)
(* The queries the planner understands: a sum without conditions that does *)
(* not exceed the plain modulus; one attribute of one table with one       *)
(* condition, in unqualified names; the join that checkAndCreateJoinMM has *)
(* built, then one condition on courseinfo, and a string of student.  The  *)
(* projected row must hold all its columns.  A JOIN ... ON is overlooked,  *)
(* and the query answered from the alphabetically first of its tables;     *)
(* that does no harm if the query speaks of this table only and each of    *)
(* its rows has exactly one partner in the other.                          *)
(***************************************************************************)
RowsWhole(t) == \A c \in Cols(t) : Encrypted(t, c)

IsLiteral(text) == Len(text) = 1 /\ Places(text) = {}
IsColumn(text) == \E p \in Places(text) : Places(text) = {p}

OnePartner(name) ==
  \A r \in Rows(TableNamed(name)) :
    LET partners == {choice \in RowChoices : choice[name] = r /\ Joined(choice)}
    IN  \E choice \in partners : partners = {choice}

SupportedSum ==
  /\ query.sum # NoColumn /\ query.where = <<>> /\ query.joins = <<>> /\ Len(query.from) = 1
  /\ IsColumn(<<query.sum>>) /\ TypeOf(Place(<<query.sum>>)) = "int" /\ TrueSum < Modulus

SupportedSelect ==
  /\ query.sum = NoColumn /\ Len(query.from) = 1 /\ RowsWhole(TableNamed(FirstTable(query)))
  /\ query.joins = <<>> \/ OnePartner(FirstTable(query))
  /\ Len(query.where) = 1 /\ IsColumn(query.where[1][1]) /\ IsLiteral(query.where[1][2])
  /\ Len(query.select) = 1 /\ IsColumn(query.select[1])
  /\ \A text \in {query.where[1][1], query.select[1]} :
       ~Qualified(text) /\ Place(text)[1] = FirstTable(query)

SupportedJoin ==
  /\ query.sum = NoColumn /\ Len(query.from) = 2 /\ query.joins = <<>> /\ RowsWhole(student)
  /\ Len(query.where) = 2
  /\ query.where[1] = <<<<student.name, student.columns[2]>>, <<course.name, course.columns[0]>>>>
  /\ IsColumn(query.where[1][1]) /\ IsColumn(query.where[1][2])
  /\ Len(query.where[2][1]) = 2 /\ query.where[2][1][1] = course.name
  /\ IsColumn(query.where[2][1]) /\ IsLiteral(query.where[2][2])
  /\ Len(query.select) = 1 /\ IsColumn(query.select[1]) /\ Len(query.select[1]) = 2
  /\ query.select[1][1] = student.name /\ TypeOf(Place(query.select[1])) = "string"

Supported == SupportedSum \/ SupportedSelect \/ SupportedJoin

(***************************************************************************)
(* If the process knows the tables of a supported query, it is planned     *)
(* without undefined behaviour and none of its stages fails.  And whatever *)
(* the process knows, after a restart for example, an answer has the rows  *)
(* the query means, each as often as it means them, whatever values repeat *)
(* within and across the tables.                                           *)
(***************************************************************************)
AnswersSupported ==
  Supported => /\ QueryTables \subseteq known =>
                    parseSql(Meta, query) # Undefined /\ (at > 1 => tmp # NoTable)
               /\ answer # NotRun => RightAnswer

(***************************************************************************)
(* executeSql "executes the sql statement" and returns "the result of the  *)
(* execution" (EncryptService.h:54): every query that is answered at all.  *)
(***************************************************************************)
AnswersEvery == answer # NotRun => RightAnswer
=============================================================================
