---------------------------- MODULE PlanExecutor ----------------------------
(***************************************************************************)
(* SqlPlanExecutor: a query plan is run as one PQexec per stage, each      *)
(* filling a temporary result table from the one before it, then the last  *)
(* table is read and all of them are dropped.  The tables are ordinary     *)
(* tables named after the stage number only, so every process that uses    *)
(* the database shares them, and they survive the process that made them.  *)
(*                                                                         *)
(* A stage is modelled by a value that names its operation and arguments,  *)
(* and the contents of a table by the sequence of the stages that led to   *)
(* it; a plan is the sequence of its stages without the final "result".    *)
(* Stages and tables are counted from 1, in the code from 0.               *)
(***************************************************************************)
EXTENDS Integers, Sequences

CONSTANTS
  Clients,      \* the processes that use the database
  Ops,          \* the operations of a stage
  Plans,        \* the plans parseSql yields
  MaxStages,    \* the length of the longest of them
  MaxFaults,    \* bounds the crashes and lost connections
  MaxRejected   \* bounds the stages the server rejects for other reasons

ASSUME PlansAssumption ==
  /\ MaxStages \in Nat
  /\ \A p \in Plans : p \in Seq(Ops) /\ Len(p) \in 1 .. MaxStages
ASSUME BoundsAssumption == MaxFaults \in Nat /\ MaxRejected \in Nat

VARIABLES
  tmp,       \* tmp[i]: contents of tmpTable_execTmp_<i-1>, Absent if none
  plan,      \* per client: SqlPlanExecutor::plans
  pc,        \* per client: where execute is
  stage,     \* per client: the counter of its two loops over the tables
  results,   \* per client: SqlPlanExecutor::results
  conn,      \* per client: what the connection pointer points to
  faults,    \* counts the faults, for the bound
  rejected   \* counts the rejected stages, for the bound

client == <<plan, pc, stage, results>>
vars   == <<tmp, client, conn, faults, rejected>>

Stages  == 1 .. MaxStages
Absent  == <<>>
NoPlan  == <<>>
NoRows  == <<>>
Garbage == <<"garbage">>

Init ==
  /\ tmp = [i \in Stages |-> Absent]
  /\ plan = [c \in Clients |-> NoPlan]
  /\ pc = [c \in Clients |-> "idle"]
  /\ stage = [c \in Clients |-> 1]
  /\ results = [c \in Clients |-> NoRows]
  /\ conn = [c \in Clients |-> "unset"]
  /\ faults = 0 /\ rejected = 0

Fault == faults < MaxFaults /\ faults' = faults + 1

Connect(c) ==
  /\ pc[c] = "idle"
  /\ conn' = [conn EXCEPT ![c] = "open"]
  /\ UNCHANGED <<tmp, client, faults, rejected>>

LoseConnection(c) ==
  /\ conn[c] = "open"
  /\ conn' = [conn EXCEPT ![c] = "bad"]
  /\ Fault
  /\ UNCHANGED <<tmp, client, rejected>>

(***************************************************************************)
(* The process dies; the database keeps the tables.                        *)
(***************************************************************************)
Die(c) ==
  /\ plan' = [plan EXCEPT ![c] = NoPlan]
  /\ pc' = [pc EXCEPT ![c] = "idle"]
  /\ stage' = [stage EXCEPT ![c] = 1]
  /\ results' = [results EXCEPT ![c] = NoRows]
  /\ conn' = [conn EXCEPT ![c] = "unset"]
  /\ UNCHANGED <<tmp, rejected>>

Crash(c) == Die(c) /\ Fault

(***************************************************************************)
(* execute is called with a new plan.                                      *)
(***************************************************************************)
Execute(c, p) ==
  /\ pc[c] = "idle"
  /\ plan' = [plan EXCEPT ![c] = p]
  /\ pc' = [pc EXCEPT ![c] = "stages"]
  /\ stage' = [stage EXCEPT ![c] = 1]
  /\ results' = [results EXCEPT ![c] = NoRows]
  /\ UNCHANGED <<tmp, conn, faults, rejected>>

\* The bugs of going on to the longest plan's end, and of the second loop
\* starting where the first one ended.
AdvanceTooFar(c, next) ==
  IF stage[c] = MaxStages
  THEN pc' = [pc EXCEPT ![c] = next] /\ stage' = [stage EXCEPT ![c] = 1]
  ELSE stage' = [stage EXCEPT ![c] = @ + 1] /\ UNCHANGED pc
AdvanceKeepingStage(c, next) ==
  IF stage[c] = Len(plan[c])
  THEN pc' = [pc EXCEPT ![c] = next] /\ UNCHANGED stage
  ELSE stage' = [stage EXCEPT ![c] = @ + 1] /\ UNCHANGED pc

(***************************************************************************)
(* The loop over the tables ends, or goes on with the next one.            *)
(***************************************************************************)
Advance(c, next) ==
  IF stage[c] = Len(plan[c])
  THEN pc' = [pc EXCEPT ![c] = next] /\ stage' = [stage EXCEPT ![c] = 1]
  ELSE stage' = [stage EXCEPT ![c] = @ + 1] /\ UNCHANGED pc

(***************************************************************************)
(* One stage: DROP, CREATE and the function that fills the table are one   *)
(* PQexec, hence one transaction.  It fails as a whole if the table it     *)
(* reads does not exist.                                                   *)
(***************************************************************************)
HasInput(i) == i > 1 => tmp[i - 1] # Absent

\* The bugs of not dropping a table that is left over from another query, and
\* of reading the table that is about to be filled.
RunStageKeeping(c) ==
  LET i == stage[c]
      input == IF i = 1 THEN <<>> ELSE tmp[i - 1]
  IN  /\ pc[c] = "stages" /\ conn[c] = "open"
      /\ HasInput(i)
      /\ tmp' = [tmp EXCEPT ![i] = IF @ = Absent THEN Append(input, plan[c][i]) ELSE @]
      /\ Advance(c, "read")
      /\ UNCHANGED <<plan, results, conn, faults, rejected>>
RunStageOnItself(c) ==
  /\ pc[c] = "stages" /\ conn[c] = "open"
  /\ HasInput(stage[c])
  /\ tmp' = [tmp EXCEPT ![stage[c]] = Append(@, plan[c][stage[c]])]
  /\ Advance(c, "read")
  /\ UNCHANGED <<plan, results, conn, faults, rejected>>

RunStage(c) ==
  LET i == stage[c]
      input == IF i = 1 THEN <<>> ELSE tmp[i - 1]
  IN  /\ pc[c] = "stages" /\ conn[c] = "open"
      /\ HasInput(i)
      /\ tmp' = [tmp EXCEPT ![i] = Append(input, plan[c][i])]
      /\ Advance(c, "read")
      /\ UNCHANGED <<plan, results, conn, faults, rejected>>

(***************************************************************************)
(* The transaction of a stage is rolled back, its DROP included, and       *)
(* executeQuery does not look at the outcome.                              *)
(***************************************************************************)
StageFails(c) ==
  /\ pc[c] = "stages"
  /\ \/ (conn[c] # "open" \/ ~HasInput(stage[c])) /\ UNCHANGED rejected
     \/ /\ conn[c] = "open" /\ HasInput(stage[c])
        /\ rejected < MaxRejected /\ rejected' = rejected + 1
  /\ Advance(c, "read")
  /\ UNCHANGED <<tmp, plan, results, conn, faults>>

(***************************************************************************)
(* executeByteaResultQuery reads the table of the last stage.              *)
(***************************************************************************)
LastTable(c) == tmp[Len(plan[c])]

ReadResult(c) ==
  /\ pc[c] = "read" /\ conn[c] = "open" /\ LastTable(c) # Absent
  /\ results' = [results EXCEPT ![c] = LastTable(c)]
  /\ pc' = [pc EXCEPT ![c] = "drop"]
  /\ UNCHANGED <<tmp, plan, stage, conn, faults, rejected>>

\* The bug of waiting for the connection to come back.
ReadWaiting(c) ==
  pc[c] = "read" /\ (conn[c] # "open" \/ LastTable(c) = Absent) /\ UNCHANGED vars

(***************************************************************************)
(* The read fails: the result and the connection are freed and both are    *)
(* used further.  That is undefined: the process dies, sees no rows, or    *)
(* makes rows of what it finds in the freed result.                        *)
(***************************************************************************)
ReadFails(c) ==
  /\ pc[c] = "read" /\ (conn[c] # "open" \/ LastTable(c) = Absent)
  /\ UNCHANGED faults
  /\ \/ Die(c)
     \/ /\ results' \in {[results EXCEPT ![c] = r] : r \in {NoRows, Garbage}}
        /\ conn' = [conn EXCEPT ![c] = "freed"]
        /\ pc' = [pc EXCEPT ![c] = "drop"]
        /\ UNCHANGED <<tmp, plan, stage, rejected>>

(***************************************************************************)
(* deleteTmp drops the tables of all stages, whoever filled them.  With a  *)
(* connection that was freed in ReadFails the calls do nothing, or the     *)
(* process dies.                                                           *)
(***************************************************************************)
DropTable(c) ==
  /\ pc[c] = "drop"
  /\ UNCHANGED <<faults, rejected>>
  /\ \/ /\ tmp' = IF conn[c] = "open" THEN [tmp EXCEPT ![stage[c]] = Absent] ELSE tmp
        /\ Advance(c, "done")
        /\ UNCHANGED <<plan, results, conn>>
     \/ conn[c] = "freed" /\ Die(c)

(***************************************************************************)
(* executeSql has returned the results to its caller.                      *)
(***************************************************************************)
Return(c) ==
  /\ pc[c] = "done"
  /\ pc' = [pc EXCEPT ![c] = "idle"]
  /\ plan' = [plan EXCEPT ![c] = NoPlan]
  /\ results' = [results EXCEPT ![c] = NoRows]
  /\ UNCHANGED <<tmp, stage, conn, faults, rejected>>

Step(c) ==
  RunStage(c) \/ StageFails(c) \/ ReadResult(c) \/ ReadFails(c) \/ DropTable(c) \/ Return(c)

Next ==
  \E c \in Clients :
    \/ Connect(c) \/ LoseConnection(c) \/ Crash(c)
    \/ \E p \in Plans : Execute(c, p)
    \/ Step(c)

Spec == Init /\ [][Next]_vars

(***************************************************************************)
(* execute is a call that runs to its end; nothing else is fair.           *)
(***************************************************************************)
FairSpec == Spec /\ \A c \in Clients : WF_vars(Step(c))
-----------------------------------------------------------------------------
(***************************************************************************)
(* The variables have the types the code gives them.                       *)
(***************************************************************************)
TypeOK ==
  /\ DOMAIN tmp = Stages /\ \A i \in Stages : tmp[i] \in Seq(Ops)
  /\ plan \in [Clients -> Plans \cup {NoPlan}]
  /\ pc \in [Clients -> {"idle", "stages", "read", "drop", "done"}]
  /\ stage \in [Clients -> Nat] /\ faults \in Nat /\ rejected \in 0 .. MaxRejected
  /\ DOMAIN results = Clients
  /\ conn \in [Clients -> {"unset", "open", "bad", "freed"}]
  /\ \A c \in Clients : pc[c] # "idle" => plan[c] \in Plans /\ stage[c] \in 1 .. Len(plan[c])

(***************************************************************************)
(* executeSql returns the result of the statement (EncryptService.h:54):   *)
(* the rows the plan asked for or, when something failed, no rows or what  *)
(* the failed read left, but never the rows of another query.              *)
(***************************************************************************)
FreshResult ==
  \A c \in Clients : pc[c] = "done" => results[c] \in {plan[c], NoRows, Garbage}

(***************************************************************************)
(* A query whose calls all succeeded, and that no fault preceded, leaves   *)
(* no temporary table behind, also when an earlier plan was longer.        *)
(***************************************************************************)
NoLeftover ==
  faults = 0 /\ rejected = 0 /\ (\A c \in Clients : pc[c] = "idle" /\ conn[c] = "open")
    => \A i \in Stages : tmp[i] = Absent

(***************************************************************************)
(* With a live connection the stages done so far have left exactly their   *)
(* intermediate results, whatever was in the tables before.                *)
(***************************************************************************)
OwnTables ==
  \A c \in Clients : conn[c] = "open" =>
    /\ pc[c] = "stages" => \A i \in 1 .. (stage[c] - 1) : tmp[i] = SubSeq(plan[c], 1, i)
    /\ pc[c] = "read" => \A i \in 1 .. Len(plan[c]) : tmp[i] = SubSeq(plan[c], 1, i)

(***************************************************************************)
(* What makes NoLeftover inductive: before the first fault only the tables *)
(* of the stages done, and not dropped since, exist, and none but over a   *)
(* live connection; deleteTmp begins with the first.                       *)
(***************************************************************************)
Unused(c, i) ==
  \/ conn[c] # "open"
  \/ pc[c] \in {"idle", "done"}
  \/ pc[c] = "stages" /\ i >= stage[c]
  \/ pc[c] \in {"read", "drop"} /\ i > Len(plan[c])
  \/ pc[c] = "drop" /\ i < stage[c]

Swept ==
  \A c \in Clients :
    /\ pc[c] = "read" => stage[c] = 1
    /\ faults = 0 => \A i \in Stages : Unused(c, i) => tmp[i] = Absent

(***************************************************************************)
(* With the results the read has fetched, this makes FreshResult           *)
(* inductive for a single client whose stages the server does not reject.  *)
(***************************************************************************)
ResultsFetched ==
  \A c \in Clients : pc[c] = "drop" => results[c] \in {plan[c], NoRows, Garbage}

IInv == TypeOK /\ OwnTables /\ ResultsFetched /\ FreshResult

(***************************************************************************)
(* Every query returns or its process dies.                                *)
(***************************************************************************)
QueryReturns == \A c \in Clients : pc[c] # "idle" ~> pc[c] = "idle"
=============================================================================
