----------------------------- MODULE PlanProofs -----------------------------
(***************************************************************************)
(* Proofs about PlanExecutor: type correctness for any number of           *)
(* processes, and that a process that is alone with the database and whose *)
(* stages are not rejected gets the result of its own query, whatever an   *)
(* earlier query, a crash or a lost connection has left in the tables.     *)
(***************************************************************************)
EXTENDS PlanExecutor, SequenceTheorems, TLAPS

(***************************************************************************)
(* The plans are sequences of operations with at least one stage and       *)
(* enough tables.                                                          *)
(***************************************************************************)
LEMMA PlanStages ==
  ASSUME NEW p \in Plans
  PROVE  /\ p \in Seq(Ops) /\ Len(p) \in 1 .. MaxStages /\ Len(p) \in Nat \ {0}
         /\ 1 .. Len(p) \subseteq Stages
BY PlansAssumption DEF Stages

(***************************************************************************)
(* Both loops over the tables stay within the plan.                        *)
(***************************************************************************)
LEMMA AdvanceType ==
  ASSUME TypeOK, NEW c \in Clients, pc[c] # "idle",
         NEW next \in {"read", "done"}, Advance(c, next)
  PROVE  /\ pc' \in [Clients -> {"idle", "stages", "read", "drop", "done"}]
         /\ stage' \in [Clients -> Nat]
         /\ stage'[c] \in 1 .. Len(plan[c])
         /\ \A d \in Clients \ {c} : pc'[d] = pc[d] /\ stage'[d] = stage[d]
         /\ pc'[c] = pc[c] \/ pc'[c] = next
<1>1. plan[c] \in Plans /\ stage[c] \in 1 .. Len(plan[c])
  BY DEF TypeOK
<1>2. Len(plan[c]) \in Nat \ {0}
  BY <1>1, PlanStages
<1>3. CASE stage[c] = Len(plan[c])
  <2>1. pc' = [pc EXCEPT ![c] = next] /\ stage' = [stage EXCEPT ![c] = 1]
    BY <1>3 DEF Advance
  <2> QED BY <1>2, <2>1 DEF TypeOK
<1>4. CASE stage[c] # Len(plan[c])
  <2>1. stage' = [stage EXCEPT ![c] = @ + 1] /\ pc' = pc
    BY <1>4 DEF Advance
  <2>2. stage[c] + 1 \in 1 .. Len(plan[c]) /\ stage[c] + 1 \in Nat
    BY <1>1, <1>2, <1>4
  <2> QED BY <2>1, <2>2 DEF TypeOK
<1> QED BY <1>3, <1>4

(***************************************************************************)
(* The initial state has the types.                                        *)
(***************************************************************************)
LEMMA InitType == Init => TypeOK
BY BoundsAssumption DEF Init, TypeOK, Stages, Absent, NoPlan, NoRows

(***************************************************************************)
(* Every step of any process keeps the types.                              *)
(***************************************************************************)
LEMMA TypeStep == TypeOK /\ [Next]_vars => TypeOK'
<1> SUFFICES ASSUME TypeOK, [Next]_vars PROVE TypeOK'
  OBVIOUS
<1> USE DEF client
<1>1. CASE UNCHANGED vars
  BY <1>1 DEF TypeOK, vars
<1>2. ASSUME NEW c \in Clients, Connect(c) PROVE TypeOK'
  BY <1>2 DEF Connect, TypeOK
<1>3. ASSUME NEW c \in Clients, LoseConnection(c) PROVE TypeOK'
  BY <1>3 DEF LoseConnection, Fault, TypeOK
<1>4. ASSUME NEW c \in Clients, Die(c), faults' \in Nat PROVE TypeOK'
  BY <1>4 DEF Die, TypeOK, NoPlan, NoRows
<1>5. ASSUME NEW c \in Clients, Crash(c) PROVE TypeOK'
  BY <1>4, <1>5 DEF Crash, Fault, TypeOK
<1>6. ASSUME NEW c \in Clients, NEW p \in Plans, Execute(c, p) PROVE TypeOK'
  <2>1. Len(p) \in Nat \ {0}
    BY PlanStages
  <2> QED BY <1>6, <2>1 DEF Execute, TypeOK
<1>7. ASSUME NEW c \in Clients, RunStage(c) PROVE TypeOK'
  <2> DEFINE i == stage[c]
             input == IF i = 1 THEN <<>> ELSE tmp[i - 1]
  <2>1. pc[c] = "stages" /\ Advance(c, "read") /\ UNCHANGED <<plan, results, conn, faults, rejected>>
    BY <1>7 DEF RunStage
  <2>2. plan[c] \in Plans /\ i \in 1 .. Len(plan[c])
    BY <2>1 DEF TypeOK
  <2>3. plan[c] \in Seq(Ops) /\ plan[c][i] \in Ops /\ i \in Stages /\ i \in Nat
    BY <2>2, PlanStages
  <2>4. input \in Seq(Ops)
    <3>1. CASE i = 1
      BY <3>1
    <3>2. CASE i # 1
      <4>1. i - 1 \in Stages
        BY <2>3, <3>2, PlansAssumption DEF Stages
      <4> QED BY <3>2, <4>1 DEF TypeOK
    <3> QED BY <3>1, <3>2
  <2>5. tmp' = [tmp EXCEPT ![i] = Append(input, plan[c][i])]
    BY <1>7 DEF RunStage
  <2>6. DOMAIN tmp' = Stages /\ \A j \in Stages : tmp'[j] \in Seq(Ops)
    <3> HIDE DEF i, input
    <3>1. Append(input, plan[c][i]) \in Seq(Ops)
      BY <2>3, <2>4
    <3> QED BY <2>5, <3>1 DEF TypeOK
  <2> QED BY <2>1, <2>6, AdvanceType DEF TypeOK
<1>8. ASSUME NEW c \in Clients, StageFails(c) PROVE TypeOK'
  <2>1. rejected' \in 0 .. MaxRejected
    BY <1>8, BoundsAssumption DEF StageFails, TypeOK
  <2> QED BY <1>8, <2>1, AdvanceType DEF StageFails, TypeOK
<1>9. ASSUME NEW c \in Clients, ReadResult(c) PROVE TypeOK'
  <2>1. plan[c] \in Plans /\ Len(plan[c]) \in Nat \ {0}
    BY <1>9, PlanStages DEF ReadResult, TypeOK
  <2> QED BY <1>9, <2>1 DEF ReadResult, TypeOK
<1>10. ASSUME NEW c \in Clients, ReadFails(c) PROVE TypeOK'
  <2>1. CASE Die(c)
    BY <1>4, <1>10, <2>1 DEF ReadFails, TypeOK
  <2>2. CASE /\ results' \in {[results EXCEPT ![c] = r] : r \in {NoRows, Garbage}}
             /\ conn' = [conn EXCEPT ![c] = "freed"]
             /\ pc' = [pc EXCEPT ![c] = "drop"]
             /\ UNCHANGED <<tmp, plan, stage, rejected>>
    BY <1>10, <2>2 DEF ReadFails, TypeOK
  <2> QED BY <1>10, <2>1, <2>2 DEF ReadFails
<1>11. ASSUME NEW c \in Clients, DropTable(c) PROVE TypeOK'
  <2>1. CASE conn[c] = "freed" /\ Die(c)
    BY <1>4, <1>11, <2>1 DEF DropTable, TypeOK
  <2>2. CASE /\ tmp' = IF conn[c] = "open" THEN [tmp EXCEPT ![stage[c]] = Absent] ELSE tmp
             /\ Advance(c, "done")
             /\ UNCHANGED <<plan, results, conn>>
    <3>1. DOMAIN tmp' = Stages /\ \A j \in Stages : tmp'[j] \in Seq(Ops)
      BY <2>2 DEF TypeOK, Absent
    <3> QED BY <1>11, <2>2, <3>1, AdvanceType DEF DropTable, TypeOK
  <2> QED BY <1>11, <2>1, <2>2 DEF DropTable
<1>12. ASSUME NEW c \in Clients, Return(c) PROVE TypeOK'
  BY <1>12 DEF Return, TypeOK, NoPlan, NoRows
<1> QED
  BY <1>1, <1>2, <1>3, <1>5, <1>6, <1>7, <1>8, <1>9, <1>10, <1>11, <1>12 DEF Next, Step

(***************************************************************************)
(* The variables keep their types, for any number of processes.            *)
(***************************************************************************)
THEOREM ExecutorTypeCorrect == Spec => []TypeOK
<1> QED BY InitType, TypeStep, PTL DEF Spec

-----------------------------------------------------------------------------
(***************************************************************************)
(* One more operation after the first i - 1 stages of a plan gives the     *)
(* contents the first i stages lead to, which are never those of a table   *)
(* that does not exist.                                                    *)
(***************************************************************************)
LEMMA Intermediate ==
  ASSUME NEW p \in Plans, NEW i \in 1 .. Len(p)
  PROVE  /\ i > 1 => Append(SubSeq(p, 1, i - 1), p[i]) = SubSeq(p, 1, i)
         /\ i = 1 => Append(<<>>, p[i]) = SubSeq(p, 1, i)
         /\ SubSeq(p, 1, i) # Absent
         /\ SubSeq(p, 1, Len(p)) = p
<1>1. p \in Seq(Ops) /\ Len(p) \in Nat \ {0}
  BY PlanStages
<1>2. SubSeq(p, 1, i) \in Seq(Ops) /\ Len(SubSeq(p, 1, i)) = i
  BY <1>1, SubSeqProperties
<1>3. SubSeq(p, 1, i) = SubSeq(p, 1, i - 1) \o <<p[i]>>
  BY <1>1, SubSeqRecursiveSecond
<1>4. SubSeq(p, 1, i - 1) \in Seq(Ops)
  BY <1>1, SubSeqProperties
<1>5. p[i] \in Ops
  BY <1>1
<1>6. Append(SubSeq(p, 1, i - 1), p[i]) = SubSeq(p, 1, i)
  BY <1>3, <1>4, <1>5
<1>7. i = 1 => SubSeq(p, 1, i - 1) = <<>>
  BY <1>1, SubSeqEmpty
<1>8. SubSeq(p, 1, i) # Absent
  BY <1>2 DEF Absent
<1>9. SubSeq(p, 1, Len(p)) = p
  BY <1>1, SubSeqFull
<1> QED BY <1>6, <1>7, <1>8, <1>9

(***************************************************************************)
(* Everything the invariant says of the tables is about the stages a       *)
(* client with a live connection has done, so in all other places it       *)
(* follows from the results alone.                                         *)
(***************************************************************************)
LEMMA InitFetched == Init => IInv
<1> SUFFICES ASSUME Init PROVE IInv
  OBVIOUS
<1>1. TypeOK
  BY InitType
<1> QED BY <1>1 DEF Init, IInv, OwnTables, ResultsFetched, FreshResult

(***************************************************************************)
(* Every step of a process that is alone keeps the inductive invariant: a  *)
(* stage fills its table from that of the stage before, and fails only on  *)
(* a dead connection.                                                      *)
(***************************************************************************)
LEMMA FetchedStep ==
  ASSUME \A c, d \in Clients : c = d, MaxRejected = 0, IInv, [Next]_vars
  PROVE  IInv'
<1> USE DEF client
<1>1. TypeOK /\ TypeOK'
  BY TypeStep DEF IInv
<1> DEFINE Done(c) == /\ conn[c] = "open" =>
                         /\ pc[c] = "stages" => \A i \in 1 .. (stage[c] - 1) : tmp[i] = SubSeq(plan[c], 1, i)
                         /\ pc[c] = "read" => \A i \in 1 .. Len(plan[c]) : tmp[i] = SubSeq(plan[c], 1, i)
                      /\ pc[c] \in {"drop", "done"} => results[c] \in {plan[c], NoRows, Garbage}
<1>2. \A c \in Clients : Done(c)
  BY DEF IInv, OwnTables, ResultsFetched, FreshResult
<1>3. SUFFICES ASSUME NEW c \in Clients PROVE Done(c)'
  BY <1>1 DEF IInv, OwnTables, ResultsFetched, FreshResult
<1>4. CASE UNCHANGED vars
  BY <1>2, <1>4 DEF vars
<1>5. CASE Connect(c)
  BY <1>1, <1>5 DEF Connect, TypeOK
<1>6. CASE LoseConnection(c)
  BY <1>1, <1>2, <1>6 DEF LoseConnection, TypeOK
<1>7. CASE Die(c)
  BY <1>1, <1>7 DEF Die, TypeOK
<1>8. ASSUME NEW p \in Plans, Execute(c, p) PROVE Done(c)'
  BY <1>1, <1>8 DEF Execute, TypeOK
<1>9. CASE RunStage(c)
  <2> DEFINE i == stage[c]
  <2>1. /\ pc[c] = "stages" /\ conn[c] = "open" /\ Advance(c, "read")
        /\ UNCHANGED <<plan, results, conn>>
    BY <1>9 DEF RunStage
  <2>2. plan[c] \in Plans /\ i \in 1 .. Len(plan[c])
    BY <1>1, <2>1 DEF TypeOK
  <2>3. Len(plan[c]) \in Nat \ {0} /\ 1 .. Len(plan[c]) \subseteq Stages
    BY <2>2, PlanStages
  <2>4. \A j \in 1 .. (i - 1) : tmp[j] = SubSeq(plan[c], 1, j)
    BY <1>2, <2>1
  <2>5. tmp' = [tmp EXCEPT ![i] = SubSeq(plan[c], 1, i)]
    <3>1. CASE i = 1
      BY <1>9, <2>2, <3>1, Intermediate DEF RunStage
    <3>2. CASE i # 1
      <4>1. tmp[i - 1] = SubSeq(plan[c], 1, i - 1)
        BY <2>2, <2>3, <2>4, <3>2
      <4>2. tmp' = [tmp EXCEPT ![i] = Append(tmp[i - 1], plan[c][i])]
        BY <1>9, <3>2 DEF RunStage
      <4>3. Append(SubSeq(plan[c], 1, i - 1), plan[c][i]) = SubSeq(plan[c], 1, i)
        BY <2>2, <2>3, <3>2, Intermediate
      <4> QED BY <4>1, <4>2, <4>3
    <3> QED BY <3>1, <3>2
  <2>6. \A j \in 1 .. i : tmp'[j] = SubSeq(plan[c], 1, j)
    <3>1. SUFFICES ASSUME NEW j \in 1 .. i PROVE tmp'[j] = SubSeq(plan[c], 1, j)
      OBVIOUS
    <3> HIDE DEF i
    <3>2. j \in 1 .. Len(plan[c]) /\ (j = i \/ j \in 1 .. (i - 1))
      BY <2>2, <2>3
    <3>3. j \in DOMAIN tmp
      BY <1>1, <2>3, <3>2 DEF TypeOK
    <3>4. CASE j = i
      BY <2>5, <3>3, <3>4
    <3>5. CASE j # i
      BY <2>4, <2>5, <3>2, <3>3, <3>5
    <3> QED BY <3>4, <3>5
  <2>7. CASE i = Len(plan[c])
    BY <1>1, <2>1, <2>3, <2>6, <2>7 DEF Advance, TypeOK
  <2>8. CASE i # Len(plan[c])
    <3>1. stage'[c] = i + 1 /\ pc' = pc
      BY <1>1, <2>1, <2>8 DEF Advance, TypeOK
    <3>2. stage'[c] - 1 = i
      BY <2>2, <2>3, <3>1
    <3> QED BY <2>1, <2>6, <3>1, <3>2
  <2> QED BY <2>7, <2>8
<1>10. CASE StageFails(c)
  <2>1. /\ pc[c] = "stages" /\ Advance(c, "read")
        /\ UNCHANGED <<tmp, plan, results, conn>>
    BY <1>10 DEF StageFails
  <2>2. plan[c] \in Plans /\ stage[c] \in 1 .. Len(plan[c]) /\ Len(plan[c]) \in Nat \ {0}
    BY <1>1, <2>1, PlanStages DEF TypeOK
  <2>3. conn[c] # "open" \/ ~HasInput(stage[c])
    BY <1>1, <1>10 DEF StageFails, TypeOK
  <2>4. conn[c] # "open"
    <3>1. SUFFICES ASSUME conn[c] = "open", ~HasInput(stage[c]) PROVE FALSE
      BY <2>3
    <3>2. stage[c] > 1 /\ tmp[stage[c] - 1] = Absent
      BY <3>1 DEF HasInput
    <3>3. stage[c] - 1 \in 1 .. (stage[c] - 1) /\ stage[c] - 1 \in 1 .. Len(plan[c])
      BY <2>2, <3>2
    <3>4. tmp[stage[c] - 1] = SubSeq(plan[c], 1, stage[c] - 1)
      BY <1>2, <2>1, <3>1, <3>3
    <3> QED BY <2>2, <3>2, <3>3, <3>4, Intermediate
  <2>5. pc'[c] \in {"stages", "read"}
    BY <1>1, <2>1, AdvanceType
  <2> QED BY <2>1, <2>4, <2>5
<1>11. CASE ReadResult(c)
  <2>1. pc[c] = "read" /\ conn[c] = "open" /\ plan[c] \in Plans /\ Len(plan[c]) \in 1 .. Len(plan[c])
    BY <1>1, <1>11, PlanStages DEF ReadResult, TypeOK
  <2>2. LastTable(c) = plan[c]
    BY <1>2, <2>1, Intermediate DEF LastTable
  <2> QED BY <1>1, <1>11, <2>2 DEF ReadResult, TypeOK
<1>12. CASE ReadFails(c)
  BY <1>1, <1>7, <1>12 DEF ReadFails, TypeOK
<1>13. CASE DropTable(c)
  <2>1. CASE Die(c)
    BY <1>7, <2>1
  <2>2. CASE Advance(c, "done") /\ UNCHANGED <<plan, results, conn>>
    <3>1. pc[c] = "drop"
      BY <1>13 DEF DropTable
    <3>2. pc'[c] \in {"drop", "done"}
      BY <1>1, <2>2, <3>1, AdvanceType
    <3> QED BY <1>2, <2>2, <3>1, <3>2
  <2> QED BY <1>13, <2>1, <2>2 DEF DropTable
<1>14. CASE Return(c)
  BY <1>1, <1>14 DEF Return, TypeOK
<1> QED
  BY <1>4, <1>5, <1>6, <1>7, <1>8, <1>9, <1>10, <1>11, <1>12, <1>13, <1>14
  DEF Next, Step, Crash

(***************************************************************************)
(* A process that is alone with the database and whose stages the server   *)
(* does not reject returns the rows of its own plan, no rows, or what a    *)
(* failed read left, whatever the tables held before.                      *)
(***************************************************************************)
THEOREM AloneResultIsFresh ==
  ASSUME \A c, d \in Clients : c = d, MaxRejected = 0
  PROVE  Spec => []FreshResult
<1>1. IInv /\ [Next]_vars => IInv'
  BY FetchedStep
<1>2. IInv => FreshResult
  BY DEF IInv
<1> QED BY <1>1, <1>2, InitFetched, PTL DEF Spec

(***************************************************************************)
(* With a live connection its stages leave exactly their intermediate      *)
(* results, however many tables of longer plans were left over.            *)
(***************************************************************************)
THEOREM AloneTablesOwn ==
  ASSUME \A c, d \in Clients : c = d, MaxRejected = 0
  PROVE  Spec => []OwnTables
<1>1. IInv /\ [Next]_vars => IInv'
  BY FetchedStep
<1>2. IInv => OwnTables
  BY DEF IInv
<1> QED BY <1>1, <1>2, InitFetched, PTL DEF Spec

-----------------------------------------------------------------------------
(***************************************************************************)
(* In the initial state no table exists.                                   *)
(***************************************************************************)
LEMMA InitSwept == Init => Swept
BY DEF Init, Swept

(***************************************************************************)
(* Every step of a process that is alone keeps the tables swept: a stage   *)
(* adds its own, deleteTmp takes them in order, and before a fault only a  *)
(* connection that has never worked can fail a read.                       *)
(***************************************************************************)
LEMMA SweptStep ==
  ASSUME \A c, d \in Clients : c = d, MaxRejected = 0, IInv, Swept, [Next]_vars
  PROVE  Swept'
<1> USE DEF client
<1>1. TypeOK /\ TypeOK'
  BY TypeStep DEF IInv
<1>2. SUFFICES ASSUME NEW c \in Clients
      PROVE  /\ pc'[c] = "read" => stage'[c] = 1
             /\ faults' = 0 => \A i \in Stages : Unused(c, i)' => tmp'[i] = Absent
  BY DEF Swept
<1>3. /\ pc[c] = "read" => stage[c] = 1
      /\ faults = 0 => \A i \in Stages : Unused(c, i) => tmp[i] = Absent
  BY DEF Swept
<1>4. Fault => faults' # 0
  BY <1>1 DEF Fault, TypeOK
<1>5. pc[c] # "idle" => /\ plan[c] \in Plans /\ stage[c] \in 1 .. Len(plan[c])
                        /\ Len(plan[c]) \in Nat \ {0} /\ 1 .. Len(plan[c]) \subseteq Stages
  BY <1>1, PlanStages DEF TypeOK
<1>6. Stages \subseteq Nat
  BY DEF Stages
<1>7. CASE UNCHANGED vars
  BY <1>3, <1>7 DEF vars, Unused
<1>8. CASE Connect(c)
  BY <1>1, <1>3, <1>8 DEF Connect, Unused, TypeOK
<1>9. CASE LoseConnection(c)
  BY <1>3, <1>4, <1>9 DEF LoseConnection
<1>10. CASE Die(c) /\ conn[c] # "open" /\ UNCHANGED faults
  BY <1>1, <1>3, <1>10 DEF Die, Unused, TypeOK
<1>11. CASE Crash(c)
  BY <1>1, <1>4, <1>11 DEF Crash, Die, TypeOK
<1>12. ASSUME NEW p \in Plans, Execute(c, p)
       PROVE  /\ pc'[c] = "read" => stage'[c] = 1
              /\ faults' = 0 => \A i \in Stages : Unused(c, i)' => tmp'[i] = Absent
  BY <1>1, <1>3, <1>12 DEF Execute, Unused, TypeOK
<1>13. ASSUME pc[c] = "stages", Advance(c, "read"), UNCHANGED <<plan, conn, faults>>,
              \A i \in Stages : i # stage[c] => tmp'[i] = tmp[i],
              conn[c] = "open" \/ tmp' = tmp
       PROVE  /\ pc'[c] = "read" => stage'[c] = 1
              /\ faults' = 0 => \A i \in Stages : Unused(c, i)' => tmp'[i] = Absent
  <2>1. \/ stage[c] = Len(plan[c]) /\ pc'[c] = "read" /\ stage'[c] = 1
        \/ stage[c] # Len(plan[c]) /\ pc'[c] = "stages" /\ stage'[c] = stage[c] + 1
    BY <1>1, <1>13 DEF Advance, TypeOK
  <2>2. ASSUME faults = 0, NEW i \in Stages, Unused(c, i)' PROVE tmp'[i] = Absent
    <3>1. CASE conn[c] # "open"
      BY <1>3, <1>13, <2>2, <3>1 DEF Unused
    <3>2. CASE conn[c] = "open"
      <4>1. i > stage[c]
        BY <1>5, <1>6, <1>13, <2>1, <2>2, <3>2 DEF Unused
      <4>2. i >= stage[c] /\ i # stage[c]
        BY <1>5, <1>6, <1>13, <4>1
      <4> QED BY <1>3, <1>13, <2>2, <4>2 DEF Unused
    <3> QED BY <3>1, <3>2
  <2> QED BY <1>13, <2>1, <2>2
<1>14. CASE RunStage(c)
  <2>1. \A i \in Stages : i # stage[c] => tmp'[i] = tmp[i]
    BY <1>1, <1>14 DEF RunStage, TypeOK
  <2> QED BY <1>13, <1>14, <2>1 DEF RunStage
<1>15. CASE StageFails(c)
  BY <1>13, <1>15 DEF StageFails
<1>16. CASE ReadResult(c)
  <2>1. /\ pc[c] = "read" /\ pc'[c] = "drop" /\ stage[c] = 1
        /\ UNCHANGED <<tmp, plan, stage, conn, faults>>
    BY <1>1, <1>3, <1>16 DEF ReadResult, TypeOK
  <2>2. ASSUME NEW i \in Stages, Unused(c, i)' PROVE Unused(c, i)
    <3>1. ~(i < stage'[c])
      BY <2>1 DEF Stages
    <3> QED BY <2>1, <2>2, <3>1 DEF Unused
  <2> QED BY <1>3, <2>1, <2>2
<1>17. CASE ReadFails(c)
  <2>1. conn[c] # "open"
    <3>1. SUFFICES ASSUME conn[c] = "open" PROVE FALSE
      OBVIOUS
    <3>2. pc[c] = "read" /\ tmp[Len(plan[c])] = Absent
      BY <1>17, <3>1 DEF ReadFails, LastTable
    <3>3. Len(plan[c]) \in 1 .. Len(plan[c]) /\ plan[c] \in Plans
      BY <1>5, <3>2
    <3>4. tmp[Len(plan[c])] = SubSeq(plan[c], 1, Len(plan[c]))
      BY <3>1, <3>2, <3>3 DEF IInv, OwnTables
    <3> QED BY <3>2, <3>3, <3>4, Intermediate
  <2>2. CASE Die(c)
    BY <1>10, <1>17, <2>1, <2>2 DEF ReadFails
  <2>3. CASE pc' = [pc EXCEPT ![c] = "drop"] /\ UNCHANGED <<tmp, faults>>
    BY <1>1, <1>3, <2>1, <2>3 DEF Unused, TypeOK
  <2> QED BY <1>17, <2>2, <2>3 DEF ReadFails
<1>18. CASE DropTable(c)
  <2>1. CASE conn[c] = "freed" /\ Die(c)
    BY <1>10, <1>18, <2>1 DEF DropTable
  <2>2. CASE /\ tmp' = IF conn[c] = "open" THEN [tmp EXCEPT ![stage[c]] = Absent] ELSE tmp
             /\ Advance(c, "done")
             /\ UNCHANGED <<plan, results, conn>>
    <3>1. pc[c] = "drop" /\ UNCHANGED <<plan, conn, faults>>
      BY <1>18, <2>2 DEF DropTable
    <3>2. \/ stage[c] = Len(plan[c]) /\ pc'[c] = "done"
          \/ pc'[c] = "drop" /\ stage'[c] = stage[c] + 1
      BY <1>1, <2>2, <3>1 DEF Advance, TypeOK
    <3>3. ASSUME faults = 0, NEW i \in Stages, Unused(c, i)' PROVE tmp'[i] = Absent
      <4>1. CASE conn[c] # "open"
        BY <1>3, <2>2, <3>1, <3>3, <4>1 DEF Unused
      <4>2. CASE conn[c] = "open"
        <5>1. i = stage[c] => tmp'[i] = Absent
          BY <1>1, <2>2, <4>2 DEF TypeOK
        <5>2. i # stage[c] => tmp'[i] = tmp[i]
          BY <1>1, <2>2, <4>2 DEF TypeOK
        <5>3. i = stage[c] \/ i < stage[c] \/ i > Len(plan[c])
          BY <1>5, <1>6, <3>1, <3>2, <3>3, <4>2 DEF Unused
        <5> QED BY <1>3, <3>1, <3>3, <5>1, <5>2, <5>3 DEF Unused
      <4> QED BY <4>1, <4>2
    <3> QED BY <3>1, <3>2, <3>3
  <2> QED BY <1>18, <2>1, <2>2 DEF DropTable
<1>19. CASE Return(c)
  BY <1>1, <1>3, <1>19 DEF Return, Unused, TypeOK
<1> QED
  BY <1>7, <1>8, <1>9, <1>11, <1>12, <1>14, <1>15, <1>16, <1>17, <1>18, <1>19
  DEF Next, Step

(***************************************************************************)
(* A process that is alone with the database and whose stages the server   *)
(* does not reject leaves no temporary table behind before something       *)
(* fails, whatever plans it has executed, also without a connection.       *)
(***************************************************************************)
THEOREM NothingLeftOver ==
  ASSUME \A c, d \in Clients : c = d, Clients # {}, MaxRejected = 0
  PROVE  Spec => []NoLeftover
<1>1. IInv /\ [Next]_vars => IInv'
  BY FetchedStep
<1>2. IInv /\ Swept /\ [Next]_vars => Swept'
  BY SweptStep
<1>3. Swept => NoLeftover
  BY DEF Swept, NoLeftover, Unused
<1> QED BY <1>1, <1>2, <1>3, InitFetched, InitSwept, PTL DEF Spec
=============================================================================
