---------------------------- MODULE UploadProofs ----------------------------
(***************************************************************************)
(* Proofs of the safety invariants of UploadService for every set of       *)
(* tables, through the inductive invariant IInv.  Then of what it promises *)
(* about whole indexes between uploads: the join index is that of the      *)
(* cached tables, and the server reads back exactly the cached version of  *)
(* a table that has only grown.  And that it implements TableStore: each   *)
(* step of an upload is a step of the abstract store or leaves it alone.   *)
(***************************************************************************)
EXTENDS UploadService, MultiMapProofs

(***************************************************************************)
(* What the entries of one multi-map look like: the index carries the name *)
(* of the table, and the counters below a counter are entries too.         *)
(***************************************************************************)
LEMMA EmmEntries ==
  ASSUME NEW t \in Tables, NEW tab \in BaseTables, NEW k \in DOMAIN Emm(tab, t)
  PROVE  /\ k = <<k[1], k[2]>>
         /\ k[1][1] = t.name
         /\ k[2] \in Nat
         /\ \A i \in 0 .. (k[2] - 1) : <<k[1], i>> \in DOMAIN Emm(tab, t)
<1>1. IsTable(t)
  BY TablesAssumption
<1>2. CASE tab = "mmr"
  <2>1. Emm(tab, t) = Setup(RowMM(t))
    BY <1>2 DEF Emm, MultiMapOf
  <2>2. \A idx \in DOMAIN RowMM(t) : idx[1] = t.name /\ Gapless(RowMM(t)[idx])
    BY <1>1, RowMMGapless DEF RowMM
  <2> QED BY <2>1, <2>2, SetupEntry, SetupGapless
<1>3. CASE tab = "mmv"
  <2>1. Emm(tab, t) = Setup(ValueMM(t))
    BY <1>3 DEF Emm, MultiMapOf
  <2>2. \A idx \in DOMAIN ValueMM(t) : Gapless(ValueMM(t)[idx])
    BY <1>1, ValueMMGapless
  <2>3. \A idx \in DOMAIN ValueMM(t) : idx[1] = t.name
    BY DEF ValueMM
  <2> QED BY <2>1, <2>2, <2>3, SetupEntry, SetupGapless
<1>4. CASE tab = "mmc"
  <2>1. Emm(tab, t) = Setup(ColMM(t))
    BY <1>4 DEF Emm, MultiMapOf
  <2>2. \A idx \in DOMAIN ColMM(t) : idx[1] = t.name /\ Gapless(ColMM(t)[idx])
    BY <1>1, ColMMGapless DEF ColMM
  <2> QED BY <2>1, <2>2, SetupEntry, SetupGapless
<1> QED BY <1>2, <1>3, <1>4 DEF BaseTables

(***************************************************************************)
(* The same of the join table, whose entries moreover name rows of the     *)
(* second table.                                                           *)
(***************************************************************************)
LEMMA JoinEntries ==
  ASSUME NEW t1 \in Tables, NEW t2 \in Tables, NEW k \in DOMAIN JoinEmm(t1, t2)
  PROVE  /\ k = <<k[1], k[2]>>
         /\ k[2] \in Nat
         /\ \A i \in 0 .. (k[2] - 1) : <<k[1], i>> \in DOMAIN JoinEmm(t1, t2)
         /\ JoinEmm(t1, t2)[k] \in DOMAIN RowMM(t2)
<1> DEFINE mm == JoinMM(t1, t2, 0, 2)
<1>1. IsTable(t2)
  BY TablesAssumption
<1>2. \A idx \in DOMAIN mm : Gapless(mm[idx])
  BY <1>1, JoinMMGapless
<1>3. \A idx \in DOMAIN mm : \A i \in DOMAIN mm[idx] : \E r \in Rows(t2) : mm[idx][i] = <<t2.name, r>>
  BY <1>1, JoinMMGapless
<1>4. JoinEmm(t1, t2) = Setup(mm)
  BY DEF JoinEmm
<1> HIDE DEF mm
<1>5. mm[k[1]][k[2]] \in DOMAIN RowMM(t2)
  BY <1>3, <1>4, SetupEntry DEF RowMM
<1> QED BY <1>2, <1>4, <1>5, SetupEntry, SetupGapless

(***************************************************************************)
(* A posting of mmv names a row of its table, and the entries of mmr hold  *)
(* all the cells of the rows.                                              *)
(***************************************************************************)
LEMMA ValuePostings ==
  ASSUME NEW t \in Tables, NEW k \in DOMAIN Emm("mmv", t)
  PROVE  Emm("mmv", t)[k] \in DOMAIN RowMM(t)
<1>1. IsTable(t)
  BY TablesAssumption
<1>2. Emm("mmv", t) = Setup(ValueMM(t))
  BY DEF Emm, MultiMapOf
<1>3. \A idx \in DOMAIN ValueMM(t) : \A i \in DOMAIN ValueMM(t)[idx] :
        \E r \in Rows(t) : ValueMM(t)[idx][i] = <<t.name, r>>
  BY <1>1, ValueMMGapless
<1> QED BY <1>2, <1>3, SetupEntry DEF RowMM

(***************************************************************************)
(* Every cell of a row in mmr has its entry in the row index.              *)
(***************************************************************************)
LEMMA RowCells ==
  ASSUME NEW t, NEW ref \in DOMAIN RowMM(t), NEW i \in DOMAIN RowMM(t)[ref]
  PROVE  <<ref, i>> \in DOMAIN Emm("mmr", t)
BY DEF Emm, MultiMapOf, Setup

-----------------------------------------------------------------------------
(***************************************************************************)
(* What the loop of insertEMM inserts.                                     *)
(***************************************************************************)
LEMMA PhaseEntries ==
  ASSUME TypeOK, phase # "idle"
  PROVE  /\ phase \in SqlTables
         /\ PhaseEmm \in EmmsOf(phase, begun)
         /\ \A k \in DOMAIN PhaseEmm :
              /\ k = <<k[1], k[2]>>
              /\ phase # "mmjoin" => k[1][1] = up.name
              /\ k[2] \in Nat
              /\ \A i \in 0 .. (k[2] - 1) : <<k[1], i>> \in DOMAIN PhaseEmm
<1>1. phase \in SqlTables /\ up \in begun /\ begun \subseteq Tables
  BY DEF TypeOK
<1>2. CASE phase = "mmjoin"
  <2> DEFINE c == cached["courseinfo"]
             s == cached["student"]
  <2>1. /\ c \in begun /\ c.name = "courseinfo"
        /\ s \in begun /\ s.name = "student"
    BY <1>2 DEF TypeOK, BothCached, Cached
  <2>2. PhaseEmm = JoinEmm(c, s)
    BY <1>2 DEF PhaseEmm
  <2> HIDE DEF c, s
  <2>3. PhaseEmm \in EmmsOf(phase, begun)
    BY <1>2, <2>1, <2>2 DEF EmmsOf
  <2> QED BY <1>1, <1>2, <2>1, <2>2, <2>3, JoinEntries
<1>3. CASE phase # "mmjoin"
  <2>1. PhaseEmm = Emm(phase, up) /\ phase \in BaseTables /\ up \in Tables
    BY <1>1, <1>3 DEF PhaseEmm, SqlTables
  <2>2. PhaseEmm \in EmmsOf(phase, begun)
    BY <1>1, <1>3, <2>1 DEF EmmsOf
  <2> QED BY <1>1, <1>3, <2>1, <2>2, EmmEntries
<1> QED BY <1>2, <1>3

(***************************************************************************)
(* A step that keeps the table, the phase and the cache keeps the entries  *)
(* being stored.                                                           *)
(***************************************************************************)
LEMMA SamePhaseEmm ==
  ASSUME UNCHANGED <<phase, up, cached>>
  PROVE  PhaseEmm' = PhaseEmm
BY DEF PhaseEmm

(***************************************************************************)
(* Returning from insertEMM keeps the control state well-formed.           *)
(***************************************************************************)
LEMMA ReturnType ==
  ASSUME TypeOK, phase # "idle", Return
  PROVE  /\ step' = "create" /\ todo' = {}
         /\ \/ phase' = "idle" /\ up' = NoTable /\ api' = "none"
            \/ /\ phase' \in SqlTables /\ up' = up /\ api' = api
               /\ phase' = "mmjoin" => BothCached /\ api = "table"
<1>1. phase \in SqlTables
  BY DEF TypeOK
<1>2. AfterPhase \in SqlTables \cup {"idle"} /\ (AfterPhase = "mmjoin" => BothCached /\ api = "table")
  BY <1>1 DEF AfterPhase, SqlTables, BaseTables
<1> QED BY <1>2 DEF Return, SqlTables, BaseTables

(***************************************************************************)
(* Every step keeps the types.                                             *)
(***************************************************************************)
LEMMA TypeStep ==
  ASSUME TypeOK, [Next]_vars
  PROVE  TypeOK'
<1> USE DEF TypeOK
<1>1. CASE SetConn
  BY <1>1, SamePhaseEmm DEF SetConn, database, upload, Cached, BothCached
<1>2. CASE LoseConnection
  BY <1>2, SamePhaseEmm DEF LoseConnection, Fault, database, upload, Cached, BothCached
<1>3. CASE Crash
  BY <1>3 DEF Crash, Forget, Fault, database, Cached
<1>4. ASSUME NEW t \in Tables, NEW a \in Apis, BeginUpload(t, a) PROVE TypeOK'
  <2>1. CASE ~Unbuildable(t)
    <3>1. t.name \in Names
      BY DEF Names
    <3>2. /\ cached' = [cached EXCEPT ![t.name] = t] /\ begun' = begun \cup {t}
          /\ up' = t /\ api' = a /\ phase' = "mmr" /\ step' = "create" /\ todo' = {}
          /\ UNCHANGED <<conn, db, made, lost, faults>>
      BY <1>4, <2>1 DEF BeginUpload, database
    <3>3. cached' \in [Names -> begun' \cup {NoTable}] /\ cached'[t.name] = t
      BY <3>1, <3>2
    <3>4. \A n \in Names : cached'[n] # NoTable => cached'[n].name = n
      BY <3>1, <3>2 DEF Cached
    <3> QED BY <3>2, <3>3, <3>4 DEF Cached, SqlTables, BaseTables
  <2>2. CASE Unbuildable(t)
    BY <1>4, <2>2 DEF BeginUpload, Forget, database, Cached
  <2> QED BY <2>1, <2>2
<1>5. CASE CreateTable
  <2>1. PhaseEmm' = PhaseEmm
    BY <1>5, SamePhaseEmm DEF CreateTable
  <2> QED BY <1>5, <2>1, PhaseEntries DEF CreateTable, Fault, Cached, BothCached
<1>6. ASSUME phase # "idle", LosePhase, conn' \in {"freed", "unset"} PROVE TypeOK'
  BY <1>6, ReturnType DEF LosePhase, Cached, BothCached
<1>7. CASE FreeConnection
  BY <1>6, <1>7 DEF FreeConnection
<1>8. CASE UseDeadPointer
  BY <1>6, <1>8 DEF UseDeadPointer
<1>9. ASSUME NEW k \in todo, Insert(k) PROVE TypeOK'
  <2>1. PhaseEmm' = PhaseEmm
    BY <1>9, SamePhaseEmm DEF Insert, NextKey
  <2> QED BY <1>9, <2>1 DEF Insert, NextKey, Cached, BothCached
<1>10. ASSUME NEW k \in todo, InsertFails(k) PROVE TypeOK'
  <2>1. PhaseEmm' = PhaseEmm
    BY <1>10, SamePhaseEmm DEF InsertFails, NextKey
  <2> QED BY <1>10, <2>1 DEF InsertFails, NextKey, Fault, Cached, BothCached
<1>11. CASE PhaseDone
  BY <1>11, ReturnType DEF PhaseDone, database, Cached, BothCached
<1>12. CASE UNCHANGED vars
  BY <1>12, SamePhaseEmm DEF vars, database, upload, Cached, BothCached
<1> QED BY <1>1, <1>2, <1>3, <1>4, <1>5, <1>7, <1>8, <1>9, <1>10, <1>11, <1>12
        DEF Next, UploadStep

-----------------------------------------------------------------------------
(***************************************************************************)
(* What a step does to the database: nothing but the upsert of Insert      *)
(* changes a store, and what is present or uploaded only grows.            *)
(***************************************************************************)
LEMMA DatabaseStep ==
  ASSUME TypeOK, [Next]_vars
  PROVE  /\ begun \subseteq begun'
         /\ \/ db' = db /\ \A tab \in SqlTables : lost[tab] \subseteq lost'[tab]
            \/ \E k \in todo : Insert(k)
<1> USE DEF TypeOK
<1>1. CASE SetConn \/ LoseConnection \/ Crash \/ CreateTable \/ PhaseDone \/ UNCHANGED vars
  BY <1>1 DEF SetConn, LoseConnection, Crash, CreateTable, PhaseDone, vars, database
<1>2. CASE \E t \in Tables, a \in Apis : BeginUpload(t, a)
  BY <1>2 DEF BeginUpload, database
<1>3. CASE FreeConnection \/ UseDeadPointer
  BY <1>3 DEF FreeConnection, UseDeadPointer, LosePhase
<1>4. CASE \E k \in todo : Insert(k)
  BY <1>4 DEF Insert, NextKey
<1>5. CASE \E k \in todo : InsertFails(k)
  BY <1>5 DEF InsertFails, NextKey
<1> QED BY <1>1, <1>2, <1>3, <1>4, <1>5 DEF Next, UploadStep

(***************************************************************************)
(* What one successful upsert changes: its own key, in the SQL table of    *)
(* the phase.                                                              *)
(***************************************************************************)
LEMMA InsertEffect ==
  ASSUME TypeOK, NEW k \in todo, Insert(k)
  PROVE  /\ phase \in SqlTables /\ k \in DOMAIN PhaseEmm
         /\ UNCHANGED <<phase, step, up, api, cached, begun, conn>>
         /\ todo' = todo \ {k}
         /\ \A tab \in SqlTables \ {phase} : db'[tab] = db[tab] /\ lost'[tab] = lost[tab]
         /\ DOMAIN db'[phase] = DOMAIN db[phase] \cup {k}
         /\ db'[phase][k] = PhaseEmm[k]
         /\ \A q \in DOMAIN db[phase] \ {k} : db'[phase][q] = db[phase][q]
         /\ lost'[phase] = lost[phase] \ {k}
         /\ \A q \in todo : q[1] = k[1] => k[2] <= q[2]
<1>1. phase # "idle" /\ step = "insert"
  BY DEF Insert, NextKey
<1>2. phase \in SqlTables /\ k \in DOMAIN PhaseEmm /\ DOMAIN db = SqlTables /\ DOMAIN lost = SqlTables
  BY <1>1 DEF TypeOK
<1>3. db'[phase] = Upsert(db[phase], k, PhaseEmm[k])
  BY <1>2 DEF Insert
<1> QED BY <1>2, <1>3 DEF Insert, NextKey, Upsert

(***************************************************************************)
(* No step takes an entry out of the database or out of the lost writes,   *)
(* except to write it.                                                     *)
(***************************************************************************)
LEMMA PresentGrows ==
  ASSUME TypeOK, [Next]_vars, NEW tab \in SqlTables
  PROVE  Present(tab) \subseteq Present(tab)'
<1>1. CASE db' = db /\ \A s \in SqlTables : lost[s] \subseteq lost'[s]
  BY <1>1 DEF Present
<1>2. CASE \E k \in todo : Insert(k)
  BY <1>2, InsertEffect DEF Present
<1> QED BY <1>1, <1>2, DatabaseStep

(***************************************************************************)
(* Provenance is kept: an upsert writes an entry of the multi-map of the   *)
(* phase, whose tables were begun.                                         *)
(***************************************************************************)
LEMMA ProvenanceStep ==
  ASSUME TypeOK, Provenance, [Next]_vars
  PROVE  Provenance'
<1>1. begun \subseteq begun'
  BY DatabaseStep
<1>2. \A tab : EmmsOf(tab, begun) \subseteq EmmsOf(tab, begun')
  BY <1>1 DEF EmmsOf
<1>3. CASE db' = db
  BY <1>2, <1>3 DEF Provenance
<1>4. ASSUME NEW k \in todo, Insert(k) PROVE Provenance'
  <2> SUFFICES ASSUME NEW tab \in SqlTables, NEW q \in DOMAIN db'[tab]
               PROVE  \E e \in EmmsOf(tab, begun) : q \in DOMAIN e /\ db'[tab][q] = e[q]
    BY <1>2 DEF Provenance
  <2>1. CASE tab = phase /\ q = k
    <3>1. PhaseEmm \in EmmsOf(tab, begun)
      BY <1>4, <2>1, PhaseEntries DEF Insert, NextKey
    <3> QED BY <1>4, <2>1, <3>1, InsertEffect
  <2>2. CASE ~(tab = phase /\ q = k)
    <3>1. q \in DOMAIN db[tab] /\ db'[tab][q] = db[tab][q]
      BY <1>4, <2>2, InsertEffect
    <3> QED BY <3>1 DEF Provenance
  <2> QED BY <2>1, <2>2
<1> QED BY <1>3, <1>4, DatabaseStep

(***************************************************************************)
(* No gap opens: when a counter is inserted the loop has passed all lower  *)
(* counters of the index, and by Progress those are stored or lost.        *)
(***************************************************************************)
LEMMA ContiguousStep ==
  ASSUME TypeOK, Contiguous, Progress, [Next]_vars
  PROVE  Contiguous'
<1>1. CASE db' = db
  BY <1>1, PresentGrows DEF Contiguous
<1>2. ASSUME NEW k \in todo, Insert(k) PROVE Contiguous'
  <2> SUFFICES ASSUME NEW tab \in SqlTables, NEW q \in DOMAIN db'[tab], NEW i \in 0 .. (q[2] - 1)
               PROVE  <<q[1], i>> \in Present(tab)'
    BY DEF Contiguous
  <2>1. CASE q \in DOMAIN db[tab]
    BY <2>1, PresentGrows DEF Contiguous
  <2>2. CASE q \notin DOMAIN db[tab]
    <3>1. tab = phase /\ q = k
      BY <1>2, <2>2, InsertEffect
    <3>2. phase # "idle" /\ step = "insert"
      BY <1>2 DEF Insert, NextKey
    <3>3. k \in DOMAIN PhaseEmm /\ k[2] \in Nat /\ <<k[1], i>> \in DOMAIN PhaseEmm
      BY <1>2, <3>1, <3>2, InsertEffect, PhaseEntries
    <3>4. <<k[1], i>> \notin todo
      <4>1. i < k[2] /\ i \in Nat
        BY <3>1, <3>3
      <4> QED BY <1>2, <3>3, <4>1, InsertEffect
    <3>5. <<k[1], i>> \in Present(tab)
      BY <3>1, <3>2, <3>3, <3>4 DEF Progress, StoredIn, Present
    <3> QED BY <3>1, <3>5, PresentGrows
  <2> QED BY <2>1, <2>2
<1> QED BY <1>1, <1>2, DatabaseStep

(***************************************************************************)
(* Postings keep their rows: mmv and the join table are only written when  *)
(* the rows they name have been through the loop over mmr.                 *)
(***************************************************************************)
LEMMA StoredRowPresent ==
  ASSUME NEW t \in begun, NEW ref \in DOMAIN RowMM(t),
         StoredIn("mmr", Emm("mmr", t), DOMAIN Emm("mmr", t))
  PROVE  RowPresent(ref)
BY RowCells DEF StoredIn, RowPresent, Present

(***************************************************************************)
(* Hence a row that a posting can be resolved to stays so.                 *)
(***************************************************************************)
LEMMA RowStaysPresent ==
  ASSUME TypeOK, [Next]_vars, NEW ref, RowPresent(ref)
  PROVE  RowPresent(ref)'
<1>1. PICK t \in begun : /\ ref \in DOMAIN RowMM(t)
                         /\ \A i \in DOMAIN RowMM(t)[ref] : <<ref, i>> \in Present("mmr")
  BY DEF RowPresent
<1>2. t \in begun'
  BY DatabaseStep
<1>3. Present("mmr") \subseteq Present("mmr")'
  BY PresentGrows DEF SqlTables, BaseTables
<1> QED BY <1>1, <1>2, <1>3 DEF RowPresent

(***************************************************************************)
(* A posting is stored only after its row: mmr comes before mmv, and the   *)
(* join table after both.                                                  *)
(***************************************************************************)
LEMMA PostingsStep ==
  ASSUME TypeOK, PostingsResolve, Stored, [Next]_vars
  PROVE  PostingsResolve'
<1>1. CASE db' = db
  BY <1>1, RowStaysPresent DEF PostingsResolve, SqlTables, BaseTables
<1>2. ASSUME NEW k \in todo, Insert(k) PROVE PostingsResolve'
  <2> SUFFICES ASSUME NEW tab \in {"mmv", "mmjoin"}, NEW q \in DOMAIN db'[tab],
                      NEW ref, ref = db'[tab][q]
               PROVE  RowPresent(ref)'
    BY DEF PostingsResolve, RowPresent
  <2>1. CASE ~(tab = phase /\ q = k)
    <3>1. q \in DOMAIN db[tab] /\ db'[tab][q] = db[tab][q]
      BY <1>2, <2>1, InsertEffect DEF SqlTables, BaseTables
    <3>2. RowPresent(ref)
      BY <3>1 DEF PostingsResolve
    <3> QED BY <3>2, RowStaysPresent
  <2>2. CASE tab = phase /\ q = k
    <3>1. k \in DOMAIN PhaseEmm /\ db'[tab][q] = PhaseEmm[k] /\ phase # "idle"
      BY <1>2, <2>2, InsertEffect
    <3>2. \E t \in begun : /\ PhaseEmm[k] \in DOMAIN RowMM(t)
                           /\ StoredIn("mmr", Emm("mmr", t), DOMAIN Emm("mmr", t))
      <4>1. CASE phase = "mmv"
        <5>1. up \in begun /\ up \in Tables /\ cached[up.name] = up /\ Cached(up.name)
          BY <4>1, TablesAssumption DEF TypeOK, Cached, Names
        <5>2. "mmr" \in PhasesDone(up.name)
          BY <4>1 DEF PhasesDone
        <5>3. StoredIn("mmr", Emm("mmr", up), DOMAIN Emm("mmr", up))
          BY <5>1, <5>2 DEF Stored, Cached
        <5>4. PhaseEmm = Emm("mmv", up)
          BY <4>1 DEF PhaseEmm
        <5> QED BY <3>1, <5>1, <5>3, <5>4, ValuePostings
      <4>2. CASE phase = "mmjoin"
        <5> DEFINE s == cached["student"]
                   c == cached["courseinfo"]
        <5>1. Cached("student") /\ Cached("courseinfo") /\ s \in begun /\ s \in Tables /\ c \in Tables
          BY <4>2 DEF TypeOK, BothCached, Cached
        <5>2. "mmr" \in PhasesDone("student")
          BY <4>2 DEF PhasesDone, BaseTables
        <5>3. StoredIn("mmr", Emm("mmr", s), DOMAIN Emm("mmr", s))
          BY <5>1, <5>2 DEF Stored, Cached
        <5>4. PhaseEmm = JoinEmm(c, s)
          BY <4>2 DEF PhaseEmm
        <5> HIDE DEF s, c
        <5> QED BY <3>1, <5>1, <5>3, <5>4, JoinEntries
      <4> QED BY <2>2, <4>1, <4>2
    <3>3. RowPresent(ref)
      BY <3>1, <3>2, StoredRowPresent
    <3> QED BY <3>3, RowStaysPresent
  <2> QED BY <2>1, <2>2
<1> QED BY <1>1, <1>2, DatabaseStep

(***************************************************************************)
(* Progress: the loop starts with every key to do and drops one at a time. *)
(***************************************************************************)
LEMMA ProgressStep ==
  ASSUME TypeOK, Progress, [Next]_vars
  PROVE  Progress'
<1>1. CASE Crash \/ FreeConnection \/ UseDeadPointer \/ PhaseDone
  BY <1>1 DEF Progress, Crash, Forget, FreeConnection, UseDeadPointer, LosePhase, PhaseDone, Return
<1>2. CASE \E t \in Tables, a \in Apis : BeginUpload(t, a)
  BY <1>2 DEF Progress, BeginUpload, Forget
<1>3. CASE SetConn \/ LoseConnection \/ UNCHANGED vars
  <2>1. UNCHANGED <<database, upload, cached>>
    BY <1>3 DEF SetConn, LoseConnection, vars
  <2> QED BY <2>1, SamePhaseEmm DEF Progress, StoredIn, database, upload
<1>4. CASE CreateTable
  <2>1. PhaseEmm' = PhaseEmm /\ todo' = DOMAIN PhaseEmm
    BY <1>4, SamePhaseEmm DEF CreateTable
  <2> QED BY <2>1 DEF Progress, StoredIn
<1>5. ASSUME NEW k \in todo, Insert(k) PROVE Progress'
  <2>1. PhaseEmm' = PhaseEmm
    BY <1>5, SamePhaseEmm, InsertEffect
  <2> SUFFICES ASSUME NEW q \in DOMAIN PhaseEmm \ (todo \ {k})
               PROVE  q \in lost'[phase] \/ (q \in DOMAIN db'[phase] /\ db'[phase][q] = PhaseEmm[q])
    BY <1>5, <2>1, InsertEffect DEF Progress, StoredIn
  <2>2. step = "insert"
    BY <1>5 DEF Insert, NextKey
  <2>3. q = k \/ q \in lost[phase] \/ (q \in DOMAIN db[phase] /\ db[phase][q] = PhaseEmm[q])
    BY <2>2 DEF Progress, StoredIn
  <2> QED BY <1>5, <2>3, InsertEffect
<1>6. ASSUME NEW k \in todo, InsertFails(k) PROVE Progress'
  <2>1. PhaseEmm' = PhaseEmm /\ phase' = phase /\ db' = db /\ todo' = todo \ {k}
    BY <1>6, SamePhaseEmm DEF InsertFails, NextKey
  <2>2. lost'[phase] = lost[phase] \cup {k} /\ step = "insert"
    BY <1>6 DEF InsertFails, NextKey, TypeOK
  <2> QED BY <2>1, <2>2 DEF Progress, StoredIn
<1> QED BY <1>1, <1>2, <1>3, <1>4, <1>5, <1>6 DEF Next, UploadStep

(***************************************************************************)
(* Stored is kept: the upload of a table claims nothing until a phase is   *)
(* through, and writes under no other name.                                *)
(***************************************************************************)
LEMMA StoredInGrows ==
  ASSUME db' = db, NEW tab \in SqlTables, lost[tab] \subseteq lost'[tab],
         NEW e, NEW K, StoredIn(tab, e, K)
  PROVE  StoredIn(tab, e, K)'
BY DEF StoredIn

(***************************************************************************)
(* The phases that a table has behind it are uploads of base tables.       *)
(***************************************************************************)
LEMMA PhasesAreBase ==
  ASSUME TypeOK, NEW n
  PROVE  PhasesDone(n) \subseteq BaseTables
BY DEF TypeOK, PhasesDone, SqlTables, BaseTables

(***************************************************************************)
(* Stored is kept by a step that only adds to the lost writes and changes  *)
(* nothing it is about.                                                    *)
(***************************************************************************)
LEMMA StoredKept ==
  ASSUME TypeOK, Stored, db' = db, \A tab \in SqlTables : lost[tab] \subseteq lost'[tab],
         cached' = cached,
         \A n \in Names : Cached(n) => PhasesDone(n)' \subseteq PhasesDone(n)
  PROVE  Stored'
<1> SUFFICES ASSUME NEW n \in Names, Cached(n), NEW tab \in PhasesDone(n),
                    NEW e, e = Emm(tab, cached[n])
             PROVE  StoredIn(tab, e, DOMAIN e)'
  BY DEF Stored, Cached, StoredIn
<1>1. tab \in SqlTables
  BY PhasesAreBase DEF SqlTables
<1> QED BY <1>1, StoredInGrows DEF Stored

(***************************************************************************)
(* When insertEMM returns, the phases done are those before and at most    *)
(* the one it returns from.                                                *)
(***************************************************************************)
LEMMA PhasesAfterReturn ==
  ASSUME TypeOK, phase # "idle", Return, NEW n
  PROVE  \A tab \in PhasesDone(n)' :
           tab \in PhasesDone(n) \/ (tab = phase /\ tab \in BaseTables /\ n = up.name)
<1>1. phase \in SqlTables
  BY DEF TypeOK
<1>2. CASE up.name # n
  <2>1. up' = up \/ phase' = "idle"
    BY DEF Return
  <2>2. PhasesDone(n) = BaseTables /\ PhasesDone(n)' = BaseTables
    BY <1>2, <2>1 DEF PhasesDone
  <2> QED BY <2>2
<1>3. CASE up.name = n
  <2>1. CASE phase = "mmr"
    <3>1. phase' = "mmv" /\ up' = up
      BY <2>1 DEF Return, AfterPhase
    <3> QED BY <1>3, <2>1, <3>1 DEF PhasesDone, BaseTables
  <2>2. CASE phase = "mmv"
    <3>1. phase' = "mmc" /\ up' = up
      BY <2>2 DEF Return, AfterPhase
    <3> QED BY <1>3, <2>2, <3>1 DEF PhasesDone, BaseTables
  <2>3. CASE phase = "mmc"
    <3>1. phase' = "idle" \/ (phase' = "mmjoin" /\ up' = up)
      BY <2>3 DEF Return, AfterPhase
    <3>2. PhasesDone(n)' = BaseTables
      BY <1>3, <3>1 DEF PhasesDone
    <3> QED BY <1>3, <2>3, <3>2 DEF PhasesDone, BaseTables
  <2>4. CASE phase = "mmjoin"
    <3>1. phase' = "idle"
      BY <2>4 DEF Return, AfterPhase
    <3> QED BY <1>3, <2>4, <3>1 DEF PhasesDone
  <2> QED BY <1>1, <2>1, <2>2, <2>3, <2>4 DEF SqlTables, BaseTables
<1> QED BY <1>2, <1>3

(***************************************************************************)
(* A phase that returns with all its entries stored or lost keeps Stored.  *)
(***************************************************************************)
LEMMA StoredOnReturn ==
  ASSUME TypeOK, Stored, phase # "idle", Return, db' = db, cached' = cached,
         \A tab \in SqlTables : lost[tab] \subseteq lost'[tab],
         \A k \in DOMAIN PhaseEmm :
           k \in lost'[phase] \/ (k \in DOMAIN db[phase] /\ db[phase][k] = PhaseEmm[k])
  PROVE  Stored'
<1> SUFFICES ASSUME NEW n \in Names, Cached(n), NEW tab \in PhasesDone(n)',
                    NEW e, e = Emm(tab, cached[n])
             PROVE  StoredIn(tab, e, DOMAIN e)'
  BY DEF Stored, Cached, StoredIn
<1>1. CASE tab \in PhasesDone(n)
  <2>1. tab \in SqlTables
    BY <1>1, PhasesAreBase DEF SqlTables
  <2> QED BY <1>1, <2>1, StoredInGrows DEF Stored
<1>2. CASE tab = phase /\ tab \in BaseTables /\ n = up.name
  <2>1. e = PhaseEmm
    BY <1>2 DEF PhaseEmm, BaseTables, TypeOK
  <2> QED BY <1>2, <2>1 DEF StoredIn
<1> QED BY <1>1, <1>2, PhasesAfterReturn

(***************************************************************************)
(* Every step keeps Stored: an upload disturbs only entries under its own  *)
(* name, and those of a phase not yet done.                                *)
(***************************************************************************)
LEMMA StoredStep ==
  ASSUME TypeOK, Stored, Progress, [Next]_vars
  PROVE  Stored'
<1>1. CASE SetConn \/ LoseConnection \/ CreateTable \/ UNCHANGED vars
  <2>1. UNCHANGED <<db, lost, cached, phase, up>>
    BY <1>1 DEF SetConn, LoseConnection, CreateTable, vars, database, upload
  <2>2. \A n \in Names : PhasesDone(n)' = PhasesDone(n)
    BY <2>1 DEF PhasesDone
  <2> QED BY <2>1, <2>2, StoredKept
<1>2. ASSUME Forget PROVE Stored'
  BY <1>2 DEF Forget, Stored, Cached
<1>3. CASE Crash
  BY <1>2, <1>3 DEF Crash
<1>4. ASSUME NEW t \in Tables, NEW a \in Apis, BeginUpload(t, a) PROVE Stored'
  <2>1. CASE ~Unbuildable(t)
    <3>1. /\ phase = "idle" /\ db' = db /\ lost' = lost
          /\ cached' = [cached EXCEPT ![t.name] = t] /\ up' = t /\ phase' = "mmr"
      BY <1>4, <2>1 DEF BeginUpload, database
    <3> SUFFICES ASSUME NEW n \in Names, Cached(n)', NEW tab \in PhasesDone(n)',
                        NEW e, e = Emm(tab, cached'[n])
                 PROVE  StoredIn(tab, e, DOMAIN e)'
      BY DEF Stored, StoredIn
    <3>2. n # t.name /\ tab \in BaseTables
      BY <3>1 DEF PhasesDone
    <3>3. cached'[n] = cached[n] /\ Cached(n) /\ tab \in PhasesDone(n)
      BY <3>1, <3>2 DEF Cached, PhasesDone, TypeOK
    <3>4. StoredIn(tab, e, DOMAIN e)
      BY <3>3 DEF Stored
    <3> QED BY <3>1, <3>4 DEF StoredIn
  <2>2. CASE Unbuildable(t)
    BY <1>2, <1>4, <2>2 DEF BeginUpload
  <2> QED BY <2>1, <2>2
<1>5. ASSUME phase # "idle", LosePhase PROVE Stored'
  <2>1. Return /\ db' = db /\ cached' = cached
    BY <1>5 DEF LosePhase
  <2>2. /\ \A tab \in SqlTables : lost[tab] \subseteq lost'[tab]
        /\ DOMAIN PhaseEmm \subseteq lost'[phase]
    BY <1>5, PhaseEntries DEF LosePhase, TypeOK
  <2> QED BY <1>5, <2>1, <2>2, StoredOnReturn
<1>6. CASE FreeConnection \/ UseDeadPointer
  BY <1>5, <1>6 DEF FreeConnection, UseDeadPointer
<1>7. ASSUME NEW k \in todo, Insert(k) PROVE Stored'
  <2>1. phase # "idle" /\ UNCHANGED <<phase, up, cached>>
    BY <1>7 DEF Insert, NextKey
  <2>2. \A n \in Names : PhasesDone(n)' = PhasesDone(n) /\ (Cached(n)' <=> Cached(n))
    BY <2>1 DEF PhasesDone, Cached
  <2> SUFFICES ASSUME NEW n \in Names, Cached(n), NEW tab \in PhasesDone(n),
                      NEW e, e = Emm(tab, cached[n]), NEW q \in DOMAIN e
               PROVE  q \in lost'[tab] \/ (q \in DOMAIN db'[tab] /\ db'[tab][q] = e[q])
    BY <2>1, <2>2 DEF Stored, StoredIn
  <2>3. q \in lost[tab] \/ (q \in DOMAIN db[tab] /\ db[tab][q] = e[q])
    BY DEF Stored, StoredIn
  <2>4. tab \in BaseTables /\ tab \in SqlTables
    BY PhasesAreBase DEF SqlTables
  <2>5. CASE tab # phase
    BY <1>7, <2>3, <2>4, <2>5, InsertEffect
  <2>6. CASE tab = phase
    <3>1. n # up.name
      BY <2>4, <2>6 DEF PhasesDone, BaseTables
    <3>2. k[1][1] = up.name
      BY <1>7, <2>1, <2>4, <2>6, InsertEffect, PhaseEntries DEF BaseTables
    <3>3. q[1][1] = n
      <4>1. cached[n] \in Tables /\ cached[n].name = n
        BY DEF TypeOK, Cached
      <4> QED BY <2>4, <4>1, EmmEntries
    <3> QED BY <1>7, <2>3, <2>6, <3>1, <3>2, <3>3, InsertEffect
  <2> QED BY <2>5, <2>6
<1>8. ASSUME NEW k \in todo, InsertFails(k) PROVE Stored'
  <2>1. /\ UNCHANGED <<db, cached, phase, up>>
        /\ \A tab \in SqlTables : lost[tab] \subseteq lost'[tab]
    BY <1>8 DEF InsertFails, NextKey, TypeOK
  <2>2. \A n \in Names : PhasesDone(n)' = PhasesDone(n)
    BY <2>1 DEF PhasesDone
  <2> QED BY <2>1, <2>2, StoredKept
<1>9. CASE PhaseDone
  <2>1. phase # "idle" /\ step = "insert" /\ todo = {} /\ Return /\ UNCHANGED <<db, lost, cached>>
    BY <1>9 DEF PhaseDone, database
  <2>2. StoredIn(phase, PhaseEmm, DOMAIN PhaseEmm)
    BY <2>1 DEF Progress, StoredIn
  <2> QED BY <2>1, <2>2, StoredOnReturn DEF StoredIn
<1> QED BY <1>1, <1>3, <1>4, <1>6, <1>7, <1>8, <1>9 DEF Next, UploadStep

-----------------------------------------------------------------------------
(***************************************************************************)
(* The inductive invariant holds at the start and is kept by every step.   *)
(***************************************************************************)
LEMMA InitIInv == Init => IInv
<1> SUFFICES ASSUME Init PROVE IInv
  OBVIOUS
<1>1. \A tab \in SqlTables : DOMAIN db[tab] = {}
  BY DEF Init, NoStore
<1>2. \A n : ~Cached(n)
  BY DEF Init, Cached
<1>3. TypeOK
  BY <1>2 DEF Init, TypeOK
<1>4. Provenance /\ Contiguous
  BY <1>1 DEF Provenance, Contiguous
<1>5. PostingsResolve
  BY <1>1 DEF PostingsResolve, SqlTables, BaseTables
<1>6. Stored /\ Progress
  BY <1>2 DEF Stored, Progress, Init
<1> QED BY <1>3, <1>4, <1>5, <1>6 DEF IInv

(***************************************************************************)
(* Every step keeps the inductive invariant.                               *)
(***************************************************************************)
LEMMA IInvStep == IInv /\ [Next]_vars => IInv'
BY TypeStep, ProvenanceStep, ContiguousStep, PostingsStep, StoredStep, ProgressStep DEF IInv

(***************************************************************************)
(* So it is an invariant, and the theorems follow from its parts.          *)
(***************************************************************************)
LEMMA Invariance == Spec => []IInv
BY InitIInv, IInvStep, PTL DEF Spec

(***************************************************************************)
(* Every variable keeps its type and an upload is always of the cached     *)
(* version of its table.                                                   *)
(***************************************************************************)
THEOREM TypeCorrect == Spec => []TypeOK
BY Invariance, PTL DEF IInv

(***************************************************************************)
(* The counters of an index have no gap but where a write failed: the      *)
(* loops of the server do not stop early.                                  *)
(***************************************************************************)
THEOREM CountersContiguous == Spec => []Contiguous
BY Invariance, PTL DEF IInv

(***************************************************************************)
(* A posting never names a row whose cells were not written first.         *)
(***************************************************************************)
THEOREM PostingsAlwaysResolve == Spec => []PostingsResolve
BY Invariance, PTL DEF IInv

(***************************************************************************)
(* What the service has cached is what is stored, except for the writes    *)
(* that failed.                                                            *)
(***************************************************************************)
THEOREM CachedTablesStored == Spec => []Stored
BY Invariance, PTL DEF IInv

(***************************************************************************)
(* No step removes an entry, and only the upload of a table writes under   *)
(* its name.                                                               *)
(***************************************************************************)
THEOREM OnlyUploadsWrite == Spec => OnlyOwnEntries
<1>1. ASSUME IInv, [Next]_vars PROVE [TouchesOwnEntries]_vars
  <2>1. TypeOK /\ DOMAIN db = SqlTables
    BY <1>1 DEF IInv, TypeOK
  <2>2. CASE db' = db
    BY <2>2 DEF TouchesOwnEntries
  <2>3. ASSUME NEW k \in todo, Insert(k) PROVE TouchesOwnEntries
    <3> SUFFICES ASSUME NEW tab \in SqlTables
                 PROVE  /\ DOMAIN db[tab] \subseteq DOMAIN db'[tab]
                        /\ \A q \in DOMAIN db'[tab] :
                             \/ q \in DOMAIN db[tab] /\ db'[tab][q] = db[tab][q]
                             \/ tab = phase /\ tab # "mmjoin" /\ q[1][1] = up.name
                             \/ tab = phase /\ tab = "mmjoin" /\ api = "table"
      BY DEF TouchesOwnEntries
    <3>1. CASE tab # phase
      BY <2>1, <2>3, <3>1, InsertEffect
    <3>2. CASE tab = phase
      <4>1. phase # "idle" /\ k \in DOMAIN PhaseEmm
        BY <2>1, <2>3, InsertEffect DEF Insert, NextKey
      <4>2. phase # "mmjoin" => k[1][1] = up.name
        BY <2>1, <4>1, PhaseEntries
      <4>3. phase = "mmjoin" => api = "table"
        BY <2>1 DEF TypeOK
      <4> QED BY <2>1, <2>3, <3>2, <4>2, <4>3, InsertEffect
    <3> QED BY <3>1, <3>2
  <2> QED BY <1>1, <2>1, <2>2, <2>3, DatabaseStep
<1> QED BY <1>1, Invariance, PTL DEF Spec, OnlyOwnEntries
-----------------------------------------------------------------------------
(***************************************************************************)
(* A table is as whole as the base tables of the database say.             *)
(***************************************************************************)
LEMMA WholeKept ==
  ASSUME \A tab \in BaseTables : db'[tab] = db[tab], NEW t
  PROVE  Whole(t)' <=> Whole(t)
BY DEF Whole

(***************************************************************************)
(* An idle service writes nothing and has missed nothing.                  *)
(***************************************************************************)
LEMMA NotWriting ==
  ASSUME ~Writing
  PROVE  Writer = NoTable /\ Missed = FALSE
BY DEF Writer, Missed

(***************************************************************************)
(* A service that writes stores the multi-map of the phase, and the phases *)
(* before it are done.                                                     *)
(***************************************************************************)
LEMMA WhileWriting ==
  ASSUME TypeOK, Writing
  PROVE  /\ Writer = up /\ up \in begun /\ up \in Tables /\ up # NoTable
         /\ PhaseEmm = Emm(phase, up)
         /\ up.name \in Names /\ Cached(up.name) /\ cached[up.name] = up
         /\ phase \notin PhasesDone(up.name)
         /\ phase # "idle" /\ phase # "mmjoin"
<1>1. phase # "idle" /\ phase # "mmjoin" /\ up \in begun /\ cached[up.name] = up
  BY DEF TypeOK, Writing, BaseTables
<1>2. up \in Tables /\ up # NoTable
  BY <1>1, TablesAssumption DEF TypeOK
<1>3. phase \notin PhasesDone(up.name)
  BY <1>1 DEF PhasesDone, Writing, BaseTables
<1> QED BY <1>1, <1>2, <1>3 DEF Writer, Writing, PhaseEmm, Names, Cached

(***************************************************************************)
(* A step that touches neither the database nor the upload is one of the   *)
(* memory or the connection only.                                          *)
(***************************************************************************)
LEMMA SameUpload ==
  ASSUME UNCHANGED <<db, lost, begun, up, phase, step, todo, cached>>
  PROVE  UNCHANGED <<WholeTables, Writer, Missed>>
<1>1. PhaseEmm' = PhaseEmm
  BY SamePhaseEmm
<1>2. WholeTables' = WholeTables
  BY WholeKept DEF WholeTables
<1>3. \A tab : Passed(tab)' = Passed(tab)
  BY <1>1 DEF Passed, PhasesDone
<1> QED BY <1>2, <1>3 DEF Writer, Writing, Missed

(***************************************************************************)
(* The start of the service is the start of the store.                     *)
(***************************************************************************)
LEMMA InitStore == Init => Store!Init
<1> SUFFICES ASSUME Init PROVE Store!Init
  OBVIOUS
<1>1. WholeTables = {} /\ ~Writing /\ conn # "open" /\ cached = [n \in Names |-> NoTable]
  BY DEF Init, WholeTables, Writing, BaseTables
<1> QED BY <1>1, NotWriting DEF Store!Init, Store!Names, Names

(***************************************************************************)
(* What ends the process is a crash of the store.                          *)
(***************************************************************************)
LEMMA ForgetIsCrash ==
  ASSUME Forget, UNCHANGED <<db, begun>>
  PROVE  Store!Crash
<1>1. ~Writing' /\ conn' # "open" /\ cached' = [n \in Names |-> NoTable]
  BY DEF Forget, Writing, BaseTables
<1>2. WholeTables' = WholeTables
  BY WholeKept DEF WholeTables
<1>3. Writer' = NoTable /\ Missed' = FALSE
  BY <1>1 DEF Writer, Missed
<1> QED BY <1>1, <1>2, <1>3 DEF Store!Crash, Store!Names, Names

(***************************************************************************)
(* The beginning of an upload is that of the store's.                      *)
(***************************************************************************)
LEMMA BeginIsBegin ==
  ASSUME TypeOK, NEW t \in Tables, NEW a \in Apis, BeginUpload(t, a)
  PROVE  Store!Begin(t) \/ Store!Crash
<1>1. CASE Unbuildable(t)
  BY <1>1, ForgetIsCrash DEF BeginUpload, database
<1>2. CASE ~Unbuildable(t)
  <2>1. /\ phase = "idle" /\ begun' = begun \cup {t}
        /\ cached' = [cached EXCEPT ![t.name] = t]
        /\ up' = t /\ phase' = "mmr" /\ step' = "create"
        /\ UNCHANGED <<db, lost, conn>>
    BY <1>2 DEF BeginUpload, database
  <2>2. ~Writing /\ Writing'
    BY <2>1 DEF Writing, BaseTables
  <2>3. WholeTables' \in {WholeTables, WholeTables \cup {t}}
    <3>1. \A u : Whole(u)' <=> Whole(u)
      BY <2>1, WholeKept
    <3> QED BY <2>1, <3>1 DEF WholeTables
  <2>4. Missed' = FALSE
    <3>1. \A tab : Passed(tab)' = {}
      BY <2>1 DEF Passed, PhasesDone
    <3> QED BY <3>1 DEF Missed
  <2>5. Writer' = t
    BY <2>1, <2>2 DEF Writer
  <2> QED BY <2>1, <2>2, <2>3, <2>4, <2>5, NotWriting DEF Store!Begin
<1> QED BY <1>1, <1>2

(***************************************************************************)
(* One upsert is a write of the store, or none of its business when it     *)
(* goes to the join table.                                                 *)
(***************************************************************************)
LEMMA InsertIsWrite ==
  ASSUME TypeOK, NEW k \in todo, Insert(k)
  PROVE  [Store!Write]_(Store!vars)
<1>1. /\ UNCHANGED <<phase, step, up, cached, begun, conn>>
      /\ step = "insert" /\ conn = "open" /\ todo' = todo \ {k} /\ phase # "idle"
  BY InsertEffect DEF Insert, NextKey
<1>2. PhaseEmm' = PhaseEmm
  BY <1>1, SamePhaseEmm
<1>3. CASE ~Writing
  <2>1. phase = "mmjoin"
    BY <1>1, <1>3 DEF TypeOK, Writing, SqlTables
  <2>2. \A tab \in BaseTables : db'[tab] = db[tab]
    BY <2>1, InsertEffect DEF SqlTables, BaseTables
  <2>3. WholeTables' = WholeTables
    BY <1>1, <2>2, WholeKept DEF WholeTables
  <2>4. ~Writing'
    BY <1>1, <1>3 DEF Writing
  <2>5. UNCHANGED <<Writer, Missed>>
    BY <1>3, <2>4 DEF Writer, Missed
  <2> QED BY <1>1, <2>3, <2>5 DEF Store!vars
<1>4. CASE Writing
  <2>1. Writer = up /\ up \in Tables /\ up # NoTable /\ PhaseEmm = Emm(phase, up)
    BY <1>4, WhileWriting
  <2>2. Writer' = Writer
    BY <1>1 DEF Writer, Writing
  <2>3. phase \in BaseTables /\ k \in DOMAIN Emm(phase, up)
    BY <1>4, <2>1, InsertEffect DEF Writing
  <2>4. ASSUME NEW t \in Tables, t.name # up.name PROVE Whole(t)' <=> Whole(t)
    <3>1. ASSUME NEW tab \in BaseTables, NEW q \in DOMAIN Emm(tab, t)
          PROVE  /\ q \in DOMAIN db'[tab] <=> q \in DOMAIN db[tab]
                 /\ q \in DOMAIN db[tab] => db'[tab][q] = db[tab][q]
      <4>1. tab = phase => q # k
        BY <2>1, <2>3, <2>4, EmmEntries
      <4> QED BY <4>1, InsertEffect DEF SqlTables
    <3> QED BY <3>1 DEF Whole
  <2>5. ASSUME Whole(up) PROVE Whole(up)'
    <3> SUFFICES ASSUME NEW tab \in BaseTables, NEW q \in DOMAIN Emm(tab, up)
                 PROVE  q \in DOMAIN db'[tab] /\ db'[tab][q] = Emm(tab, up)[q]
      BY <1>1 DEF Whole
    <3>1. q \in DOMAIN db[tab] /\ db[tab][q] = Emm(tab, up)[q]
      BY <2>5 DEF Whole
    <3> QED BY <2>1, <3>1, InsertEffect DEF SqlTables
  <2>6. Missed' = Missed
    <3>1. ASSUME NEW tab \in BaseTables, NEW q
          PROVE  q \in Passed(tab)' /\ q \in lost'[tab] <=> q \in Passed(tab) /\ q \in lost[tab]
      <4>1. PhasesDone(up.name)' = PhasesDone(up.name)
        BY <1>1 DEF PhasesDone
      <4>2. phase \notin PhasesDone(up.name)
        BY <1>4, WhileWriting
      <4>3. CASE tab = phase
        <5>1. Passed(tab) = DOMAIN PhaseEmm \ todo
          BY <1>1, <4>2, <4>3 DEF Passed
        <5>2. Passed(tab)' = DOMAIN PhaseEmm \ (todo \ {k})
          BY <1>1, <1>2, <4>1, <4>2, <4>3 DEF Passed
        <5> QED BY <4>3, <5>1, <5>2, InsertEffect
      <4>4. CASE tab # phase
        <5>1. Passed(tab)' = Passed(tab)
          BY <1>1, <4>1, <4>4 DEF Passed
        <5>2. lost'[tab] = lost[tab]
          BY <4>4, InsertEffect DEF SqlTables
        <5> QED BY <5>1, <5>2
      <4> QED BY <4>3, <4>4
    <3>2. Writing' = Writing
      BY <1>1 DEF Writing
    <3> QED BY <3>1, <3>2 DEF Missed
  <2>7. WholeTables' \in SUBSET Tables
    BY <1>1 DEF WholeTables, TypeOK
  <2>8. \A t \in Tables : t.name # Writer.name => (t \in WholeTables' <=> t \in WholeTables)
    BY <1>1, <2>1, <2>4 DEF WholeTables
  <2>9. Writer \in WholeTables => Writer \in WholeTables'
    BY <1>1, <2>1, <2>5 DEF WholeTables
  <2> QED BY <1>1, <2>1, <2>2, <2>6, <2>7, <2>8, <2>9 DEF Store!Write
<1> QED BY <1>3, <1>4

(***************************************************************************)
(* A failed upsert is a miss, except in the join table.                    *)
(***************************************************************************)
LEMMA FailureIsMiss ==
  ASSUME TypeOK, NEW k \in todo, InsertFails(k)
  PROVE  [Store!Miss]_(Store!vars)
<1>1. /\ UNCHANGED <<db, phase, step, up, cached, begun, conn>>
      /\ step = "insert" /\ todo' = todo \ {k} /\ phase # "idle"
      /\ phase \in SqlTables /\ k \in DOMAIN PhaseEmm
      /\ k \in lost'[phase]
  BY DEF InsertFails, NextKey, TypeOK
<1>2. WholeTables' = WholeTables /\ Writer' = Writer /\ Writing' = Writing
  BY <1>1, WholeKept DEF WholeTables, Writer, Writing
<1>3. CASE ~Writing
  BY <1>1, <1>2, <1>3 DEF Missed, Store!vars
<1>4. CASE Writing
  <2>1. PhaseEmm' = PhaseEmm /\ phase \notin PhasesDone(up.name)
    BY <1>1, <1>4, SamePhaseEmm, WhileWriting
  <2>2. PhasesDone(up.name)' = PhasesDone(up.name)
    BY <1>1 DEF PhasesDone
  <2>3. k \in Passed(phase)'
    BY <1>1, <2>1, <2>2 DEF Passed
  <2>4. Missed' = TRUE
    BY <1>1, <1>2, <1>4, <2>3 DEF Missed, Writing
  <2> QED BY <1>1, <1>2, <1>4, <2>4, WhileWriting DEF Store!Miss
<1> QED BY <1>3, <1>4

(***************************************************************************)
(* Where insertEMM returns to, seen from the base tables: the next of      *)
(* them, or the end of the store's upload.                                 *)
(***************************************************************************)
LEMMA ReturnsTo ==
  ASSUME TypeOK, phase # "idle", Return
  PROVE  \/ /\ Writing /\ Writing' /\ up' = up /\ step' = "create"
            /\ PhasesDone(up.name)' = PhasesDone(up.name) \cup {phase}
         \/ Writing /\ ~Writing' /\ PhasesDone(up.name) \cup {phase} = BaseTables
         \/ ~Writing /\ ~Writing'
<1>1. phase \in SqlTables
  BY DEF TypeOK
<1>2. CASE phase = "mmr"
  <2>1. phase' = "mmv" /\ up' = up
    BY <1>2 DEF Return, AfterPhase
  <2> QED BY <1>2, <2>1 DEF Return, Writing, BaseTables, PhasesDone
<1>3. CASE phase = "mmv"
  <2>1. phase' = "mmc" /\ up' = up
    BY <1>3 DEF Return, AfterPhase
  <2> QED BY <1>3, <2>1 DEF Return, Writing, BaseTables, PhasesDone
<1>4. CASE phase = "mmc"
  <2>1. phase' \in {"idle", "mmjoin"}
    BY <1>4 DEF Return, AfterPhase
  <2> QED BY <1>4, <2>1 DEF Writing, BaseTables, PhasesDone
<1>5. CASE phase = "mmjoin"
  <2>1. phase' = "idle"
    BY <1>5 DEF Return, AfterPhase
  <2> QED BY <1>5, <2>1 DEF Writing, BaseTables
<1> QED BY <1>1, <1>2, <1>3, <1>4, <1>5 DEF SqlTables, BaseTables

(***************************************************************************)
(* A phase lost for want of a connection is a miss, and the last one ends  *)
(* the upload of the store.                                                *)
(***************************************************************************)
LEMMA LosePhaseIsMiss ==
  ASSUME TypeOK, phase # "idle", step = "create", LosePhase, conn # "open", conn' # "open"
  PROVE  [Store!Miss \/ Store!GiveUp]_(Store!vars)
<1>1. /\ Return /\ UNCHANGED <<db, cached, begun>>
      /\ \A tab \in SqlTables : lost[tab] \subseteq lost'[tab]
  BY DEF LosePhase, TypeOK
<1>2. WholeTables' = WholeTables /\ UNCHANGED (conn = "open")
  BY <1>1, WholeKept DEF WholeTables
<1>3. CASE /\ Writing /\ Writing' /\ up' = up /\ step' = "create"
           /\ PhasesDone(up.name)' = PhasesDone(up.name) \cup {phase}
  <2>1. Writer # NoTable /\ Writer' = Writer
    BY <1>3, WhileWriting DEF Writer
  <2>2. ASSUME NEW tab PROVE Passed(tab) \subseteq Passed(tab)'
    BY <1>3, PhasesAreBase DEF Passed
  <2>3. Missed => Missed'
    BY <1>1, <1>3, <2>2 DEF Missed, SqlTables
  <2>4. Missed' \in BOOLEAN /\ Missed \in BOOLEAN
    BY DEF Missed
  <2>5. CASE Missed' = TRUE
    BY <1>1, <1>2, <2>1, <2>5 DEF Store!Miss
  <2>6. CASE Missed' = Missed
    BY <1>1, <1>2, <2>1, <2>6 DEF Store!vars
  <2> QED BY <2>3, <2>4, <2>5, <2>6
<1>4. CASE Writing /\ ~Writing'
  <2>1. Writer # NoTable /\ Writer' = NoTable /\ Missed' = FALSE
    BY <1>4, WhileWriting DEF Writer, Missed
  <2> QED BY <1>1, <1>2, <2>1 DEF Store!GiveUp, Store!Stop
<1>5. CASE ~Writing /\ ~Writing'
  <2>1. UNCHANGED <<Writer, Missed>>
    BY <1>5 DEF Writer, Missed
  <2> QED BY <1>1, <1>2, <2>1 DEF Store!vars
<1> QED BY <1>1, <1>3, <1>4, <1>5, ReturnsTo

(***************************************************************************)
(* A phase that is through moves the upload on; the last one ends it, and  *)
(* then Stored and Progress say that the table is whole or missed a write. *)
(***************************************************************************)
LEMMA DoneIsFinish ==
  ASSUME IInv, PhaseDone
  PROVE  [Store!Finish]_(Store!vars)
<1>1. TypeOK /\ Stored /\ Progress
  BY DEF IInv
<1>2. /\ phase # "idle" /\ step = "insert" /\ todo = {} /\ Return
      /\ UNCHANGED <<db, lost, cached, begun, conn>>
  BY DEF PhaseDone, database
<1>3. WholeTables' = WholeTables
  BY <1>2, WholeKept DEF WholeTables
<1>4. ASSUME Writing PROVE Passed(phase) = DOMAIN Emm(phase, up)
  BY <1>1, <1>2, <1>4, WhileWriting DEF Passed
<1>5. CASE /\ Writing /\ Writing' /\ up' = up /\ step' = "create"
           /\ PhasesDone(up.name)' = PhasesDone(up.name) \cup {phase}
  <2>1. ASSUME NEW tab \in BaseTables PROVE Passed(tab)' = Passed(tab)
    BY <1>4, <1>5 DEF Passed
  <2>2. Missed' = Missed
    BY <1>2, <1>5, <2>1 DEF Missed
  <2> QED BY <1>2, <1>3, <1>5, <2>2 DEF Writer, Store!vars
<1>6. CASE Writing /\ ~Writing' /\ PhasesDone(up.name) \cup {phase} = BaseTables
  <2>1. Writer = up /\ up \in begun /\ up # NoTable /\ cached[up.name] = up /\ PhaseEmm = Emm(phase, up)
        /\ up.name \in Names /\ Cached(up.name)
    BY <1>1, <1>6, WhileWriting
  <2>2. ASSUME ~Missed, NEW tab \in BaseTables, NEW k \in DOMAIN Emm(tab, up)
        PROVE  k \in DOMAIN db[tab] /\ db[tab][k] = Emm(tab, up)[k]
    <3>1. k \in Passed(tab)
      BY <1>4, <1>6, <2>2 DEF Passed
    <3>2. k \notin lost[tab]
      BY <1>6, <2>2, <3>1 DEF Missed
    <3>3. CASE tab \in PhasesDone(up.name)
      BY <1>1, <2>1, <2>2, <3>2, <3>3 DEF Stored, StoredIn
    <3>4. CASE tab = phase
      BY <1>1, <1>2, <2>1, <2>2, <3>2, <3>4 DEF Progress, StoredIn
    <3> QED BY <1>6, <3>3, <3>4
  <2>3. Missed \/ Writer \in WholeTables
    BY <2>1, <2>2 DEF WholeTables, Whole
  <2>4. Writer' = NoTable /\ Missed' = FALSE
    BY <1>6 DEF Writer, Missed
  <2> QED BY <1>2, <1>3, <2>1, <2>3, <2>4 DEF Store!Finish, Store!Stop
<1>7. CASE ~Writing /\ ~Writing'
  <2>1. UNCHANGED <<Writer, Missed>>
    BY <1>7 DEF Writer, Missed
  <2> QED BY <1>2, <1>3, <2>1 DEF Store!vars
<1> QED BY <1>1, <1>2, <1>5, <1>6, <1>7, ReturnsTo

(***************************************************************************)
(* Preparing a phase is nothing to the store: no key is passed yet.        *)
(***************************************************************************)
LEMMA CreateIsNothing ==
  ASSUME TypeOK, CreateTable
  PROVE  UNCHANGED Store!vars
<1>1. /\ UNCHANGED <<db, lost, up, phase, conn, cached, begun>>
      /\ step = "create" /\ todo' = DOMAIN PhaseEmm
  BY DEF CreateTable
<1>2. PhaseEmm' = PhaseEmm
  BY <1>1, SamePhaseEmm
<1>3. \A tab : Passed(tab)' = Passed(tab)
  BY <1>1, <1>2 DEF Passed, PhasesDone
<1>4. WholeTables' = WholeTables /\ Writer' = Writer /\ Missed' = Missed
  BY <1>1, <1>3, WholeKept DEF WholeTables, Writer, Writing, Missed
<1> QED BY <1>1, <1>4 DEF Store!vars

(***************************************************************************)
(* Every step of the service is a step of the store or leaves it alone.    *)
(***************************************************************************)
LEMMA StepImplements ==
  ASSUME IInv, [Next]_vars
  PROVE  [Store!Next]_(Store!vars)
<1>1. TypeOK
  BY DEF IInv
<1>2. CASE SetConn
  <2>1. UNCHANGED <<WholeTables, Writer, Missed, cached>> /\ (conn' = "open") = TRUE
    BY <1>2, SameUpload DEF SetConn, database, upload
  <2>2. ~Writing
    BY <1>2 DEF SetConn, Writing, BaseTables
  <2>3. Store!Connect
    BY <2>1, <2>2, NotWriting DEF Store!Connect
  <2> QED BY <2>3 DEF Store!Next
<1>3. CASE LoseConnection
  <2>1. UNCHANGED <<WholeTables, Writer, Missed, cached>> /\ conn = "open" /\ conn' = "bad"
    BY <1>3, SameUpload DEF LoseConnection, database, upload
  <2>2. Store!Disconnect
    BY <2>1 DEF Store!Disconnect
  <2> QED BY <2>2 DEF Store!Next
<1>4. CASE Crash
  BY <1>4, ForgetIsCrash DEF Crash, database, Store!Next
<1>5. ASSUME NEW t \in Tables, NEW a \in Apis, BeginUpload(t, a)
      PROVE  [Store!Next]_(Store!vars)
  BY <1>1, <1>5, BeginIsBegin DEF Store!Next
<1>6. CASE CreateTable
  BY <1>1, <1>6, CreateIsNothing
<1>7. CASE FreeConnection \/ UseDeadPointer
  <2>1. phase # "idle" /\ step = "create" /\ LosePhase /\ conn # "open" /\ conn' # "open"
    BY <1>7 DEF FreeConnection, UseDeadPointer
  <2> QED BY <1>1, <2>1, LosePhaseIsMiss DEF Store!Next
<1>8. CASE \E k \in todo : Insert(k)
  BY <1>1, <1>8, InsertIsWrite DEF Store!Next
<1>9. CASE \E k \in todo : InsertFails(k)
  BY <1>1, <1>9, FailureIsMiss DEF Store!Next
<1>10. CASE PhaseDone
  BY <1>10, DoneIsFinish DEF Store!Next
<1>11. CASE UNCHANGED vars
  BY <1>11, SameUpload DEF vars, database, upload, Store!vars
<1> QED BY <1>2, <1>3, <1>4, <1>5, <1>6, <1>7, <1>8, <1>9, <1>10, <1>11 DEF Next, UploadStep

(***************************************************************************)
(* Storing statement by statement implements the abstract store: an upload *)
(* that ends on a working connection without a rejected statement leaves   *)
(* its table whole, and no upload disturbs tables of another name.         *)
(***************************************************************************)
THEOREM UploadImplementsStore == Spec => ImplementsStore
<1>1. Spec => [][Store!Next]_(Store!vars)
  BY StepImplements, Invariance, PTL DEF Spec
<1> QED BY <1>1, InitStore, PTL DEF Spec, ImplementsStore, Store!Spec

-----------------------------------------------------------------------------
(***************************************************************************)
(* While neither of the two tables is being uploaded the join index is     *)
(* stored, also while another upload rewrites it.                          *)
(***************************************************************************)
JoinedTables == {"student", "courseinfo"}

JoinHolds ==
  LET e == JoinEmm(cached["courseinfo"], cached["student"])
  IN  StoredIn("mmjoin", e, DOMAIN e)

JoinKept == BothCached /\ (phase = "idle" \/ up.name \notin JoinedTables) => JoinHolds

(***************************************************************************)
(* A step that keeps the cache and the store of the join index, and loses  *)
(* no more than it has lost, keeps the join index stored.                  *)
(***************************************************************************)
LEMMA JoinGrows ==
  ASSUME cached' = cached, db' = db, lost["mmjoin"] \subseteq lost'["mmjoin"], JoinHolds
  PROVE  JoinHolds'
BY DEF JoinHolds, StoredIn

(***************************************************************************)
(* An upload that returns with both tables cached has rebuilt the join     *)
(* index last, if it is one by uploadTableIntoSql.                         *)
(***************************************************************************)
LEMMA ReturnsFromJoin ==
  ASSUME TypeOK, Apis \subseteq {"table"}, phase # "idle", Return, BothCached
  PROVE  \/ phase' # "idle" /\ up' = up
         \/ phase = "mmjoin"
<1>1. phase \in SqlTables /\ api = "table"
  BY DEF TypeOK
<1> QED BY <1>1 DEF Return, AfterPhase, SqlTables, BaseTables

(***************************************************************************)
(* Returning keeps the join index if the phase has stored or lost all its  *)
(* entries.                                                                *)
(***************************************************************************)
LEMMA JoinOnReturn ==
  ASSUME TypeOK, Apis \subseteq {"table"}, JoinKept, phase # "idle", Return,
         cached' = cached, db' = db, lost["mmjoin"] \subseteq lost'["mmjoin"],
         \A k \in DOMAIN PhaseEmm :
           k \in lost'[phase] \/ (k \in DOMAIN db[phase] /\ db[phase][k] = PhaseEmm[k])
  PROVE  JoinKept'
<1> SUFFICES ASSUME BothCached, phase' = "idle" \/ up'.name \notin JoinedTables PROVE JoinHolds'
  BY DEF JoinKept, BothCached, Cached
<1>1. CASE phase' # "idle" /\ up' = up
  BY <1>1, JoinGrows DEF JoinKept
<1>2. CASE phase = "mmjoin"
  BY <1>2 DEF JoinHolds, StoredIn, PhaseEmm
<1> QED BY <1>1, <1>2, ReturnsFromJoin

(***************************************************************************)
(* Every step keeps the join index.                                        *)
(***************************************************************************)
LEMMA JoinStep ==
  ASSUME Apis \subseteq {"table"}, TypeOK, Progress, JoinKept, [Next]_vars
  PROVE  JoinKept'
<1>1. "mmjoin" \in SqlTables
  BY DEF SqlTables
<1>2. CASE SetConn \/ LoseConnection \/ CreateTable \/ UNCHANGED vars
  <2>1. UNCHANGED <<db, lost, cached, phase, up>>
    BY <1>2 DEF SetConn, LoseConnection, CreateTable, vars, database, upload
  <2> QED BY <2>1 DEF JoinKept, JoinHolds, StoredIn, BothCached, Cached
<1>3. ASSUME Forget PROVE JoinKept'
  BY <1>3 DEF Forget, JoinKept, BothCached, Cached
<1>4. CASE Crash
  BY <1>3, <1>4 DEF Crash
<1>5. ASSUME NEW t \in Tables, NEW a \in Apis, BeginUpload(t, a) PROVE JoinKept'
  <2>1. CASE Unbuildable(t)
    BY <1>3, <1>5, <2>1 DEF BeginUpload
  <2>2. CASE ~Unbuildable(t)
    <3>1. /\ phase = "idle" /\ phase' = "mmr" /\ up' = t /\ UNCHANGED <<db, lost>>
          /\ cached' = [cached EXCEPT ![t.name] = t]
      BY <1>5, <2>2 DEF BeginUpload, database
    <3> SUFFICES ASSUME BothCached', t.name \notin JoinedTables PROVE JoinHolds'
      BY <3>1 DEF JoinKept
    <3>2. \A n \in JoinedTables : cached'[n] = cached[n]
      BY <3>1 DEF TypeOK, JoinedTables, BothCached, Cached
    <3>3. JoinHolds
      BY <3>1, <3>2 DEF JoinKept, BothCached, Cached, JoinedTables
    <3> QED BY <3>1, <3>2, <3>3 DEF JoinHolds, StoredIn, JoinedTables
  <2> QED BY <2>1, <2>2
<1>6. ASSUME phase # "idle", LosePhase PROVE JoinKept'
  <2>1. Return /\ db' = db /\ cached' = cached
    BY <1>6 DEF LosePhase
  <2>2. DOMAIN PhaseEmm \subseteq lost'[phase] /\ lost["mmjoin"] \subseteq lost'["mmjoin"]
    BY <1>1, <1>6, PhaseEntries DEF LosePhase, TypeOK
  <2> QED BY <1>6, <2>1, <2>2, JoinOnReturn
<1>7. CASE FreeConnection \/ UseDeadPointer
  BY <1>6, <1>7 DEF FreeConnection, UseDeadPointer
<1>8. ASSUME NEW k \in todo, Insert(k) PROVE JoinKept'
  <2>1. phase # "idle" /\ UNCHANGED <<phase, up, cached>>
    BY <1>8 DEF Insert, NextKey
  <2> SUFFICES ASSUME JoinHolds, BothCached PROVE JoinHolds'
    BY <2>1 DEF JoinKept, BothCached, Cached
  <2>2. CASE phase # "mmjoin"
    <3>1. db'["mmjoin"] = db["mmjoin"] /\ lost'["mmjoin"] = lost["mmjoin"]
      BY <1>1, <1>8, <2>2, InsertEffect
    <3> QED BY <2>1, <3>1 DEF JoinHolds, StoredIn
  <2>3. CASE phase = "mmjoin"
    <3>1. PhaseEmm = JoinEmm(cached["courseinfo"], cached["student"])
      BY <2>3 DEF PhaseEmm
    <3>2. \A q \in DOMAIN PhaseEmm :
            q \in lost["mmjoin"] \/ (q \in DOMAIN db["mmjoin"] /\ db["mmjoin"][q] = PhaseEmm[q])
      BY <3>1 DEF JoinHolds, StoredIn
    <3>3. \A q \in DOMAIN PhaseEmm :
            q \in lost'["mmjoin"] \/ (q \in DOMAIN db'["mmjoin"] /\ db'["mmjoin"][q] = PhaseEmm[q])
      BY <1>8, <2>3, <3>2, InsertEffect
    <3> QED BY <2>1, <3>1, <3>3 DEF JoinHolds, StoredIn
  <2> QED BY <2>2, <2>3
<1>9. ASSUME NEW k \in todo, InsertFails(k) PROVE JoinKept'
  <2>1. UNCHANGED <<db, cached, phase, up>> /\ lost["mmjoin"] \subseteq lost'["mmjoin"]
    BY <1>1, <1>9 DEF InsertFails, NextKey, TypeOK
  <2> QED BY <2>1, JoinGrows DEF JoinKept, BothCached, Cached
<1>10. CASE PhaseDone
  <2>1. phase # "idle" /\ step = "insert" /\ todo = {} /\ Return /\ UNCHANGED <<db, lost, cached>>
    BY <1>10 DEF PhaseDone, database
  <2> QED BY <2>1, JoinOnReturn DEF Progress, StoredIn
<1> QED BY <1>2, <1>4, <1>5, <1>7, <1>8, <1>9, <1>10 DEF Next, UploadStep

(***************************************************************************)
(* If tables are uploaded by uploadTableIntoSql, the join index of two     *)
(* cached tables is stored between uploads, but for failed writes, in      *)
(* whichever order and however often the two are uploaded.                 *)
(***************************************************************************)
THEOREM JoinIndexStored ==
  ASSUME Apis \subseteq {"table"}
  PROVE  Spec => []JoinStored
<1>1. Init => JoinKept
  BY DEF Init, JoinKept, BothCached, Cached
<1>2. IInv /\ JoinKept /\ [Next]_vars => JoinKept'
  BY JoinStep DEF IInv
<1>3. JoinKept => JoinStored
  BY DEF JoinKept, JoinHolds, JoinStored
<1> QED BY <1>1, <1>2, <1>3, Invariance, PTL DEF Spec

-----------------------------------------------------------------------------
(***************************************************************************)
(* A set that has grown is numbered at least as far.                       *)
(***************************************************************************)
LEMMA AscendingGrows ==
  ASSUME NEW T \in SUBSET Nat, IsFiniteSet(T), NEW S \in SUBSET T
  PROVE  DOMAIN Ascending(S) \subseteq DOMAIN Ascending(T)
<1>1. IsFiniteSet(S) /\ S \in SUBSET Nat
  BY FS_Subset
<1> SUFFICES ASSUME NEW s \in S PROVE \E p \in T : Rank(T, p) = Rank(S, s)
  BY DEF Ascending
<1>2. s \in T /\ s \in Nat
  OBVIOUS
<1>3. Rank(S, s) \in Nat /\ Rank(T, s) \in Nat
  BY <1>1, <1>2, RankType
<1>4. Rank(S, s) <= Rank(T, s)
  <2>1. IsFiniteSet({q \in T : q < s}) /\ {q \in S : q < s} \subseteq {q \in T : q < s}
    BY FS_Subset
  <2> QED BY <2>1, FS_Subset DEF Rank
<1>5. CASE Rank(S, s) = Rank(T, s)
  BY <1>2, <1>5
<1>6. CASE Rank(S, s) < Rank(T, s)
  BY <1>2, <1>3, <1>6, RanksHaveNoGap
<1> QED BY <1>3, <1>4, <1>5, <1>6

(***************************************************************************)
(* A version that a table extends has no entry the table has not.          *)
(***************************************************************************)
LEMMA EntriesGrow ==
  ASSUME NEW t \in Tables, NEW u \in Tables, u.name = t.name, Extends(t, u), NEW tab \in BaseTables
  PROVE  DOMAIN Emm(tab, u) \subseteq DOMAIN Emm(tab, t)
<1> DEFINE mt == MultiMapOf(tab, t)
           mu == MultiMapOf(tab, u)
<1>1. IsTable(t) /\ IsTable(u)
  BY TablesAssumption
<1>2. /\ u.types = t.types /\ Cols(u) = Cols(t) /\ Rows(u) \subseteq Rows(t)
      /\ \A r \in Rows(u) : u.rows[r] = t.rows[r]
  BY DEF Extends, Cols
<1>3. \A c : Encrypted(u, c) <=> Encrypted(t, c)
  BY <1>2 DEF Encrypted
<1>4. \A idx \in DOMAIN mu : idx \in DOMAIN mt /\ DOMAIN mu[idx] \subseteq DOMAIN mt[idx]
  <2>1. CASE tab = "mmr"
    <3>1. mt = RowMM(t) /\ mu = RowMM(u)
      BY <2>1 DEF MultiMapOf
    <3>2. \A r : DOMAIN RowVector(u, r) = DOMAIN RowVector(t, r)
      BY <1>2, <1>3 DEF RowVector
    <3> QED BY <1>2, <3>1, <3>2 DEF RowMM
  <2>2. CASE tab = "mmc"
    <3>1. mt = ColMM(t) /\ mu = ColMM(u)
      BY <2>2 DEF MultiMapOf
    <3>2. \A c : DOMAIN ColVector(u, c) \subseteq DOMAIN ColVector(t, c)
      BY <1>2, <1>3 DEF ColVector
    <3> QED BY <1>2, <3>1, <3>2 DEF ColMM
  <2>3. CASE tab = "mmv"
    <3>1. mt = ValueMM(t) /\ mu = ValueMM(u)
      BY <2>3 DEF MultiMapOf
    <3>2. ASSUME NEW c, NEW x
          PROVE  DOMAIN Postings(u.name, RowsWith(u, c, x)) \subseteq DOMAIN Postings(t.name, RowsWith(t, c, x))
      <4>1. RowsWith(u, c, x) \subseteq RowsWith(t, c, x) /\ RowsWith(t, c, x) \subseteq Rows(t)
        BY <1>2 DEF RowsWith
      <4>2. RowsWith(t, c, x) \in SUBSET Nat /\ IsFiniteSet(RowsWith(t, c, x))
        BY <1>1, <4>1, TableDomains, FS_Subset
      <4> QED BY <4>1, <4>2, AscendingGrows DEF Postings
    <3>3. ASSUME NEW idx \in DOMAIN mu PROVE idx \in DOMAIN mt /\ DOMAIN mu[idx] \subseteq DOMAIN mt[idx]
      <4>1. PICK c \in Cols(u), r \in Rows(u) : idx = <<u.name, c, u.rows[r][c]>>
        BY <3>1 DEF ValueMM
      <4>2. idx = <<t.name, c, t.rows[r][c]>> /\ c \in Cols(t) /\ r \in Rows(t)
        BY <1>2, <4>1
      <4>3. idx \in DOMAIN mt
        BY <3>1, <4>2 DEF ValueMM
      <4>4. /\ mu[idx] = Postings(u.name, RowsWith(u, idx[2], idx[3]))
            /\ mt[idx] = Postings(t.name, RowsWith(t, idx[2], idx[3]))
        BY <3>1, <3>3, <4>3 DEF ValueMM
      <4> QED BY <3>2, <4>3, <4>4
    <3> QED BY <3>3
  <2> QED BY <2>1, <2>2, <2>3 DEF BaseTables
<1>5. Emm(tab, u) = Setup(mu) /\ Emm(tab, t) = Setup(mt)
  BY DEF Emm
<1> HIDE DEF mt, mu
<1>6. ASSUME NEW k \in DOMAIN Setup(mu) PROVE k \in DOMAIN Setup(mt)
  <2>1. k = <<k[1], k[2]>> /\ k[1] \in DOMAIN mt /\ k[2] \in DOMAIN mt[k[1]]
    BY <1>4, <1>6, SetupEntry
  <2> QED BY <2>1 DEF Setup
<1> QED BY <1>5, <1>6

(***************************************************************************)
(* Walking an index depends on the entries of that index only.             *)
(***************************************************************************)
LEMMA WalkLocal ==
  ASSUME NEW s1, NEW s2, NEW idx,
         \A k \in DOMAIN s1 : k = <<k[1], k[2]>>,
         \A k \in DOMAIN s2 : k = <<k[1], k[2]>>,
         \A i : <<idx, i>> \in DOMAIN s1 <=> <<idx, i>> \in DOMAIN s2,
         \A i : <<idx, i>> \in DOMAIN s1 => s1[<<idx, i>>] = s2[<<idx, i>>]
  PROVE  Walk(s1, idx) = Walk(s2, idx)
<1> DEFINE Reached(s) == {q \in DOMAIN s : q[1] = idx /\ \A j \in 0 .. q[2] : <<idx, j>> \in DOMAIN s}
           Counters(s) == {k[2] : k \in Reached(s)}
<1>1. Walk(s1, idx) = [i \in Counters(s1) |-> s1[<<idx, i>>]]
  BY DEF Walk
<1>2. Walk(s2, idx) = [i \in Counters(s2) |-> s2[<<idx, i>>]]
  BY DEF Walk
<1>3. Reached(s1) = Reached(s2)
  <2>1. \A q : q \in Reached(s1) => q \in Reached(s2)
    OBVIOUS
  <2>2. \A q : q \in Reached(s2) => q \in Reached(s1)
    OBVIOUS
  <2> QED BY <2>1, <2>2
<1>4. \A i \in Counters(s1) : <<idx, i>> \in DOMAIN s1
  OBVIOUS
<1> HIDE DEF Reached
<1>5. Counters(s1) = Counters(s2)
  BY <1>3
<1> HIDE DEF Counters
<1> QED BY <1>1, <1>2, <1>4, <1>5

(***************************************************************************)
(* The indexes of a table carry its name.                                  *)
(***************************************************************************)
LEMMA IndexNames ==
  ASSUME NEW n, NEW idx \in Indexes(n)
  PROVE  idx[1] = n
BY DEF Indexes, RowMM, ValueMM, ColMM

(***************************************************************************)
(* Walking an index of the entries of one table gives its vector, and      *)
(* nothing for an index the table does not have.                           *)
(***************************************************************************)
LEMMA EntriesReadBack ==
  ASSUME NEW t \in Tables, NEW tab \in BaseTables, NEW idx
  PROVE  Walk(Emm(tab, t), idx) =
           IF idx \in DOMAIN MultiMapOf(tab, t) THEN MultiMapOf(tab, t)[idx] ELSE NoStore
<1> DEFINE mm == MultiMapOf(tab, t)
<1>1. IsTable(t) /\ mm \in {RowMM(t), ValueMM(t), ColMM(t)} /\ Emm(tab, t) = Setup(mm)
  BY TablesAssumption DEF MultiMapOf, Emm, BaseTables
<1> HIDE DEF mm
<1>2. CASE idx \in DOMAIN mm
  BY <1>1, <1>2, TableReadsBack DEF mm
<1>3. CASE idx \notin DOMAIN mm
  <2>1. \A k \in DOMAIN Setup(mm) : k[1] # idx
    BY <1>3, SetupEntry
  <2>2. Walk(Setup(mm), idx) = NoStore
    BY <2>1 DEF Walk, NoStore
  <2> QED BY <1>1, <1>3, <2>2 DEF mm
<1> QED BY <1>2, <1>3

(***************************************************************************)
(* Between uploads, if no write of a table was lost and every version of   *)
(* it that was ever begun is a beginning of the cached one, walking any of *)
(* its indexes in the database gives the vector of the cached version.     *)
(***************************************************************************)
LEMMA GrownReadsBack == IInv => ExactWhenGrowing
<1> SUFFICES ASSUME IInv, phase = "idle", NEW n \in Names, Cached(n), NothingLost(n),
                    \A u \in begun : u.name = n => Extends(cached[n], u),
                    NEW tab \in BaseTables, NEW idx \in Indexes(n)
             PROVE  ReadsBack(tab, cached[n], idx)
  BY DEF ExactWhenGrowing, AllReadBack
<1> DEFINE t == cached[n]
<1>1. t \in Tables /\ t.name = n /\ begun \subseteq Tables /\ tab \in SqlTables /\ tab # "mmjoin"
  BY DEF IInv, TypeOK, Cached, SqlTables, BaseTables
<1>2. \A k \in DOMAIN Emm(tab, t) : k = <<k[1], k[2]>> /\ k[1][1] = n
  BY <1>1, EmmEntries
<1>3. \A k \in DOMAIN Emm(tab, t) : k \in DOMAIN db[tab] /\ db[tab][k] = Emm(tab, t)[k]
  <2>1. StoredIn(tab, Emm(tab, t), DOMAIN Emm(tab, t))
    BY DEF IInv, Stored, PhasesDone
  <2> QED BY <1>2, <2>1 DEF StoredIn, NothingLost
<1>4. ASSUME NEW k \in DOMAIN db[tab]
      PROVE  k = <<k[1], k[2]>> /\ (k[1][1] = n => k \in DOMAIN Emm(tab, t))
  <2>1. PICK u \in begun : k \in DOMAIN Emm(tab, u)
    BY <1>1, <1>4 DEF IInv, Provenance, EmmsOf
  <2>2. k = <<k[1], k[2]>> /\ k[1][1] = u.name
    BY <1>1, <2>1, EmmEntries
  <2> QED BY <1>1, <2>1, <2>2, EntriesGrow
<1> HIDE DEF t
<1>5. idx[1] = n
  BY IndexNames
<1>6. \A i : <<idx, i>> \in DOMAIN db[tab] <=> <<idx, i>> \in DOMAIN Emm(tab, t)
  BY <1>3, <1>4, <1>5
<1>7. Walk(db[tab], idx) = Walk(Emm(tab, t), idx)
  BY <1>2, <1>3, <1>4, <1>6, WalkLocal
<1> QED BY <1>1, <1>7, EntriesReadBack DEF ReadsBack, t

(***************************************************************************)
(* The server reads back exactly the cached version of a table that has    *)
(* only grown, through all crashes, lost connections, rejected statements  *)
(* and uploads of other tables in between.                                 *)
(***************************************************************************)
THEOREM GrownTablesExact == Spec => []ExactWhenGrowing
BY GrownReadsBack, Invariance, PTL
=============================================================================
