--------------------------- MODULE UploadService ---------------------------
(***************************************************************************)
(* EncryptService and the part of DataMapper that stores an encrypted      *)
(* table in PostgreSQL, with the failures the code meets: the server       *)
(* rejects an INSERT, the connection is lost, the process dies and is      *)
(* started again.                                                          *)
(*                                                                         *)
(* An upload is a sequence of autocommitted statements on one connection:  *)
(* for each of the SQL tables mmr, mmv, mmc (and the join table) one       *)
(* CREATE TABLE IF NOT EXISTS, one look at the connection status, and one  *)
(* upsert per entry.  Nothing is ever deleted, and no error reaches the    *)
(* caller.  The code takes the indexes of a multi-map in the order of      *)
(* their strings and the counters of one index in ascending order; the     *)
(* model keeps the second and leaves the first unspecified (a CHOOSE).     *)
(***************************************************************************)
EXTENDS MultiMaps

CONSTANTS
  Tables,      \* the tables clients upload; versions of one table share a name
  NoTable,
  Apis,        \* the upload operations in use, of "file" and "table"
  MaxFaults    \* bounds the crashes, lost connections and rejected statements

ASSUME TablesAssumption ==
  /\ NoTable \notin Tables
  /\ \A t \in Tables : IsTable(t)
  /\ \A t \in Tables : t.name = "student" => 2 \in Cols(t)
  /\ \A t \in Tables : t.name = "courseinfo" => 0 \in Cols(t)
ASSUME ApisAssumption == Apis \subseteq {"file", "table"} /\ MaxFaults \in Nat

VARIABLES
  db,      \* SQL table -> its rows, enc_key -> enc_value
  made,    \* the SQL tables that exist
  conn,    \* EncryptService::conn: what the pointer points to
  cached,  \* currentTable and tableMap, which are always written together
  up,      \* the table being uploaded
  api,     \* the operation uploading it
  phase,   \* the SQL table insertEMM works on, or "idle"
  step,    \* "create" before, "insert" in the loop of insertEMM
  todo,    \* the keys the loop has still to insert
  begun,   \* history: the tables whose storing was ever begun
  lost,    \* history: SQL table -> keys whose latest write did not happen
  faults   \* counts the faults, for the bound

database == <<db, made, lost>>
upload   == <<up, api, phase, step, todo>>
vars     == <<database, upload, conn, cached, begun, faults>>

BaseTables == {"mmr", "mmv", "mmc"}
SqlTables  == BaseTables \cup {"mmjoin"}
Names      == {t.name : t \in Tables}

(***************************************************************************)
(* generateEmmIntoSql and generateJoinEmmIntoSql: the multi-map stored in  *)
(* each SQL table.  The join is hard-coded: courseinfo column 0 with       *)
(* student column 2.                                                       *)
(***************************************************************************)
MultiMapOf(tab, t) ==
  CASE tab = "mmr" -> RowMM(t) [] tab = "mmv" -> ValueMM(t) [] tab = "mmc" -> ColMM(t)

Emm(tab, t) == Setup(MultiMapOf(tab, t))

JoinEmm(course, stud) == Setup(JoinMM(course, stud, 0, 2))

Cached(n) == n \in Names /\ cached[n] # NoTable
BothCached == Cached("student") /\ Cached("courseinfo")

PhaseEmm ==
  IF phase = "mmjoin" THEN JoinEmm(cached["courseinfo"], cached["student"]) ELSE Emm(phase, up)

NoStore == [k \in {} |-> k]

Init ==
  /\ db = [tab \in SqlTables |-> NoStore]
  /\ made = {}
  /\ lost = [tab \in SqlTables |-> {}]
  /\ conn = "unset"
  /\ cached = [n \in Names |-> NoTable]
  /\ up = NoTable /\ api = "none" /\ phase = "idle" /\ step = "create" /\ todo = {}
  /\ begun = {}
  /\ faults = 0

(***************************************************************************)
(* A fault of the environment that the model allows for at the moment.     *)
(***************************************************************************)
Fault == faults < MaxFaults /\ faults' = faults + 1

(***************************************************************************)
(* A CONNECTION_REQUEST: setConn replaces the pointer, whatever it was.    *)
(***************************************************************************)
SetConn ==
  /\ phase = "idle"
  /\ conn' = "open"
  /\ UNCHANGED <<database, upload, cached, begun, faults>>

(***************************************************************************)
(* The server drops the session; libpq will report it as CONNECTION_BAD.   *)
(***************************************************************************)
LoseConnection ==
  /\ conn = "open"
  /\ conn' = "bad"
  /\ Fault
  /\ UNCHANGED <<database, upload, cached, begun>>

(***************************************************************************)
(* The process dies: everything but the database is forgotten, and the     *)
(* pointer of the next process is uninitialised.                           *)
(***************************************************************************)
Forget ==
  /\ conn' = "unset"
  /\ cached' = [n \in Names |-> NoTable]
  /\ up' = NoTable /\ api' = "none" /\ phase' = "idle" /\ step' = "create" /\ todo' = {}

Crash == Forget /\ Fault /\ UNCHANGED <<database, begun>>

\* The bug of storing the postings before the rows they name.
BeginUploadPostingsFirst(t, a) ==
  /\ phase = "idle" /\ ~Unbuildable(t)
  /\ begun' = begun \cup {t}
  /\ cached' = [cached EXCEPT ![t.name] = t]
  /\ up' = t /\ api' = a /\ phase' = "mmv" /\ step' = "create" /\ todo' = {}
  /\ UNCHANGED <<conn, database, faults>>

(***************************************************************************)
(* uploadFileIntoSql (a = "file") and uploadTableIntoSql (a = "table"):    *)
(* the metadata is replaced before the multi-maps are built and stored.    *)
(***************************************************************************)
BeginUpload(t, a) ==
  /\ phase = "idle"
  /\ \/ /\ ~Unbuildable(t)
        /\ begun' = begun \cup {t}
        /\ cached' = [cached EXCEPT ![t.name] = t]
        /\ up' = t /\ api' = a /\ phase' = "mmr" /\ step' = "create" /\ todo' = {}
        /\ UNCHANGED conn
     \/ Unbuildable(t) /\ Forget /\ UNCHANGED begun
  /\ UNCHANGED <<database, faults>>

\* The bugs of forgetting mmv, of building the join without a look at the
\* cached tables, and of building it for one of the two tables only.
AfterPhaseSkipping ==
  CASE phase = "mmr" -> "mmc"
    [] phase = "mmc" -> IF api = "table" /\ BothCached THEN "mmjoin" ELSE "idle"
    [] OTHER -> "idle"
AfterPhaseUnchecked ==
  CASE phase = "mmr" -> "mmv"
    [] phase = "mmv" -> "mmc"
    [] phase = "mmc" -> IF api = "table" THEN "mmjoin" ELSE "idle"
    [] phase = "mmjoin" -> "idle"
AfterPhaseOneSided ==
  CASE phase = "mmr" -> "mmv"
    [] phase = "mmv" -> "mmc"
    [] phase = "mmc" -> IF BothCached /\ up.name = "student" THEN "mmjoin" ELSE "idle"
    [] phase = "mmjoin" -> "idle"

(***************************************************************************)
(* Where insertEMM returns to: the next insertEMM of generateEmmIntoSql,   *)
(* the join table if uploadTableIntoSql finds both tables cached, or the   *)
(* caller.                                                                 *)
(***************************************************************************)
AfterPhase ==
  CASE phase = "mmr" -> "mmv"
    [] phase = "mmv" -> "mmc"
    [] phase = "mmc" -> IF api = "table" /\ BothCached THEN "mmjoin" ELSE "idle"
    [] phase = "mmjoin" -> "idle"

Return ==
  /\ phase' = AfterPhase /\ step' = "create" /\ todo' = {}
  /\ up' = IF AfterPhase = "idle" THEN NoTable ELSE up
  /\ api' = IF AfterPhase = "idle" THEN "none" ELSE api

\* The bug of dropping the table of an earlier upload before creating it.
CreateTableAnew ==
  /\ phase # "idle" /\ step = "create" /\ conn = "open"
  /\ made' = made \cup {phase}
  /\ db' = [db EXCEPT ![phase] = NoStore]
  /\ step' = "insert" /\ todo' = DOMAIN PhaseEmm
  /\ UNCHANGED <<lost, up, api, phase, conn, cached, begun, faults>>

(***************************************************************************)
(* createTableIfNotExsit and the status check of insertEMM.  The result of *)
(* the CREATE is not looked at, so it may have failed.                     *)
(***************************************************************************)
CreateTable ==
  /\ phase # "idle" /\ step = "create" /\ conn = "open"
  /\ \/ made' = made \cup {phase} /\ UNCHANGED faults
     \/ phase \notin made /\ UNCHANGED made /\ Fault
  /\ step' = "insert" /\ todo' = DOMAIN PhaseEmm
  /\ UNCHANGED <<db, lost, up, api, phase, conn, cached, begun>>

LosePhase ==
  /\ lost' = [lost EXCEPT ![phase] = @ \cup DOMAIN PhaseEmm]
  /\ Return
  /\ UNCHANGED <<db, made, cached, begun, faults>>

\* The bug of waiting for the connection to come back.
FreeConnectionWaiting ==
  phase # "idle" /\ step = "create" /\ conn = "bad" /\ UNCHANGED vars

(***************************************************************************)
(* The status is bad: insertEMM frees the connection and returns, the      *)
(* pointer to the freed memory stays in EncryptService::conn.              *)
(***************************************************************************)
FreeConnection ==
  /\ phase # "idle" /\ step = "create" /\ conn = "bad"
  /\ conn' = "freed"
  /\ LosePhase

(***************************************************************************)
(* libpq is called with a freed or uninitialised pointer.  The behaviour   *)
(* is undefined: the process dies (see Crash) or the calls fail and the    *)
(* phase stores nothing.                                                   *)
(***************************************************************************)
UseDeadPointer ==
  /\ phase # "idle" /\ step = "create" /\ conn \in {"freed", "unset"}
  /\ LosePhase
  /\ UNCHANGED conn

(***************************************************************************)
(* One turn of the loop of insertEMM: the next counter of the index in     *)
(* hand.                                                                   *)
(***************************************************************************)
IndexInHand == CHOOSE idx \in {k[1] : k \in todo} : TRUE

\* The bug of storing the values of an index in any order.
NextKeyUnordered(k) ==
  /\ phase # "idle" /\ step = "insert" /\ k \in todo
  /\ todo' = todo \ {k}
  /\ UNCHANGED <<made, up, api, phase, step, conn, cached, begun>>

NextKey(k) ==
  /\ phase # "idle" /\ step = "insert"
  /\ k \in todo /\ k[1] = IndexInHand
  /\ \A q \in todo : q[1] = k[1] => k[2] <= q[2]
  /\ todo' = todo \ {k}
  /\ UNCHANGED <<made, up, api, phase, step, conn, cached, begun>>

Upsert(store, k, value) ==
  [q \in DOMAIN store \cup {k} |-> IF q = k THEN value ELSE store[q]]

Insert(k) ==
  /\ NextKey(k)
  /\ conn = "open" /\ phase \in made
  /\ db' = [db EXCEPT ![phase] = Upsert(@, k, PhaseEmm[k])]
  /\ lost' = [lost EXCEPT ![phase] = @ \ {k}]
  /\ UNCHANGED faults

(***************************************************************************)
(* The INSERT fails: insertIntoSql logs it and the loop goes on.           *)
(***************************************************************************)
InsertFails(k) ==
  /\ NextKey(k)
  /\ \/ (conn = "bad" \/ phase \notin made) /\ UNCHANGED faults
     \/ conn = "open" /\ phase \in made /\ Fault
  /\ lost' = [lost EXCEPT ![phase] = @ \cup {k}]
  /\ UNCHANGED db

PhaseDone ==
  /\ phase # "idle" /\ step = "insert" /\ todo = {}
  /\ Return
  /\ UNCHANGED <<database, conn, cached, begun, faults>>

UploadStep ==
  \/ CreateTable
  \/ FreeConnection
  \/ UseDeadPointer
  \/ \E k \in todo : Insert(k) \/ InsertFails(k)
  \/ PhaseDone

Next ==
  \/ SetConn
  \/ LoseConnection
  \/ Crash
  \/ \E t \in Tables, a \in Apis : BeginUpload(t, a)
  \/ UploadStep

Spec == Init /\ [][Next]_vars

(***************************************************************************)
(* An upload is one call that runs to its end; nothing else is fair.       *)
(***************************************************************************)
FairSpec == Spec /\ WF_vars(UploadStep)
-----------------------------------------------------------------------------
(***************************************************************************)
(* Every variable has the type the code gives it, the keys of a store are  *)
(* entries of some table uploaded so far, and an upload in progress is of  *)
(* the version of the table the service has cached.                        *)
(***************************************************************************)
EmmsOf(tab, T) ==
  IF tab = "mmjoin"
  THEN {JoinEmm(c, s) : c \in {t \in T : t.name = "courseinfo"}, s \in {t \in T : t.name = "student"}}
  ELSE {Emm(tab, t) : t \in T}

TypeOK ==
  /\ DOMAIN db = SqlTables /\ DOMAIN lost = SqlTables
  /\ made \subseteq SqlTables
  /\ conn \in {"unset", "open", "bad", "freed"}
  /\ cached \in [Names -> begun \cup {NoTable}]
  /\ \A n \in Names : Cached(n) => cached[n].name = n
  /\ begun \subseteq Tables /\ faults \in Nat
  /\ step \in {"create", "insert"}
  /\ \/ phase = "idle" /\ up = NoTable /\ api = "none" /\ step = "create"
     \/ /\ phase \in SqlTables /\ up \in begun /\ api \in Apis
        /\ cached[up.name] = up
        /\ phase = "mmjoin" => BothCached /\ api = "table"
  /\ todo \subseteq IF phase = "idle" \/ step = "create" THEN {} ELSE DOMAIN PhaseEmm

(***************************************************************************)
(* A part of the inductive invariant below: every entry in the database is *)
(* the entry of some table whose upload began.                             *)
(***************************************************************************)
Provenance ==
  \A tab \in SqlTables : \A k \in DOMAIN db[tab] :
    \E e \in EmmsOf(tab, begun) : k \in DOMAIN e /\ db[tab][k] = e[k]

(***************************************************************************)
(* The counters stored for an index have no gap below them except where a  *)
(* write failed, through every crash, retry and re-upload: the server's    *)
(* loops stop at the first missing counter, so a gap hides what follows.   *)
(***************************************************************************)
Present(tab) == DOMAIN db[tab] \cup lost[tab]

Contiguous ==
  \A tab \in SqlTables : \A k \in DOMAIN db[tab] :
    \A i \in 0 .. (k[2] - 1) : <<k[1], i>> \in Present(tab)

(***************************************************************************)
(* Whatever a posting of mmv or of the join table names is there to be     *)
(* projected: the cells of that row, for a version of the table, are in    *)
(* mmr or were lost by a failed write.  This is what writing mmr first     *)
(* buys: a crash never leaves a posting without its row.                   *)
(***************************************************************************)
RowPresent(ref) ==
  \E t \in begun : ref \in DOMAIN RowMM(t) /\
    \A i \in DOMAIN RowMM(t)[ref] : <<ref, i>> \in Present("mmr")

PostingsResolve ==
  \A tab \in {"mmv", "mmjoin"} : \A k \in DOMAIN db[tab] : RowPresent(db[tab][k])

(***************************************************************************)
(* A table the service believes it has uploaded is in the database, entry  *)
(* by entry and with the values of its latest version, except for the      *)
(* entries whose write failed; uploads of other tables, crashes in between *)
(* and older versions do not disturb it.                                   *)
(***************************************************************************)
StoredIn(tab, e, K) ==
  \A k \in K : k \in lost[tab] \/ (k \in DOMAIN db[tab] /\ db[tab][k] = e[k])

PhasesDone(n) ==
  IF phase = "idle" \/ up.name # n THEN BaseTables
  ELSE CASE phase = "mmr" -> {}
         [] phase = "mmv" -> {"mmr"}
         [] phase = "mmc" -> {"mmr", "mmv"}
         [] phase = "mmjoin" -> BaseTables

Stored ==
  \A n \in Names : Cached(n) =>
    \A tab \in PhasesDone(n) : LET e == Emm(tab, cached[n]) IN StoredIn(tab, e, DOMAIN e)

(***************************************************************************)
(* In the loop of insertEMM every key it has passed is stored or lost.     *)
(* With it the invariants above are inductive.                             *)
(***************************************************************************)
Progress ==
  step = "insert" => StoredIn(phase, PhaseEmm, DOMAIN PhaseEmm \ todo)

IInv ==
  /\ TypeOK
  /\ Provenance
  /\ Contiguous
  /\ PostingsResolve
  /\ Stored
  /\ Progress

(***************************************************************************)
(* Between uploads the join index of two cached tables is that of their    *)
(* cached versions, except for failed writes.                              *)
(***************************************************************************)
JoinStored ==
  phase = "idle" /\ BothCached =>
    LET e == JoinEmm(cached["courseinfo"], cached["student"])
    IN  StoredIn("mmjoin", e, DOMAIN e)

(***************************************************************************)
(* Between uploads the server reads back exactly the cached table: walking *)
(* any index of the table gives the vector the multi-map has there, and    *)
(* nothing where it has none.  It needs every write to have happened and   *)
(* every version uploaded before to be a prefix of the cached one: entries *)
(* of rows that a later version dropped or changed are never deleted.      *)
(***************************************************************************)
Extends(t, u) ==
  /\ u.types = t.types
  /\ Rows(u) \subseteq Rows(t)
  /\ \A r \in Rows(u) : u.rows[r] = t.rows[r]

Indexes(n) ==
  UNION {DOMAIN RowMM(t) \cup DOMAIN ValueMM(t) \cup DOMAIN ColMM(t) : t \in {t \in Tables : t.name = n}}

ReadsBack(tab, t, idx) ==
  LET mm == MultiMapOf(tab, t)
  IN  Walk(db[tab], idx) = IF idx \in DOMAIN mm THEN mm[idx] ELSE NoStore

AllReadBack(n) ==
  \A tab \in BaseTables, idx \in Indexes(n) : ReadsBack(tab, cached[n], idx)

NothingLost(n) == \A tab \in BaseTables : \A k \in lost[tab] : k[1][1] # n

ExactWhenGrowing ==
  phase = "idle" => \A n \in Names :
    /\ Cached(n) /\ NothingLost(n)
    /\ \A u \in begun : u.name = n => Extends(cached[n], u)
    => AllReadBack(n)

(***************************************************************************)
(* executeSql returns the result of the statement (EncryptService.h:54):   *)
(* the same without the condition on the earlier versions.                 *)
(***************************************************************************)
ExactAfterUpload ==
  phase = "idle" => \A n \in Names : Cached(n) /\ NothingLost(n) => AllReadBack(n)

(***************************************************************************)
(* No step removes an entry, and only the upload of a table changes what   *)
(* is stored under its name.                                               *)
(***************************************************************************)
TouchesOwnEntries ==
  \A tab \in SqlTables :
    /\ DOMAIN db[tab] \subseteq DOMAIN db'[tab]
    /\ \A k \in DOMAIN db'[tab] :
         \/ k \in DOMAIN db[tab] /\ db'[tab][k] = db[tab][k]
         \/ tab = phase /\ tab # "mmjoin" /\ k[1][1] = up.name
         \/ tab = phase /\ tab = "mmjoin" /\ api = "table"

OnlyOwnEntries == [][TouchesOwnEntries]_vars

(***************************************************************************)
(* Every upload returns to its caller, whatever fails on the way.          *)
(***************************************************************************)
UploadReturns == phase # "idle" ~> phase = "idle"

(***************************************************************************)
(* The abstract store this module implements: a table is whole when each   *)
(* of its entries is in the database with its value, whoever wrote it; the *)
(* join table is not part of any.                                          *)
(***************************************************************************)
Whole(t) ==
  \A tab \in BaseTables : LET e == Emm(tab, t) IN
    \A k \in DOMAIN e : k \in DOMAIN db[tab] /\ db[tab][k] = e[k]

WholeTables == {t \in begun : Whole(t)}

Writing == phase \in BaseTables
Writer  == IF Writing THEN up ELSE NoTable

\* The keys insertEMM has passed in this upload.
Passed(tab) ==
  IF tab \in PhasesDone(up.name) THEN DOMAIN Emm(tab, up)
  ELSE IF tab = phase /\ step = "insert" THEN DOMAIN PhaseEmm \ todo
  ELSE {}

Missed == Writing /\ \E tab \in BaseTables : \E k \in Passed(tab) : k \in lost[tab]

Store == INSTANCE TableStore
  WITH whole <- WholeTables, current <- cached, writer <- Writer,
       missed <- Missed, online <- (conn = "open")

(***************************************************************************)
(* Storing statement by statement, with the failures of each, implements   *)
(* the abstract store: between uploads, on a connection that works and     *)
(* without rejected statements, the current tables are whole, and an       *)
(* upload disturbs no table but its own earlier versions.                  *)
(***************************************************************************)
ImplementsStore == Store!Spec
=============================================================================
