# EncryptSqlClient in TLA+

The repository is the client of a searchable encrypted database: it turns the
tables of a `.csv` file into encrypted multi-maps, stores them in PostgreSQL,
plans a small SQL dialect into calls of server-side functions that walk the
stored entries by token, and decrypts what comes back. A socket server offers
uploads and queries to other programs. This directory models that program,
model-checks it with TLC and proves its main invariants with TLAPS.

## 1. Inventory

| Component | State | Operations | Works with |
|---|---|---|---|
| `EncryptService` (`src/src/EncryptService.cpp`) | `conn`, `currentTable`, `tableMap`, `currentPlan` | `setConn`, `uploadFileIntoSql`, `uploadTableIntoSql`, `checkAndCreateJoinMM`, `executeSql`, `decryptedResult` | calls `DataMapper`, the planner and the executor |
| `DataMapper` (`DataMapper.cpp`) | keys only | `fileReader`, four `*MultiMapConstruct`, `generateEmmIntoSql`, `generateJoinEmmIntoSql`, `insertEMM`, `insertIntoSql` | PostgreSQL, over the service's `conn` |
| `EncryptManager`, `RowMultiMap`, `EncryptedMultiMap` | a map being built | `setup`, `add`, `insert`, the PRF | called by `DataMapper` and the planner |
| planner (`paser/paser.cpp`) | none | `parseSql` | reads `tableMap` |
| `SqlPlanExecutor`, `TokenGenerator` | `plans`, `results`; temporary tables in the database | `execute`, `executeQuery`, `executeByteaResultQuery`, `deleteTmp` | PostgreSQL; the tables are shared with every other process |
| `SocketServer` (`msgSocket.cpp`, `myMsg`) and `testSocket` (`main.cpp`) | the listening socket, a message socket, a data socket | accept, `recvMsg`, `recvFile`, `sendMsg`, `sendSqlResult` | clients over TCP, `EncryptService` by calls |
| `contrib/calc_cpp_demo` | none | `test_enc`, `add_ex`, `sum_by_row` | runs inside PostgreSQL |
| `EncryptTools` | none | `padding16`, `sym_encrypt`, `sym_decrypt`, the PRF, hashing, hex | used everywhere |

What makes the program hard, and what correctness means for each part:

* An upload is a long sequence of autocommitted statements. Entries are only
  inserted or overwritten, errors are logged and ignored, and the process can
  die anywhere. What is stored must stay what was uploaded: no counter hidden
  behind a gap, no posting without its row, no cached table that is not stored,
  no entry of another table touched.
* The server-side loops read counters from 0 to the first one missing, so the
  constructors and `setup` must number every vector without a gap.
* Query stages pass their results through ordinary tables named by the stage
  number. They survive a crash and are shared by all processes; a stage that
  fails leaves the old table. A query must return its own rows.
* Files and results use a second TCP connection taken from the one backlog.
  Peers hang up, files are cut, and one `recv` is taken for one message, though a
  message may be split. Replies must match requests, a success must mean the whole
  file, every request must be answered, and the next client be accepted.
* Texts are padded to blocks, cut at a mark after decryption, and pass through
  buffers sized by hand. A cell must come back as the text it was, and a PRF must
  fit its buffer.
* The planner guesses from the shape of a query. What it supports must be
  answered with the rows the query means.

`PROJECT.json` lists the hazards line by line.

## 2. Modules

| Module | What it models |
|---|---|
| `MultiMaps` | the four multi-maps and `setup` as functions of a table; `Walk`, the server's reading loop. Constants only, no state. |
| `MapBuilder` | the loops of the constructors and of `setup`, checked against `MultiMaps` |
| `TableReader` | `fileReader` with `safeGetline`, character by character |
| `TextCodec` | `padding16`, the sizes of ciphertexts, `sym_decrypt`, the cut at the mark, the buffer of the PRF. Operators only. |
| `CellTexts` (extends `TableReader`, `TextCodec`) | the way of a text: file, table, encrypted cell, PRF of the indexes, decrypted cell |
| `TableStore` | the abstract store: what an upload promises, without its statements |
| `UploadService` (extends `MultiMaps`) | `EncryptService` and the storing half of `DataMapper`, with faults and restarts; implements `TableStore` |
| `PlanExecutor` | `SqlPlanExecutor` over the shared temporary tables |
| `SqlPlanner` | `parseSql` as an operator from metadata and query to plan |
| `QueryAnswers` (extends `MultiMaps`, `SqlPlanner`) | `executeSql` from the query to the decrypted rows, and the meaning of the query over the plain tables |
| `SocketServer` | `testSocket` and `thread_func` with their clients |
| `Session` (extends `SocketServer`, instantiates `TableStore`) | the server with the store behind it: whole and cut files, the acknowledgement before the upload, restarts |
| `MultiMapProofs`, `BuilderProofs`, `CodecProofs`, `UploadProofs`, `PlanProofs`, `ServerProofs`, `SessionProofs`, `QueryProofs` | the theorems |
| `MC*` | instances for TLC |

Definitions named `...Shifted`, `...Unchecked` and the like, introduced by a
comment "The bug of ...", are not part of the model: each is a definition with a
plausible bug, and replacing the original by it makes TLC find a property
violated. They show that the properties can fail.

### Correspondence

`MultiMaps`. A table is `[name, types, rows]`, numbered from 0. The PRF of an
index is the index itself, the hashed key `H(F(index),i)` the pair
`<<index, i>>`, a ciphertext its plaintext tagged with the scheme: all injective,
as the code assumes. A posting is the PRF of a row's index, hence that index.
`Unbuildable` tables (no row, or an int column with something the encryptor
rejects) end the process before any statement is sent.

`UploadService`. `db` maps each SQL table to its entries, `made` are the tables
that exist, `conn` is what the pointer points to (`unset` before the first
`setConn`, `bad` after a lost session, `freed` after `PQfinish`), `cached` is
`currentTable` with `tableMap`, which are always written together. `phase` is the
multi-map `insertEMM` works on; `mmjoin` is the join table. `BeginUpload` covers
everything up to the first `insertEMM`, because the multi-maps are all built
before anything is sent; `CreateTable`, `FreeConnection`, `Insert`, `InsertFails`
and `PhaseDone` are the parts of `insertEMM`; `AfterPhase` is the order of the
calls. An `INSERT` that commits while the client is told of a lost connection is
`Insert` followed by `LoseConnection`: the code only logs the outcome, so that the
two cannot be told apart by what follows. All `CONNECTION_REQUEST`s name the same
database; one that named another would leave `cached` as it is, over a database
without these tables, and is not modelled. `begun` and `lost` are history: the
tables whose upload began and the keys whose last write failed. The order of
indexes within a multi-map is that of their strings in the code and an unspecified
one here; the counters of one index are ascending in both.

`TableStore`. `whole` are the uploaded tables of which every entry of `mmr`, `mmv`
and `mmc` is stored, `current` is `cached`, `writer` the table being uploaded
(until its join index, which belongs to no table, is rebuilt),
`missed` whether one of its writes failed, `online` whether `conn` is a working
connection. An upload is `Begin`, any number of `Write` and `Miss`, and `Finish`
or, with a dead connection, `GiveUp`. `UploadService` states the mapping in
`Store == INSTANCE TableStore WITH ...` and the refinement as `ImplementsStore`.

`PlanExecutor`. A stage is a value naming its operation and arguments, and the
content of a temporary table is the sequence of stages that led to it: it tells
whose rows they are. `RunStage` is one `PQexec` of `DROP`, `CREATE` and fill, one
transaction. `ReadFails` covers the use of a freed result and connection: the
process dies, or returns no rows, or garbage. That the loop counts a selection's
table twice in `tmpTables` has no effect (it is dropped twice) and is left out.

`SocketServer`. `server` is the place in `thread_func`, `backlog` the connections
not yet accepted, `inbox` and `replies` the two directions of a client's message
connection. The client is not in the repository; it does what the server expects
of it, never sends a message without a type itself, and may hang up. `Receive` is
one `recv`: it takes one message or several, of which only the first is looked at,
and may end within one. What is left of it is a `"rest"` that the next `recv` takes
for a message (`Reads`): if it begins with a number, `fromString` makes a request of
that number of it, known or not, and the server handles it like any other; else
`stoi` throws and the process ends (`HandleRest`). Which of these happens depends on
the text behind the split, so that every one of them is possible. From then on
`misread` is true: the two ends no longer agree on whose turn it is, and what the
properties say of replies and data no longer holds (see the findings). A message that
is cut within its type, the size of a file that is no number, an `accept` that fails,
and a query or an upload that throws end the process in `ServiceDies`.

`Session`. Every action of `SocketServer` takes the store along: a
`CONNECTION_REQUEST` that succeeds is `Connect`, the end of the process is
`Crash`, and the one step `Upload` is the end of `BeginUpload`, `Storing`,
`StatementFails` and `EndUpload`. `file` and `incoming` carry the table a client
announced; what `fileReader` finds under that name is that table if the only
client's whole file came, and any of that name otherwise (`ReadAs`), because
`thread_func` uploads after a failed transfer as well. A request that is split may
announce part of a name, hence any table (`AnnouncedTables`). `promised` is history: the
table last acknowledged as whole, unless its storing met a fault.

`TextCodec` and `CellTexts`. A ciphertext is symbolic: the padded bytes and a
size. `Block` is 16 and `Buffer` 128, as in the code. What `sym_decrypt` reports
beyond the bytes delivered is memory nobody has written: any contents, told apart
by where their first mark is, because nothing behind it is looked at. The model
stops where the code would write behind the buffer of a PRF (`PrfFits`) or of a
decryption (`FitsBuffer`). For texts that fit but are reported longer than the
buffer the code also reads behind it; that is covered by the same unknown bytes.

`SqlPlanner`. A query is what the regular expressions find in it; a text is the
sequence of its parts between dots. An alias is a name of its own, as for the code,
which never resolves it. A column that is not found leaves its name in a token;
`NoColumn` stands for it. `Undefined` is a read beyond a vector or of a missing return
value. `QueryAnswers` runs the plan over the entries both uploads store; `known` are
the tables the running process has uploaded itself, so that a process started after
the uploads, whose `tableMap` lacks them, is covered. The functions
`enc_query_text_full_table`, `enc_projection_text` and `sum_by_row_to_tmp` are not in
the repository; they are modelled from how the client uses them and from `sum_by_row`.

## 3. Runs

| Run | Properties | Shows |
|---|---|---|
| `upload_tables` | `TypeOK`, `PostingsResolve`, `Stored`, `OnlyOwnEntries` | uploads of two tables that join and two that cannot be built, by file and by table, two faults |
| `upload_versions` | `Contiguous`, `ExactWhenGrowing`, `JoinStored`, `ImplementsStore`, `UploadReturns` | re-uploads with a row more or less beside the joined table, one fault; they implement the abstract store, and every upload returns |
| `upload_stale` (violated) | `ExactAfterUpload` | rows dropped by a shorter version are still found |
| `plan_one_client` | `TypeOK`, `FreshResult`, `OwnTables`, `NoLeftover`, `QueryReturns` | leftovers of three crashes or lost connections never reach a result |
| `plan_two_clients` (violated) | `FreshResult` | two clients overwrite or read each other's temporary tables; a stage may be rejected and a process die |
| `session` | `TypeOK`, `RepliesMatch`, `DataFromOnlyClient`, `SuccessIsWhole`, `PromisesKept`, `RequestsAnswered` | two clients, three requests, two faults, over the abstract store with two versions of a table |
| `socket_mix_up` (violated) | `DataFromRequester` | a waiting client's connection is taken for the file or the result of another |
| `query_supported` | `AnswersSupported` | supported queries over all contents of two small tables, by a process that knows any of the two |
| `query_every` (violated) | `AnswersEvery` | unsupported queries, sums beyond the modulus and tables with a column that is not encrypted get wrong rows; the trace is a `SUM` with a `WHERE` |
| `map_builder` | `MapsBuilt`, `PrefixesOnly`, `EntriesBuilt` | the loops agree with `MultiMaps` on all small tables |
| `table_reader` | `AllLinesRead`, `RowsRectangular`, `CellsReadBack`, `TokensFit`, `ReaderEnds` | all texts up to five characters, files of up to four lines, and tables of two long cells taken to the database and back |
| `text_blocks` (violated) | `EveryCellReadsBack` | a text of whole blocks comes back with bytes nobody wrote |

**Bounds.** `student` has one or two rows that join the single row of
`courseinfo`, a column that is not encrypted, and a value that occurs twice, so
vectors of length 0, 1 and 2, shared postings, shifted rows and version changes in
both directions all occur. A fault (`MaxFaults`) is a crash, a lost session, a
failed `CREATE` or a rejected `INSERT`; two of them suffice for a fault during the
recovery from a fault. The executor has the three shapes of plan the planner
makes, of one to three stages, so shorter plans follow longer ones and find their
tables. `Session` has two versions of one table, which a cut file can be mistaken
for. `MaxRequests` bounds the requests of all clients together; three are a
connection and two uploads, or an upload by each client between those of the
other. Splitting a message is a fault and reading its rest as another is a second
one: two are what it takes to put a client and the server out of step, from where
on no property but the type invariant says anything. The server's `BacklogSize` is
2 instead of 10: enough for it to fill up with a message connection and a data
connection. Query tables hold one or two rows over two values that also occur in
the other columns; the plain modulus is 35, so that a sum of two scores can exceed
it. The queries include a `JOIN ... ON`, whose condition the planner overlooks. In
`query_every` there is also a `student` whose first column is a date, which is not
encrypted and shifts the columns after it. In `map_builder` tables have up to
three rows and up to two columns of every mix of types. The long cells of
`table_reader` have lengths around one, two and three blocks, the longest that
fits the decryption buffer (112) and one that does not (113), with the mark in
front, within and behind; with a table name of 7 characters the indexes reach 16,
64 and 65 characters, where the room for the PRF changes.

**Fairness.** `UploadStep`, an executor's `Step` and `ServerStep` are weakly fair:
each is sequential code of one thread in the middle of a call. In `Session` the
thread's own steps (`RequestStep`) are fair, and of an upload only that it comes
to its end (`UploadProgress`: the table becomes whole, or the upload ends), which
is what `UploadReturns` establishes of `UploadService`. Reading a file is fair. A
client is fair only in what it has begun (sending its announced file, taking its
reply, fetching its result); it need not ask, and nothing makes it hang up.
Faults, connecting and restarting are never fair.

**Deadlock** is checked in the upload and executor runs. It is not where the
program comes to rest: the reader, the builder and a query end after one call,
and the socket server waits in `accept` or `recv` when the clients have used up
their requests, or spins on a client that is gone.

**What is conditional.** `DataFromOnlyClient`, `SuccessIsWhole`, `PromisesKept` and
`RequestsAnswered` speak of a client without others connecting; what happens
otherwise is the finding of `socket_mix_up`. `RepliesMatch` holds with any. All of
them speak of the time before the rest of a split message is read as one
(`~misread`): splits themselves, and messages whose rest is still to come, are
covered; what follows a misread rest is described below. `JoinStored` says which
entries the join index has, not that it has no others: those of versions uploaded
before stay, as in every multi-map. `Contiguous`, `Stored` and `JoinStored` except
entries whose write failed: such a gap hides the entries behind it. `FreshResult`
holds with one client and no rejected stages.

### Findings

The runs marked violated show where the code departs from what its comments say;
`PROJECT.json` quotes both. While modelling, related ones were seen that have no
run of their own:

* A stage the server rejects leaves the table of an earlier query, whose rows are
  then returned (`SqlPlanExecutor.cpp:69`): `FreshResult` fails for a single client
  too, with `MaxRejected` and `MaxFaults` 1, which are the bounds of
  `plan_two_clients`.
* An `INSERT` the server rejects is only logged (`DataMapper.cpp:448`). The entries
  behind the gap are stored, but the server's loops stop at the first counter
  missing and queries answer only a part.
* When the rest of a split message begins with a number (the size of a file, a
  number at the end of a query), it is handled and answered as a request
  (`myMsg.h:62`, `msgSocket.cpp:132`), and a client finds a second reply. It takes
  it for that to its next request, so that its next file connection may be accepted
  for a result: `DataFromRequester` fails with a single client too, within the bounds
  of `socket_mix_up`. In the end it can wait for the rows of a query while the server
  waits in `recvFile` on that very connection.
* `testSocket` says it accepts clients in a loop (`main.cpp:423`), but when a
  client has closed its connection `recvMsg` reads 0 bytes for ever and
  `thread_func` does not return: the next client is never accepted.
* `uploadFileIntoSql`, the only upload the socket server has, never builds the
  join index (`EncryptService.cpp:56`): `JoinStored` fails with `Apis = {"file"}`.
* `insertEMM` and `executeByteaResultQuery` free the connection and the service
  goes on using it (`DataMapper.cpp:381`, `SqlPlanExecutor.cpp:124`).
* A selection looks at the first of its conditions only, and a join plan depends
  on the order and the tables of its conditions (`paser.cpp:424`, `:472`). The
  condition after `ON` is not looked at (`paser.cpp:236`): the query is answered
  from the alphabetically first of its tables, or reads a column number nobody
  returned. A `SUM` looks at neither `WHERE` nor `JOIN`, and exceeds the plain modulus
  silently. A column that is not encrypted shifts those behind it, so that another
  one is projected. `query_every` covers all of these but a `SUM` with a `JOIN`, and
  `AnswersEvery` fails for each kind by itself, except that some of these queries are
  never answered at all. The queries left over are the three parts of `Supported`,
  `SupportedSum`, `SupportedSelect` and `SupportedJoin`.
* After an unknown request the server means to send `msgType::ERROR`
  (`msgSocket.cpp:116`) and sends `NONE`.
* After `FILE_RECEIVE_FAILED` the partial file is uploaded all the same and
  replaces the current table of its name (`msgSocket.cpp:77`).
* The buffer for the PRF of an index is 14 bytes too small when the length of the
  index is a multiple of 16, for example for a six-character value of `student`, and
  too small for some lengths from 65 on (`EncryptManager.cpp:61`), although
  `Crypto_Primitives.h:56` asks for room in multiples of 16 bytes.
* A row whose last cell is empty ends with a comma and is read one cell short
  (`DataMapper.cpp:257`); the constructors read beyond it. `CellTexts` stops at a
  table that is not rectangular.

## 4. Proofs

The theorems hold for every value of the constants that meets the assumptions in
the modules: `TablesAssumption` and `ApisAssumption` (tables are rectangular and
long enough for the hard-coded join columns), `PlansAssumption` and
`BoundsAssumption`, `ServerAssumption`, `SessionAssumption` (the value for no table
is no table), `CellAssumption` (texts are sequences of characters) and
`BuilderAssumption` (tables are rectangular, have a row, and have numbers in their
int columns: with others the constructors throw or read beyond a vector),
`StoredAssumption` (each column of a stored table has a name, and both tables have
the hard-coded join columns) and `QueriesAssumption` (a text has at least one part,
and queries name stored tables only).

`UploadProofs`. `TypeOK`, `Contiguous`, `PostingsResolve` and `Stored` are
invariants, and `OnlyOwnEntries` is an action property. `Stored` alone is not
inductive: in the middle of a phase nothing says that the keys `insertEMM` has
passed were written. `Progress` does, and `Provenance`, that every entry is one
of a table whose upload began, is needed for what is found under an index;
`IInv`, the conjunction of all six, is inductive. `PostingsResolve` needs
`Stored` at the moment a posting is inserted: `mmr` is done before `mmv` begins,
which is what the order of the three `insertEMM` calls is for. `Contiguous`
needs `Progress` and the ascending counters of `NextKey`. `OnlyOwnEntries` needs
`TypeOK`, which ties `up` to `cached`, and the fact that the first component of
every index is its table.

In the same module, `UploadImplementsStore`: `Spec => Store!Spec`. Each step of
`UploadService` is a step of `TableStore` or changes none of its variables;
`Insert` is the hard case, where `Provenance` and the table's name in each key
show that no other table stops being whole, and where the writer's entries that
are already stored are overwritten with the same values. `PhaseDone` of the last
phase is `Finish` because `Stored` says the table is whole or lost a write.

Also there, `JoinIndexStored`: if tables are uploaded by `uploadTableIntoSql`,
`JoinStored` is invariant. It is not inductive, since it speaks of idle states
only; `JoinKept` adds that uploads of other tables, which rewrite the join index
with the same entries, keep it at every step. With `uploadFileIntoSql` the theorem
would be false, and it says so in its assumption. `GrownTablesExact`:
`ExactWhenGrowing` follows from `IInv`. What is stored under an index of the table
comes from some version of it (`Provenance`); a version that is a beginning of the
cached one has no key the cached one lacks (`EntriesGrow`, which rests on
`AscendingGrows`: a set that grows is numbered at least as far); and the cached
version's keys are all there with its values (`Stored`). So walking gives what
`TableReadsBack` says.

`MultiMapProofs`. `WalkReadsBack`: if every vector of a multi-map is numbered from
0 without gaps, walking an index in `Setup` of the map gives the vector back, and
nothing for an index the map lacks. `TableReadsBack`: the row, column and value
maps of every table are such. They rest on lemmas about `Rank` and `Ascending`,
the positions `push_back` gives to the elements of a set.

`BuilderProofs`. `MapsAlwaysBuilt`, `PrefixesAlways` and `EntriesAlwaysBuilt`: the
loops of the four constructors and of `setup` build what `MultiMaps` says, for any
tables. What the runs check says something at the end of the loops, or of prefixes,
and is not inductive; `BuilderInv` gives the map at every position of the loops:
`MapSoFar`, the closed form with only the cells `Visited`, and `VectorSoFar`, the
vector in hand. A visit adds one posting, and since the loops ascend it goes behind
the others (`AscendingAppend`): a loop that ran downwards would fail there. In
`setup`, `EntriesSoFar` are the entries of the vectors already taken from `todo` and
of the one in hand up to `inner`; that each key is written once is
`Len(keys) = Cardinality(EntriesSoFar)`.

`PlanProofs`. `TypeOK` is invariant for any clients. With one client and no
rejected stages, `OwnTables` and `ResultsFetched` make `FreshResult` inductive:
the tables up to the current stage are the query's own, whatever was left in them.
Without the two conditions `FreshResult` is false (see the findings).
`NothingLeftOver` needs `Swept`: before the first fault the only tables are those
of the stages done and not yet dropped, and none exist without a live connection,
so that a read can only have failed with nothing to leave.

`ServerProofs`. `ServerInvariant` for any number of clients, with `ServerInv` as
the inductive invariant: types, the wires' contents, who is known to the server
(`Known`), at which place of the protocol a client and the thread are relative to
each other (`Protocol`), where data connections are (`Results`), and, for an only
client, whose connections can be in the backlog at all (`Alone`). `Protocol` and
`Alone` hold until a rest is read as a message; `misread` stays true until the process
ends, and nothing of a client is left then.
`ServerTypeCorrect`, `RepliesAlwaysMatch`, `DataAlwaysFromOnlyClient` and
`SuccessIsAlwaysWhole` follow.

`SessionProofs`. `PromisesAlwaysKept`, on top of `ServerInv`, whose steps the
composed actions contain: a promised table is whole and current (`Kept`), except
while it is the one in hand, when the promise is owed (`Owed`): the file is the
client's own, the connection works and no write was missed, so that the end of the
upload makes it whole.

`CodecProofs`. `TextsReadBack` is about the operators alone: for every text, what
decryption returns begins with the text up to its first mark, and is no more than
that if padding was added. `ShortIndexesFit` is the arithmetic of the PRF's buffer
for every length. `CellsAlwaysReadBack` and `TokensAlwaysFit` carry both through
the reader and the loops to the cells of any file.

The same module proves the reader right. `ReadingInv` relates the three pieces of
state that the properties see only at the end: the rest of the stream and the line
in hand are one suffix of the file (`StreamRight`: nothing is lost or doubled when a
`\r` is followed by `\n`), and the rows are the cells of the lines that begin in
front of it, as many as there are (`LinesStored`). `NextLine` is the step: a line
that ends is the next of `Lines`, by `NthIs`, which numbers the starts of lines.
`AllLinesAlwaysRead` follows at the end of the file. `RowsAlwaysRectangular` needs
`CellsCounted` besides, that a line has one cell more than commas, unless it ends
with one.

`QueryProofs`. `AnswersAlwaysSupported`: for any stored tables, any process and any
queries, what a supported query returns is what the query means over the plain
tables, in the number of times each row occurs as well. `QueryInv` says where the
loop over the stages is (`Carried`): the plan is the planner's, the temporary
tables are the results of the stages done, and the answer is the decryption of
the last one. From it the theorem is a statement about three operators for each
kind of query: which plan it gets (`SelectPlanned`, `SumPlanned`, `JoinPlanned`),
what each of its stages leaves (`...Stages`), and that this agrees with the
meaning (`...Answered`). The stages rest on the walks of `MultiMapProofs`:
`SelectionFinds` (the postings of a value are the rows that hold it, in order),
`ProjectionFinds`, `ColumnFinds` and `JoinFinds`. That two sequences hold a row
equally often is shown by a bijection between the places of the answer and the
solutions of the query (`PairedRowsAreRight`); for a join the places are those of
the flattened lists of partners (`PairsAreSolutions`).

Sums and flattened sequences are folds, and a fold unfolds to a recursive function
over sets. The library's induction theorems take operators and cannot be used, so
the module does its inductions by hand, once: `OneElementMore` and `OneMore` reach
a finite set, and an interval, from the empty one an element at a time, by a
property stated as a set; `FoldExists` shows that the recursive function exists,
and `Totals`, `Running` and `Flattening` say what it gives.

The theorem has one hypothesis, `NothingElse`, about two constants that stand for
what the program does not have: `Undefined`, a read beyond a vector, is no plan,
and `NoTable`, what a failed stage leaves, is no sequence. It quantifies over all
values, so that TLC cannot evaluate it as an assumption; the model values of the
runs meet it.

Only model-checked: the liveness properties (`UploadReturns`, `QueryReturns`,
`RequestsAnswered`, `ReaderEnds`), which are out of the prover's reach, as
fairness is. Every other property of the passing runs is a theorem.

## 5. Not modelled

* AES, the PRF, the hash and SEAL as computations, with their collisions; the hex
  encodings and the key generators, which are pure and injective as far as the
  program uses them.
* The text of SQL statements and of the regular expressions.
* The time and size limits of PostgreSQL.
* Queries over a store that is only partly written: `QueryAnswers` starts from
  stored tables; what a partly written index answers is `Contiguous` and
  `PostingsResolve`.
* Code without callers: the overloads with a table number, `executeResultQuery`,
  `parseSql` for one table, `testsArchive`.

Nearly all files of the repository that count as its implementation are vendored
headers of OpenSSL, PostgreSQL, SEAL and gmock. They are not the program's logic,
and a model of them would have nothing to do with it; what the program relies on
of them (outcomes of libpq calls, a rejected statement, the sizes AES produces) is
part of the models where it is used. The sources under `src/src` with logic of
their own are all modelled.

## 6. Plan

The order was that of importance: storing, executing, serving, answering, the
encoding of texts, the composition of server and store, the abstract store. All
are done. What could follow:

1. `QueryAnswers` over the abstract store: queries between two uploads and over a
   table that a crash left partly written.
2. `PlanExecutor` and `QueryAnswers` composed, so that a stage that fails reads the
   leftover of another query instead of ending the model.
3. Proofs about these two: what `Contiguous` and `PostingsResolve` leave of
   `AnswersSupported` for a partly written table.
