------------------------------ MODULE Session ------------------------------
(***************************************************************************)
(* SocketServer composed with the service behind its requests.  The step   *)
(* Upload of SocketServer is here the whole call of uploadFileIntoSql, at  *)
(* the level of TableStore, which UploadService implements; a              *)
(* CONNECTION_REQUEST gives the service its connection, and the end of the *)
(* process is a crash of the store.                                        *)
(*                                                                         *)
(* The file is received, acknowledged and then uploaded, whatever its      *)
(* transfer came to.  So a file that was cut replaces the table of its     *)
(* name, and what was acknowledged is only stored once the server takes    *)
(* the next request.                                                       *)
(***************************************************************************)
EXTENDS SocketServer

CONSTANTS
  Tables,    \* what clients' files hold, and what cut files read as
  NoTable

ASSUME SessionAssumption == NoTable \notin Tables

VARIABLES
  whole, current, writer, missed, online,   \* the store
  file,      \* per client: the table its FILE_REQUEST announces, until that is taken
  incoming,  \* the table of the FILE_REQUEST being served
  promised   \* history: per name, the table whose whole file was acknowledged
             \* last, unless storing it then met a fault

Store == INSTANCE TableStore

Names == Store!Names

store == <<whole, current, writer, missed, online>>
files == <<file, incoming>>

sessionVars == <<vars, store, file, incoming, promised>>

SessionInit ==
  /\ Init /\ Store!Init
  /\ file = [c \in Clients |-> NoTable] /\ incoming = NoTable
  /\ promised = [n \in Names |-> NoTable]

-----------------------------------------------------------------------------
\* The clients.

RequestFile(c, t) ==
  /\ Request(c, "FILE_REQUEST")
  /\ file' = [file EXCEPT ![c] = t]
  /\ UNCHANGED <<store, incoming, promised>>

ClientStep(c) ==
  /\ \/ Dial(c) \/ SendFile(c) \/ GetReply(c) \/ FetchResult(c) \/ HangUp(c)
     \/ \E k \in Requests \ {"FILE_REQUEST"} : Request(c, k)
  /\ UNCHANGED <<store, files, promised>>

-----------------------------------------------------------------------------
\* The server.

Promise(n, t) == promised' = [promised EXCEPT ![n] = t]

(***************************************************************************)
(* A new connection becomes the service's; one that failed leaves it the   *)
(* connection it has.                                                      *)
(***************************************************************************)
Connected ==
  /\ \/ AnswerConnection("CONNECTION_SUCCESS") /\ Store!Connect
     \/ AnswerConnection("CONNECTION_FAILED") /\ UNCHANGED store
  /\ UNCHANGED <<files, promised>>

(***************************************************************************)
(* The name in a request that is split may be cut, and a rest names        *)
(* anything.                                                               *)
(***************************************************************************)
AnnouncedTables == IF misread' \/ Split' THEN Tables ELSE {file[session]}

TakeRequest ==
  /\ HandleFile
  /\ incoming' \in AnnouncedTables /\ file' = [file EXCEPT ![session] = NoTable]
  /\ UNCHANGED <<store, promised>>

(***************************************************************************)
(* The reply to a FILE_REQUEST is sent here, before the upload.            *)
(***************************************************************************)
Acknowledge ==
  /\ ReceiveFile
  /\ Promise(incoming.name,
       IF success' /\ online /\ ~Split /\ ~misread THEN incoming ELSE NoTable)
  /\ UNCHANGED <<store, files>>

(***************************************************************************)
(* What fileReader may find under the name of the request: the table of    *)
(* the client if all of its file came, else any.  With several clients the *)
(* file may also be one that stayed in the backlog.  A file that reads as  *)
(* no table that can be built ends the process (ServiceDies).              *)
(***************************************************************************)
WholeFile ==
  success /\ ~misread /\ OnlyClient(session) /\ socket = Connection(session, "file")

ReadAs == {t \in Tables : t.name = incoming.name /\ (WholeFile => t = incoming)}

BeginUpload ==
  /\ server = "upload" /\ writer = NoTable
  /\ \E t \in ReadAs : Store!Begin(t)
  /\ UNCHANGED <<vars, files, promised>>

Storing ==
  /\ server = "upload"
  /\ Store!Write
  /\ UNCHANGED <<vars, files, promised>>

StatementFails ==
  /\ server = "upload" /\ ~missed
  /\ Store!Miss
  /\ IF online THEN Fault ELSE UNCHANGED faults
  /\ Promise(incoming.name, NoTable)
  /\ UNCHANGED <<server, session, socket, success, clients, wires, files>>

\* The bug of returning to the client before the upload is through.
EndUploadEarly ==
  /\ writer # NoTable
  /\ Upload
  /\ incoming' = NoTable
  /\ UNCHANGED <<store, file, promised>>

EndUpload ==
  /\ Store!Finish \/ Store!GiveUp
  /\ Upload
  /\ incoming' = NoTable
  /\ UNCHANGED <<file, promised>>

Disconnect ==
  /\ Store!Disconnect /\ Fault
  /\ IF server = "upload" THEN Promise(incoming.name, NoTable) ELSE UNCHANGED promised
  /\ UNCHANGED <<server, session, socket, success, clients, wires, files>>

Die ==
  /\ HandleRest \/ ServiceDies
  /\ Store!Crash
  /\ file' = [c \in Clients |-> NoTable] /\ incoming' = NoTable
  /\ promised' = [n \in Names |-> NoTable]

OtherServerStep ==
  /\ \/ AcceptClient \/ HandleSql \/ HandleOther
     \/ AcceptData \/ SendResult
  /\ UNCHANGED <<store, files, promised>>

(***************************************************************************)
(* The steps of thread_func and of the calls it makes.                     *)
(***************************************************************************)
ServiceStep ==
  \/ Connected \/ TakeRequest \/ Acknowledge \/ OtherServerStep
  \/ BeginUpload \/ Storing \/ StatementFails \/ EndUpload
  \/ Die

SessionNext ==
  \/ ServiceStep
  \/ Disconnect
  \/ Restart /\ UNCHANGED <<store, files, promised>>
  \/ \E c \in Clients : ClientStep(c) \/ \E t \in Tables : RequestFile(c, t)

SessionSpec == SessionInit /\ [][SessionNext]_sessionVars

(***************************************************************************)
(* The thread runs and an upload proceeds to its end, which UploadService  *)
(* shows of it (UploadReturns).  Clients go on with what they began.       *)
(***************************************************************************)
RequestStep ==
  Connected \/ TakeRequest \/ Acknowledge \/ OtherServerStep \/ BeginUpload \/ Die

UploadProgress ==
  \/ Storing /\ writer \notin whole /\ writer \in whole'
  \/ EndUpload

SessionFairSpec ==
  /\ SessionSpec
  /\ WF_sessionVars(RequestStep) /\ WF_sessionVars(UploadProgress)
  /\ \A c \in Clients : WF_sessionVars((SendFile(c) \/ GetReply(c) \/ FetchResult(c)) /\ ClientStep(c))
-----------------------------------------------------------------------------
(***************************************************************************)
(* What an only client was told of is kept: whenever the server takes a    *)
(* request, each table it has acknowledged whole, and met no fault in      *)
(* storing, is in the database with all its entries and is the one queries *)
(* of that name are planned for.  The acknowledgement comes before the     *)
(* upload, later uploads may be cut or fail, and the process may have died *)
(* and forgotten in between.                                               *)
(***************************************************************************)
PromisesKept ==
  server = "recv" /\ OnlyClient(session) =>
    \A n \in Names : promised[n] # NoTable =>
      promised[n] \in whole /\ current[n] = promised[n]
=============================================================================
