---------------------------- MODULE SocketServer ----------------------------
(***************************************************************************)
(* testSocket and thread_func: one thread that accepts a client and then   *)
(* serves its requests.  A file and the rows of a query do not travel on   *)
(* the message connection: the client opens another connection to the same *)
(* listening socket and the server takes whichever is first in its backlog *)
(* for the data socket.  The service behind the requests (UploadService,   *)
(* PlanExecutor) is a call that returns or ends the process.               *)
(*                                                                         *)
(* The client is not in the repository.  It is modelled by what the server *)
(* expects of it: one request at a time, the file right after the          *)
(* FILE_REQUEST, a data connection after SQL_SUCCESS; it may hang up at    *)
(* any time and does not come back (a client that does is another one).    *)
(***************************************************************************)
EXTENDS Integers, Sequences

CONSTANTS
  Clients,
  Nobody,
  BacklogSize,   \* 10 in the code
  MaxRequests,   \* bounds the requests of all clients
  MaxFaults      \* bounds the hang-ups, cut transfers, split and misread messages, deaths

ASSUME ServerAssumption ==
  /\ Nobody \notin Clients
  /\ BacklogSize \in Nat \ {0} /\ MaxRequests \in Nat /\ MaxFaults \in Nat

VARIABLES
  server,    \* where thread_func is
  session,   \* the client at the other end of msgsocket
  socket,    \* filesocket or sqlsocket
  backlog,   \* connections not yet accepted
  pc,        \* per client: where it is
  want,      \* per client: its last request
  inbox,     \* per client: what it sent on its message connection
  replies,   \* per client: what the server sent it there
  misread,   \* history: the rest of a message has been read as a message
  success,   \* the outcome of the last recvFile
  asked,     \* counts the requests, for the bound
  faults     \* counts the faults, for the bound

clients == <<pc, want, asked>>
wires   == <<backlog, inbox, replies, misread>>
vars    == <<server, session, socket, success, clients, wires, faults>>

Requests == {"CONNECTION_REQUEST", "FILE_REQUEST", "SQL_REQUEST", "OTHER"}

(***************************************************************************)
(* The replies the server has for a request; "OTHER" stands for the types  *)
(* that no client should send, and for any other number a rest begins with.*)
(***************************************************************************)
Answers(k) ==
  CASE k = "CONNECTION_REQUEST" -> {"CONNECTION_SUCCESS", "CONNECTION_FAILED"}
    [] k = "FILE_REQUEST" -> {"FILE_RECEIVE_SUCCESS", "FILE_RECEIVE_FAILED"}
    [] k = "SQL_REQUEST" -> {"SQL_SUCCESS", "SQL_FAILED"}
    [] k = "OTHER" -> {"NONE"}

(***************************************************************************)
(* A connection: who opened it, for what, and for a file whether all of it *)
(* arrives.                                                                *)
(***************************************************************************)
Roles == {"message", "file", "cut file", "result"}
Connection(c, role) == [from |-> c, role |-> role]
NoSocket == [from |-> Nobody, role |-> "message"]

Init ==
  /\ server = "accept" /\ session = Nobody /\ socket = NoSocket /\ success = FALSE
  /\ backlog = <<>>
  /\ pc = [c \in Clients |-> "new"]
  /\ want = [c \in Clients |-> "OTHER"]
  /\ asked = 0
  /\ inbox = [c \in Clients |-> <<>>]
  /\ replies = [c \in Clients |-> <<>>]
  /\ misread = FALSE
  /\ faults = 0

Fault == faults < MaxFaults /\ faults' = faults + 1

At(c, place) == pc[c] = place
Go(c, place) == pc' = [pc EXCEPT ![c] = place]

-----------------------------------------------------------------------------
\* The clients.

Open(c, role) ==
  /\ server # "exited" /\ Len(backlog) < BacklogSize
  /\ backlog' = Append(backlog, Connection(c, role))
  /\ UNCHANGED <<server, session, socket, success, want, asked, inbox, replies, misread>>

Dial(c) == At(c, "new") /\ Open(c, "message") /\ Go(c, "ready") /\ UNCHANGED faults

Request(c, k) ==
  /\ At(c, "ready") /\ asked < MaxRequests
  /\ inbox' = [inbox EXCEPT ![c] = Append(@, k)]
  /\ want' = [want EXCEPT ![c] = k]
  /\ asked' = asked + 1
  /\ Go(c, IF k = "FILE_REQUEST" THEN "file" ELSE "await")
  /\ UNCHANGED <<server, session, socket, success, backlog, replies, misread, faults>>

SendFile(c) ==
  /\ At(c, "file") /\ Go(c, "await")
  /\ \/ Open(c, "file") /\ UNCHANGED faults
     \/ Open(c, "cut file") /\ Fault

GetReply(c) ==
  /\ At(c, "await") /\ replies[c] # <<>>
  /\ replies' = [replies EXCEPT ![c] = Tail(@)]
  /\ Go(c, IF Head(replies[c]) = "SQL_SUCCESS" THEN "fetch" ELSE "ready")
  /\ UNCHANGED <<server, session, socket, success, want, asked, backlog, inbox, misread, faults>>

FetchResult(c) ==
  At(c, "fetch") /\ Open(c, "result") /\ Go(c, "reading") /\ UNCHANGED faults

HangUp(c) ==
  /\ pc[c] \notin {"new", "gone"} /\ Go(c, "gone")
  /\ Fault
  /\ UNCHANGED <<server, session, socket, success, want, asked, wires>>

-----------------------------------------------------------------------------
\* The server.

Reply(r) == replies' = [replies EXCEPT ![session] = Append(@, r)]

(***************************************************************************)
(* The process ends and all its connections with it.                       *)
(***************************************************************************)
Exit ==
  /\ server' = "exited" /\ session' = Nobody /\ socket' = NoSocket
  /\ backlog' = <<>>
  /\ pc' = [c \in Clients |-> IF At(c, "new") THEN "new" ELSE "gone"]
  /\ inbox' = [c \in Clients |-> <<>>]
  /\ replies' = [c \in Clients |-> <<>>]
  /\ success' = FALSE /\ misread' = FALSE
  /\ UNCHANGED <<want, asked>>

Restart ==
  /\ server = "exited" /\ server' = "accept"
  /\ UNCHANGED <<session, socket, success, clients, wires, faults>>

(***************************************************************************)
(* The loop of testSocket.  thread_func is called, not started as a        *)
(* thread, and does not return.                                            *)
(***************************************************************************)
AcceptClient ==
  /\ server = "accept" /\ backlog # <<>>
  /\ session' = Head(backlog).from /\ backlog' = Tail(backlog)
  /\ server' = "recv"
  /\ UNCHANGED <<socket, success, clients, inbox, replies, misread, faults>>

(***************************************************************************)
(* recvMsg: one recv is taken for one message.  It may deliver several, of *)
(* which the type of the first counts, or stop in one: the rest is read    *)
(* next, and handled as the request of whatever number it begins with.     *)
(* With a peer that hung up recv returns 0 for ever, and recvMsg tries     *)
(* again.                                                                  *)
(***************************************************************************)
Split == inbox[session] # <<>> /\ Head(inbox[session]) = "rest"

Reads(k) == inbox[session] # <<>> /\ Head(inbox[session]) \in {k, "rest"}

Receive(k) ==
  /\ server = "recv" /\ Reads(k)
  /\ misread' = (misread \/ Split)
  /\ \E n \in DOMAIN inbox[session] :
       LET left == SubSeq(inbox[session], n + 1, Len(inbox[session]))
       IN  \/ inbox' = [inbox EXCEPT ![session] = left] /\ IF Split THEN Fault ELSE UNCHANGED faults
           \/ inbox' = [inbox EXCEPT ![session] = <<"rest">> \o left] /\ Fault

\* The bug of answering a request before serving it as well as after.
AnswerTwice(k, r) ==
  /\ Receive(k)
  /\ replies' = [replies EXCEPT ![session] = @ \o <<r, r>>]
  /\ UNCHANGED <<session, socket, success, clients, backlog>>

Answer(k, r) ==
  /\ Receive(k) /\ Reply(r)
  /\ UNCHANGED <<session, socket, success, clients, backlog>>

AnswerConnection(r) == Answer("CONNECTION_REQUEST", r) /\ UNCHANGED server

HandleConnection == \E r \in Answers("CONNECTION_REQUEST") : AnswerConnection(r)

\* The bug of taking the file only with the next request.
HandleFileLater ==
  /\ Receive("FILE_REQUEST") /\ server' = "recv"
  /\ UNCHANGED <<session, socket, success, clients, backlog, replies>>

HandleFile ==
  /\ Receive("FILE_REQUEST")
  /\ server' = "accept file"
  /\ UNCHANGED <<session, socket, success, clients, backlog, replies>>

\* The bug of waiting for a data connection after a failure as well.
HandleSqlAlike ==
  \E r \in Answers("SQL_REQUEST") : Answer("SQL_REQUEST", r) /\ server' = "accept result"

HandleSql ==
  \/ Answer("SQL_REQUEST", "SQL_SUCCESS") /\ server' = "accept result"
  \/ Answer("SQL_REQUEST", "SQL_FAILED") /\ UNCHANGED server

HandleOther == Answer("OTHER", "NONE") /\ UNCHANGED server

(***************************************************************************)
(* What stands for the type in a rest is no number, and stoi throws in     *)
(* fromString, or it is 0, which recvMsg refuses.                          *)
(***************************************************************************)
HandleRest ==
  /\ server = "recv" /\ Split
  /\ Exit
  /\ UNCHANGED faults

AcceptData ==
  /\ \/ server = "accept file" /\ server' = "recv file"
     \/ server = "accept result" /\ server' = "send result"
  /\ backlog # <<>>
  /\ socket' = Head(backlog) /\ backlog' = Tail(backlog)
  /\ UNCHANGED <<session, success, clients, inbox, replies, misread, faults>>

(***************************************************************************)
(* recvFile reads until the other end closes, or fails to create the file. *)
(* Success is decided by the number of bytes: nothing tells whose they     *)
(* are, and of a split request the number announced may be cut too.  The   *)
(* upload follows either way.                                              *)
(***************************************************************************)
Ended(s) == s.role \in {"file", "cut file"} \/ At(s.from, "gone")

\* The bug of taking the end of the stream for the end of the file.
OutcomesUncounted(s) == {TRUE}

Outcomes(s) ==
  CASE s.role = "file" -> {TRUE}
    [] s.role = "cut file" /\ ~Split -> {FALSE}
    [] OTHER -> BOOLEAN

ReceiveFile ==
  /\ server = "recv file" /\ server' = "upload"
  /\ \/ Ended(socket) /\ success' \in Outcomes(socket) /\ UNCHANGED faults
     \/ success' = FALSE /\ Fault
  /\ Reply(IF success' THEN "FILE_RECEIVE_SUCCESS" ELSE "FILE_RECEIVE_FAILED")
  /\ UNCHANGED <<session, socket, clients, backlog, inbox, misread>>

\* The bug of not closing the socket of the file.
UploadKeepingSocket ==
  /\ server = "upload" /\ server' = "recv"
  /\ UNCHANGED <<session, socket, success, clients, wires, faults>>

Upload ==
  /\ server = "upload" /\ server' = "recv"
  /\ socket' = NoSocket
  /\ UNCHANGED <<session, success, clients, wires, faults>>

(***************************************************************************)
(* sendSqlResult writes the rows to the socket, which is then closed: for  *)
(* a message connection that is the end of its client.                     *)
(***************************************************************************)
SendResult ==
  /\ server = "send result"
  /\ \/ socket.role = "result" /\ ~At(socket.from, "gone") /\ Go(socket.from, "ready")
     \/ socket.role = "result" /\ At(socket.from, "gone") /\ UNCHANGED pc
     \/ socket.role = "message" /\ Go(socket.from, "gone")
     \/ socket.role \in {"file", "cut file"} /\ UNCHANGED pc
  /\ server' = "recv" /\ socket' = NoSocket
  /\ UNCHANGED <<session, success, want, asked, wires, faults>>

(***************************************************************************)
(* The process ends in an upload or a query, at the size of a file, at a   *)
(* message that is cut in its type, or when accept fails.                  *)
(***************************************************************************)
ServiceDies ==
  /\ \/ server \in {"upload", "accept file", "accept result"}
     \/ server = "recv" /\ inbox[session] # <<>>
  /\ Exit
  /\ Fault

ServerStep ==
  \/ AcceptClient
  \/ HandleConnection \/ HandleFile \/ HandleSql \/ HandleOther \/ HandleRest
  \/ AcceptData \/ ReceiveFile \/ Upload \/ SendResult \/ ServiceDies

Next ==
  \/ ServerStep
  \/ Restart
  \/ \E c \in Clients :
       \/ Dial(c) \/ SendFile(c) \/ GetReply(c) \/ FetchResult(c) \/ HangUp(c)
       \/ \E k \in Requests : Request(c, k)

Spec == Init /\ [][Next]_vars

(***************************************************************************)
(* The server's thread runs, and a client that has announced a transfer or *)
(* is owed a reply goes on with it.                                        *)
(***************************************************************************)
FairSpec ==
  /\ Spec
  /\ WF_vars(ServerStep)
  /\ \A c \in Clients : WF_vars(SendFile(c) \/ GetReply(c) \/ FetchResult(c))
-----------------------------------------------------------------------------
(***************************************************************************)
(* Where the server and the clients can be.                                *)
(***************************************************************************)
TypeOK ==
  /\ server \in {"accept", "recv", "accept file", "recv file", "upload",
                 "accept result", "send result", "exited"}
  /\ session = Nobody <=> server \in {"accept", "exited"}
  /\ session \in Clients \cup {Nobody}
  /\ socket = NoSocket <=> server \notin {"recv file", "upload", "send result"}
  /\ Len(backlog) <= BacklogSize
  /\ \A i \in DOMAIN backlog : backlog[i].from \in Clients /\ backlog[i].role \in Roles
  /\ pc \in [Clients -> {"new", "ready", "file", "await", "fetch", "reading", "gone"}]
  /\ want \in [Clients -> Requests] /\ asked \in 0 .. MaxRequests
  /\ success \in BOOLEAN /\ misread \in BOOLEAN

(***************************************************************************)
(* As long as no rest has been read as a message: a client finds only an   *)
(* answer to its last request on its message connection, never one to an   *)
(* earlier request, and none when it expects none; also when the files and *)
(* rows of several clients get mixed up.  After that, a reply may be to    *)
(* the rest.                                                               *)
(***************************************************************************)
ReplyMatches(c) ==
  replies[c] # <<>> =>
    \/ At(c, "gone")
    \/ /\ pc[c] \in {"file", "await"} /\ Len(replies[c]) = 1
       /\ Head(replies[c]) \in Answers(want[c])

RepliesMatch == ~misread => \A c \in Clients : ReplyMatches(c)

(***************************************************************************)
(* recvFile reads the socket the requesting client opened for its file     *)
(* ("a socket of its own for the file", msgSocket.cpp:55), and the rows of *)
(* a query go to the one it opened for them ("a socket of its own for the  *)
(* result", msgSocket.cpp:98).                                             *)
(***************************************************************************)
DataFromRequester ==
  /\ server = "recv file" => socket.from = session /\ socket.role \in {"file", "cut file"}
  /\ server = "send result" => socket.from = session /\ socket.role = "result"

(***************************************************************************)
(* It is so as long as no other client has ever connected and no rest has  *)
(* been read as a message, through cut files, failed queries and messages  *)
(* whose rest is still to come.                                            *)
(***************************************************************************)
OnlyClient(c) == \A d \in Clients \ {c} : At(d, "new")

DataFromOnlyClient == ~misread /\ OnlyClient(session) => DataFromRequester

(***************************************************************************)
(* Unless its request was split, or an earlier rest read as a message,     *)
(* FILE_RECEIVE_SUCCESS is said to an only client only of its whole file,  *)
(* through cut transfers, a hang-up before the file and failures to write  *)
(* it: what is stored then is the table the client sent.                   *)
(***************************************************************************)
SuccessIsWhole ==
  server = "upload" /\ success /\ ~misread /\ OnlyClient(session) =>
    Split \/ socket = Connection(session, "file")

(***************************************************************************)
(* A request of an only client none of whose rests is read as a message is *)
(* answered, and its result sent, unless an end of the connection is gone. *)
(***************************************************************************)
RequestsAnswered ==
  \A c \in Clients :
    [](OnlyClient(c) /\ ~misread) =>
      (pc[c] \in {"await", "fetch", "reading"} ~> pc[c] \in {"ready", "gone"})
=============================================================================
