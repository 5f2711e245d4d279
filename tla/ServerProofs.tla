---------------------------- MODULE ServerProofs ----------------------------
(***************************************************************************)
(* Proofs of the safety invariants of SocketServer, for any clients and    *)
(* any bounds.                                                             *)
(*                                                                         *)
(* A client's messages: of a request, the server's work on it and the      *)
(* reply, at most one is there at a time (Protocol).  A client's result    *)
(* connection is the only one it has (Results).  And as long as nobody     *)
(* else has connected, the backlog holds only what the server is about to  *)
(* ask for (Alone).  Protocol and Alone end when the rest of a split       *)
(* message is read as a message: then the server answers what no client    *)
(* asked, until the process ends.                                          *)
(***************************************************************************)
EXTENDS SocketServer, SequenceTheorems, TLAPS

Words    == Requests \cup {"rest"}
Replies  == UNION {Answers(k) : k \in Requests}
Sockets  == [from : Clients, role : Roles]
FileRoles == {"file", "cut file"}

(***************************************************************************)
(* The types of what travels, and who can have sent it.                    *)
(***************************************************************************)
WireTypes ==
  /\ backlog \in Seq(Sockets)
  /\ socket \in Sockets \cup {NoSocket}
  /\ inbox \in [Clients -> Seq(Words)]
  /\ replies \in [Clients -> Seq(Replies)]
  /\ faults \in Nat

Known ==
  /\ session # Nobody => ~At(session, "new")
  /\ \A i \in DOMAIN backlog : ~At(backlog[i].from, "new")
  /\ socket # NoSocket => ~At(socket.from, "new")

(***************************************************************************)
(* The request of a client is still in its inbox, being served, or         *)
(* answered.                                                               *)
(***************************************************************************)
Pending(c)  == inbox[c] \in {<<want[c]>>, <<"rest", want[c]>>}
Served(c)   == session = c /\ server \in {"accept file", "recv file"}
Answered(c) == replies[c] # <<>>

Conversation(c) ==
  /\ inbox[c] \in {<<>>, <<"rest">>, <<want[c]>>, <<"rest", want[c]>>}
  /\ ~At(c, "gone") =>
       /\ replies[c] \in {<<>>} \cup {<<r>> : r \in Answers(want[c])}
       /\ Served(c) => want[c] = "FILE_REQUEST" /\ ~Pending(c)
       /\ Answered(c) => ~Pending(c) /\ ~Served(c)
       /\ Pending(c) \/ Served(c) \/ Answered(c) => pc[c] \in {"file", "await"}

Protocol == \A c \in Clients : Conversation(c)

(***************************************************************************)
(* A result connection is that of a client that waits for its result, or   *)
(* is gone, and the only one of its client.                                *)
(***************************************************************************)
Reader(s) == s.role = "result" => pc[s.from] \in {"reading", "gone"}

Results ==
  /\ \A i \in DOMAIN backlog : Reader(backlog[i])
  /\ socket # NoSocket => Reader(socket)
  /\ \A i, j \in DOMAIN backlog :
       backlog[i].role = "result" /\ backlog[j].role = "result" /\ backlog[i].from = backlog[j].from
         => i = j
  /\ \A i \in DOMAIN backlog :
       backlog[i].role = "result" /\ socket.role = "result" => backlog[i].from # socket.from

(***************************************************************************)
(* With an only client c, before and after it is accepted.                 *)
(***************************************************************************)
FileDue(c) == inbox[c] \in {<<"FILE_REQUEST">>, <<"rest", "FILE_REQUEST">>}

Queue(c, roles) == {<<>>} \cup {<<Connection(c, r)>> : r \in roles}

Waiting(c) ==
  /\ pc[c] \in {"new", "ready", "file", "await", "gone"}
  /\ replies[c] = <<>> /\ (At(c, "new") => inbox[c] = <<>>)
  /\ \/ backlog = <<>> /\ pc[c] \in {"new", "gone"}
     \/ backlog = <<Connection(c, "message")>> /\ ~At(c, "new") /\ (At(c, "file") => FileDue(c))
     \/ /\ \E r \in FileRoles : backlog = <<Connection(c, "message"), Connection(c, r)>>
        /\ FileDue(c) /\ pc[c] \notin {"new", "file"}

Accepted(c) ==
  /\ CASE server = "recv" \/ server = "upload" ->
            IF FileDue(c) THEN backlog \in Queue(c, FileRoles) ELSE backlog = <<>>
       [] server = "accept file" -> backlog \in Queue(c, FileRoles) /\ ~FileDue(c)
       [] server = "accept result" -> backlog \in Queue(c, {"result"}) /\ ~FileDue(c)
       [] OTHER -> backlog = <<>> /\ ~FileDue(c)
  /\ server = "recv file" => \E r \in FileRoles : socket = Connection(c, r)
  /\ server = "send result" => socket = Connection(c, "result")
  /\ At(c, "file") => backlog = <<>> /\ (FileDue(c) \/ server = "accept file")
  /\ At(c, "fetch") => backlog = <<>> /\ server = "accept result"
  /\ server = "accept result" =>
       \/ pc[c] \in {"fetch", "reading", "gone"}
       \/ At(c, "await") /\ replies[c] = <<"SQL_SUCCESS">>
  /\ replies[c] = <<"SQL_SUCCESS">> /\ ~At(c, "gone") => server = "accept result" /\ backlog = <<>>

Solitude(c) ==
  CASE server = "exited" -> backlog = <<>> /\ pc[c] \in {"new", "gone"} /\ inbox[c] = <<>> /\ replies[c] = <<>>
    [] server = "accept" -> Waiting(c)
    [] OTHER -> session = c => Accepted(c)

Alone == \A c \in Clients : OnlyClient(c) => Solitude(c)

ServerInv ==
  /\ TypeOK /\ WireTypes /\ Known /\ Results
  /\ ~misread => Protocol /\ Alone
  /\ SuccessIsWhole

-----------------------------------------------------------------------------
(***************************************************************************)
(* Short queues, as the clients and the server build and consume them.     *)
(***************************************************************************)
LEMMA ShortSequences ==
  ASSUME NEW a, NEW b
  PROVE  /\ Tail(<<a>>) = <<>> /\ Tail(<<a, b>>) = <<b>>
         /\ Head(<<a>>) = a /\ Head(<<a, b>>) = a
         /\ Append(<<>>, a) = <<a>> /\ Append(<<a>>, b) = <<a, b>>
         /\ <<a>> # <<>> /\ <<a, b>> # <<>>
         /\ <<a>> \o <<>> = <<a>>
         /\ Len(<<a>>) = 1 /\ Len(<<a, b>>) = 2
<1>1. Append(<<a>>, b) = <<a, b>>
  <2>1. <<a>> \in Seq({a, b}) /\ <<a, b>> \in Seq({a, b})
    OBVIOUS
  <2>2. /\ Append(<<a>>, b) \in Seq({a, b}) /\ Len(Append(<<a>>, b)) = 2
        /\ Append(<<a>>, b)[1] = a /\ Append(<<a>>, b)[2] = b
    BY <2>1
  <2>3. \A i \in 1 .. 2 : Append(<<a>>, b)[i] = <<a, b>>[i]
    BY <2>2
  <2> QED BY <2>1, <2>2, <2>3, SeqEqual
<1>2. Tail(<<a>>) = <<>>
  OBVIOUS
<1>3. Tail(<<a, b>>) = <<b>>
  OBVIOUS
<1>4. /\ Head(<<a>>) = a /\ Head(<<a, b>>) = a
      /\ Len(<<a>>) = 1 /\ Len(<<a, b>>) = 2
  OBVIOUS
<1>5. <<a>> # <<>> /\ <<a, b>> # <<>>
  OBVIOUS
<1>6. <<a>> \o <<>> = <<a>>
  OBVIOUS
<1>7. Append(<<>>, a) = <<a>>
  OBVIOUS
<1> QED BY <1>1, <1>2, <1>3, <1>4, <1>5, <1>6, <1>7

(***************************************************************************)
(* The head and the tail of a queue that is not empty.                     *)
(***************************************************************************)
LEMMA QueueFront ==
  ASSUME NEW S, NEW q \in Seq(S), q # <<>>
  PROVE  /\ Head(q) \in S /\ Head(q) = q[1] /\ 1 \in DOMAIN q
         /\ Tail(q) \in Seq(S) /\ Len(Tail(q)) = Len(q) - 1
         /\ DOMAIN Tail(q) = 1 .. (Len(q) - 1) /\ DOMAIN q = 1 .. Len(q)
         /\ \A i \in DOMAIN Tail(q) : i + 1 \in DOMAIN q /\ Tail(q)[i] = q[i + 1]
OBVIOUS

(***************************************************************************)
(* The back of a queue that something is appended to.                      *)
(***************************************************************************)
LEMMA QueueBack ==
  ASSUME NEW S, NEW q \in Seq(S), NEW e \in S
  PROVE  /\ Append(q, e) \in Seq(S) /\ Len(Append(q, e)) = Len(q) + 1
         /\ DOMAIN Append(q, e) = 1 .. (Len(q) + 1) /\ DOMAIN q = 1 .. Len(q)
         /\ \A i \in DOMAIN q : Append(q, e)[i] = q[i]
         /\ Append(q, e)[Len(q) + 1] = e
         /\ Append(q, e) # <<>>
OBVIOUS

(***************************************************************************)
(* Short queues are equal when their elements are.                         *)
(***************************************************************************)
LEMMA ShortDistinct ==
  ASSUME NEW a, NEW b, NEW x, NEW y
  PROVE  /\ <<a>> # <<>> /\ <<a, b>> # <<>> /\ <<a>> # <<x, y>>
         /\ <<a>> = <<x>> => a = x
         /\ <<a, b>> = <<x, y>> => a = x /\ b = y
<1>1. <<a>> # <<>> /\ <<a, b>> # <<>>
  OBVIOUS
<1>2. <<a>> # <<x, y>>
  <2>1. Len(<<a>>) = 1 /\ Len(<<x, y>>) = 2
    OBVIOUS
  <2> QED BY <2>1
<1>3. <<a>> = <<x>> => a = x
  OBVIOUS
<1>4. <<a, b>> = <<x, y>> => a = x /\ b = y
  OBVIOUS
<1> QED BY <1>1, <1>2, <1>3, <1>4

(***************************************************************************)
(* A data connection taken from the backlog, and a reply that fits.        *)
(***************************************************************************)
LEMMA NoSocketIsNone == NoSocket \notin Sockets /\ \A c \in Clients, r \in Roles : Connection(c, r) \in Sockets
BY ServerAssumption DEF NoSocket, Sockets, Connection

(***************************************************************************)
(* Who opened a connection that is queued, and for what.                   *)
(***************************************************************************)
LEMMA QueuedSocket ==
  ASSUME NEW q \in Seq(Sockets)
  PROVE  \A i \in DOMAIN q : q[i] \in Sockets /\ q[i].from \in Clients /\ q[i].role \in Roles
<1>1. \A i \in DOMAIN q : q[i] \in Sockets
  OBVIOUS
<1>2. \A k \in Sockets : k.from \in Clients /\ k.role \in Roles
  BY DEF Sockets
<1> QED BY <1>1, <1>2

(***************************************************************************)
(* The end of the process leaves everything well-formed.                   *)
(***************************************************************************)
LEMMA ExitTypes ==
  ASSUME TypeOK, WireTypes, Exit, faults' \in Nat
  PROVE  TypeOK' /\ WireTypes'
<1>1. TypeOK'
  <2>1. Len(backlog') <= BacklogSize /\ DOMAIN backlog' = {}
    BY ServerAssumption DEF Exit
  <2>2. pc' \in [Clients -> {"new", "ready", "file", "await", "fetch", "reading", "gone"}]
    BY DEF Exit, At
  <2>3. /\ server' = "exited" /\ session' = Nobody /\ socket' = NoSocket
        /\ success' \in BOOLEAN /\ misread' \in BOOLEAN
    BY DEF Exit
  <2>4. want' \in [Clients -> Requests] /\ asked' \in 0 .. MaxRequests
    BY DEF Exit, TypeOK
  <2> QED BY <2>1, <2>2, <2>3, <2>4 DEF TypeOK
<1>2. WireTypes'
  BY <1>1 DEF Exit, WireTypes
<1> QED BY <1>1, <1>2

(***************************************************************************)
(* So do the steps of the clients ...                                      *)
(***************************************************************************)
LEMMA ClientTypes ==
  ASSUME TypeOK, WireTypes, NEW c \in Clients,
         Dial(c) \/ SendFile(c) \/ GetReply(c) \/ FetchResult(c) \/ HangUp(c)
           \/ \E k \in Requests : Request(c, k)
  PROVE  TypeOK' /\ WireTypes'
<1>1. ASSUME NEW role \in Roles, Open(c, role), NEW place, Go(c, place),
             place \in {"ready", "await", "reading"},
             UNCHANGED faults \/ Fault
      PROVE  TypeOK' /\ WireTypes'
  <2>1. /\ backlog' = Append(backlog, Connection(c, role)) /\ Len(backlog) < BacklogSize
        /\ UNCHANGED <<server, session, socket, success, want, asked, inbox, replies, misread>>
        /\ pc' = [pc EXCEPT ![c] = place]
    BY <1>1 DEF Open, Go
  <2>2. backlog \in Seq(Sockets) /\ Connection(c, role) \in Sockets
    BY NoSocketIsNone DEF WireTypes
  <2>3. backlog' \in Seq(Sockets) /\ Len(backlog') <= BacklogSize
    BY <2>1, <2>2, QueueBack, ServerAssumption
  <2>4. \A i \in DOMAIN backlog' : backlog'[i].from \in Clients /\ backlog'[i].role \in Roles
    BY <2>3, QueuedSocket
  <2>5. faults' \in Nat
    BY <1>1 DEF Fault, WireTypes
  <2>6. TypeOK'
    BY <1>1, <2>1, <2>3, <2>4 DEF TypeOK
  <2> QED BY <2>1, <2>3, <2>5, <2>6 DEF WireTypes
<1>2. CASE Dial(c)
  BY <1>1, <1>2 DEF Dial, Roles
<1>3. CASE SendFile(c)
  BY <1>1, <1>3 DEF SendFile, Roles
<1>4. CASE FetchResult(c)
  BY <1>1, <1>4 DEF FetchResult, Roles
<1>5. CASE GetReply(c)
  <2>1. replies' \in [Clients -> Seq(Replies)]
    BY <1>5, QueueFront DEF GetReply, WireTypes
  <2> QED BY <1>5, <2>1 DEF GetReply, Go, TypeOK, WireTypes
<1>6. CASE HangUp(c)
  <2>1. /\ UNCHANGED <<server, session, socket, success, want, asked, backlog, inbox, replies, misread>>
        /\ pc' = [pc EXCEPT ![c] = "gone"] /\ faults' \in Nat
    BY <1>6 DEF HangUp, Go, Fault, WireTypes, wires
  <2>2. TypeOK'
    BY <2>1 DEF TypeOK
  <2> QED BY <2>1, <2>2 DEF WireTypes
<1>7. ASSUME NEW k \in Requests, Request(c, k) PROVE TypeOK' /\ WireTypes'
  <2>1. inbox' \in [Clients -> Seq(Words)]
    BY <1>7, QueueBack DEF Request, WireTypes, Words
  <2>2. asked' \in 0 .. MaxRequests
    <3>1. asked < MaxRequests /\ asked' = asked + 1
      BY <1>7 DEF Request
    <3>2. asked \in 0 .. MaxRequests /\ MaxRequests \in Nat
      BY ServerAssumption DEF TypeOK
    <3> QED BY <3>1, <3>2
  <2>3. /\ pc' = [pc EXCEPT ![c] = IF k = "FILE_REQUEST" THEN "file" ELSE "await"]
        /\ want' = [want EXCEPT ![c] = k]
        /\ UNCHANGED <<server, session, socket, success, backlog, replies, misread, faults>>
    BY <1>7 DEF Request, Go
  <2>4. /\ pc' \in [Clients -> {"new", "ready", "file", "await", "fetch", "reading", "gone"}]
        /\ want' \in [Clients -> Requests]
    BY <2>3 DEF TypeOK
  <2>5. TypeOK'
    BY <2>2, <2>3, <2>4 DEF TypeOK
  <2> QED BY <2>1, <2>3, <2>5 DEF WireTypes
<1> QED BY <1>2, <1>3, <1>4, <1>5, <1>6, <1>7

(***************************************************************************)
(* ... and of the server.  First what recvMsg takes.                       *)
(***************************************************************************)
LEMMA ReceiveTypes ==
  ASSUME TypeOK, WireTypes, NEW k, Receive(k)
  PROVE  /\ session \in Clients /\ server = "recv"
         /\ inbox[session] \in Seq(Words) /\ inbox[session] # <<>>
         /\ Head(inbox[session]) \in {k, "rest"}
         /\ inbox' \in [Clients -> Seq(Words)] /\ faults' \in Nat /\ misread' \in BOOLEAN
<1>1. /\ session \in Clients /\ server = "recv" /\ inbox[session] # <<>>
      /\ Head(inbox[session]) \in {k, "rest"}
  BY DEF Receive, Reads, TypeOK
<1>2. inbox[session] \in Seq(Words) /\ <<"rest">> \in Seq(Words)
  BY <1>1 DEF WireTypes, Words
<1>3. \A n \in DOMAIN inbox[session] :
        /\ SubSeq(inbox[session], n + 1, Len(inbox[session])) \in Seq(Words)
        /\ <<"rest">> \o SubSeq(inbox[session], n + 1, Len(inbox[session])) \in Seq(Words)
  <2> SUFFICES ASSUME NEW n \in DOMAIN inbox[session]
               PROVE  /\ SubSeq(inbox[session], n + 1, Len(inbox[session])) \in Seq(Words)
                      /\ <<"rest">> \o SubSeq(inbox[session], n + 1, Len(inbox[session])) \in Seq(Words)
    OBVIOUS
  <2>1. n \in Nat \ {0} /\ Len(inbox[session]) \in Nat
    BY <1>2
  <2>2. SubSeq(inbox[session], n + 1, Len(inbox[session])) \in Seq(Words)
    BY <1>2, <2>1
  <2> QED BY <1>2, <2>2
<1>4. inbox' \in [Clients -> Seq(Words)]
  <2>1. \E q \in Seq(Words) : inbox' = [inbox EXCEPT ![session] = q]
    BY <1>3 DEF Receive
  <2> QED BY <2>1 DEF WireTypes
<1>5. faults' \in Nat
  <2>1. faults' = faults \/ faults' = faults + 1
    BY DEF Receive, Fault
  <2> QED BY <2>1 DEF WireTypes
<1>6. misread' \in BOOLEAN
  BY DEF Receive, Split, TypeOK
<1> QED BY <1>1, <1>2, <1>4, <1>5, <1>6

(***************************************************************************)
(* Every step of the server keeps the types.                               *)
(***************************************************************************)
LEMMA ServerTypes ==
  ASSUME TypeOK, WireTypes, ServerStep
  PROVE  TypeOK' /\ WireTypes'
<1> USE DEF clients, wires
<1>1. ASSUME NEW k \in Requests, NEW r \in Answers(k), Answer(k, r), server' \in {"recv", "accept result"}
      PROVE  TypeOK' /\ WireTypes'
  <2>1. /\ session \in Clients /\ server = "recv" /\ inbox' \in [Clients -> Seq(Words)]
        /\ faults' \in Nat /\ misread' \in BOOLEAN
    BY <1>1, ReceiveTypes DEF Answer
  <2>2. replies' \in [Clients -> Seq(Replies)]
    <3>1. replies \in [Clients -> Seq(Replies)] /\ replies[session] \in Seq(Replies)
      BY <2>1 DEF WireTypes
    <3>2. r \in Replies
      BY DEF Replies
    <3>3. Append(replies[session], r) \in Seq(Replies)
      BY <3>1, <3>2, QueueBack
    <3>4. replies' = [replies EXCEPT ![session] = Append(replies[session], r)]
      BY <1>1 DEF Answer, Reply
    <3> QED BY <2>1, <3>1, <3>3, <3>4
  <2> QED BY <1>1, <2>1, <2>2, ServerAssumption DEF Answer, TypeOK, WireTypes
<1>2. CASE HandleConnection
  <2>1. PICK r \in Answers("CONNECTION_REQUEST") : Answer("CONNECTION_REQUEST", r) /\ UNCHANGED server
    BY <1>2 DEF HandleConnection, AnswerConnection
  <2> QED BY <1>1, <2>1, ReceiveTypes DEF Requests, Answer
<1>3. CASE HandleSql
  <2>1. \A r \in {"SQL_SUCCESS", "SQL_FAILED"} : r \in Answers("SQL_REQUEST")
    BY DEF Answers
  <2> QED BY <1>1, <1>3, <2>1, ReceiveTypes DEF HandleSql, Requests, Answer
<1>4. CASE HandleOther
  BY <1>1, <1>4, ReceiveTypes DEF HandleOther, Requests, Answer, Answers
<1>5. CASE HandleFile
  BY <1>5, ReceiveTypes, ServerAssumption DEF HandleFile, TypeOK, WireTypes
<1>6. CASE AcceptClient \/ AcceptData
  <2>1. backlog # <<>> /\ backlog' = Tail(backlog)
    BY <1>6 DEF AcceptClient, AcceptData
  <2>2. Head(backlog) \in Sockets /\ backlog' \in Seq(Sockets) /\ Len(backlog') <= BacklogSize
    <3>1. Head(backlog) \in Sockets /\ Tail(backlog) \in Seq(Sockets) /\ Len(Tail(backlog)) = Len(backlog) - 1
      BY <2>1, QueueFront DEF WireTypes
    <3>2. Len(backlog) \in Nat /\ Len(backlog) <= BacklogSize
      <4>1. Len(backlog) \in Nat
        BY DEF WireTypes
      <4>2. Len(backlog) <= BacklogSize
        BY DEF TypeOK
      <4> QED BY <4>1, <4>2
    <3> QED BY <2>1, <3>1, <3>2, ServerAssumption
  <2>3. \A i \in DOMAIN backlog' : backlog'[i].from \in Clients /\ backlog'[i].role \in Roles
    BY <2>2, QueuedSocket
  <2>4. CASE AcceptClient
    <3>1. Head(backlog).from \in Clients
      BY <2>2 DEF Sockets
    <3>2. /\ server' = "recv" /\ session' = Head(backlog).from
          /\ UNCHANGED <<socket, success, pc, want, asked, inbox, replies, misread, faults>> /\ server = "accept"
      BY <2>4 DEF AcceptClient
    <3>3. TypeOK'
      BY <2>2, <2>3, <3>1, <3>2, ServerAssumption DEF TypeOK
    <3> QED BY <2>2, <3>2, <3>3 DEF WireTypes
  <2>5. CASE AcceptData
    BY <2>2, <2>3, <2>5, NoSocketIsNone DEF AcceptData, TypeOK, WireTypes
  <2> QED BY <1>6, <2>4, <2>5
<1>7. CASE ReceiveFile
  <2>1. success' \in BOOLEAN /\ faults' \in Nat
    <3>1. Outcomes(socket) \subseteq BOOLEAN
      BY DEF Outcomes
    <3>2. success' \in BOOLEAN
      BY <1>7, <3>1 DEF ReceiveFile
    <3>3. faults' \in Nat
      <4>1. faults' = faults \/ faults' = faults + 1
        BY <1>7 DEF ReceiveFile, Fault
      <4>2. faults \in Nat
        BY DEF WireTypes
      <4> QED BY <4>1, <4>2
    <3> QED BY <3>2, <3>3
  <2>2. {"FILE_RECEIVE_SUCCESS", "FILE_RECEIVE_FAILED"} \subseteq Replies
    BY DEF Replies, Answers, Requests
  <2>3. replies' \in [Clients -> Seq(Replies)]
    BY <1>7, <2>2, QueueBack DEF ReceiveFile, Reply, WireTypes, TypeOK
  <2> QED BY <1>7, <2>1, <2>3, ServerAssumption DEF ReceiveFile, TypeOK, WireTypes
<1>8. CASE Upload
  BY <1>8, ServerAssumption DEF Upload, TypeOK, WireTypes
<1>9. CASE SendResult
  <2>1. pc' \in [Clients -> {"new", "ready", "file", "await", "fetch", "reading", "gone"}]
    BY <1>9 DEF SendResult, Go, TypeOK
  <2> QED BY <1>9, <2>1, ServerAssumption DEF SendResult, Go, TypeOK, WireTypes
<1>10. CASE HandleRest \/ ServiceDies
  <2>1. Exit /\ (faults' = faults \/ faults' = faults + 1)
    BY <1>10 DEF HandleRest, ServiceDies, Fault
  <2>2. faults' \in Nat
    BY <2>1 DEF WireTypes
  <2> QED BY <2>1, <2>2, ExitTypes
<1> QED BY <1>2, <1>3, <1>4, <1>5, <1>6, <1>7, <1>8, <1>9, <1>10 DEF ServerStep

(***************************************************************************)
(* Every step keeps the types.                                             *)
(***************************************************************************)
LEMMA TypeStep ==
  ASSUME TypeOK, WireTypes, [Next]_vars
  PROVE  TypeOK' /\ WireTypes'
<1>1. CASE Restart
  BY <1>1 DEF Restart, TypeOK, WireTypes, clients, wires
<1>2. CASE UNCHANGED vars
  BY <1>2 DEF vars, TypeOK, WireTypes, clients, wires
<1> QED BY <1>1, <1>2, ServerTypes, ClientTypes DEF Next

-----------------------------------------------------------------------------
(***************************************************************************)
(* What a step does to the place of a client: it moves one client only, or *)
(* all of them to the end.                                                 *)
(***************************************************************************)
LEMMA NeverNewAgain ==
  ASSUME TypeOK, WireTypes, [Next]_vars, NEW d \in Clients, pc'[d] = "new"
  PROVE  At(d, "new")
<1> USE DEF clients, wires, At
<1>1. CASE Restart \/ UNCHANGED vars
  BY <1>1 DEF Restart, vars
<1>2. ASSUME NEW c \in Clients, NEW place, Go(c, place), place # "new" PROVE At(d, "new")
  BY <1>2 DEF Go, TypeOK
<1>3. ASSUME NEW c \in Clients,
             Dial(c) \/ SendFile(c) \/ GetReply(c) \/ FetchResult(c) \/ HangUp(c)
               \/ \E k \in Requests : Request(c, k)
      PROVE  At(d, "new")
  BY <1>2, <1>3 DEF Dial, SendFile, GetReply, FetchResult, HangUp, Request
<1>4. CASE HandleRest \/ ServiceDies
  BY <1>4 DEF HandleRest, ServiceDies, Exit
<1>5. CASE SendResult
  BY <1>5 DEF SendResult, Go, TypeOK
<1>6. CASE HandleConnection \/ HandleFile \/ HandleSql \/ HandleOther
  BY <1>6 DEF HandleConnection, AnswerConnection, HandleFile, HandleSql, HandleOther, Answer
<1>7. CASE AcceptClient \/ AcceptData \/ ReceiveFile \/ Upload
  BY <1>7 DEF AcceptClient, AcceptData, ReceiveFile, Upload
<1> QED BY <1>1, <1>3, <1>4, <1>5, <1>6, <1>7 DEF Next, ServerStep

(***************************************************************************)
(* How a step changes the backlog: it takes its head, appends a connection *)
(* of a client that is not new, or empties it.                             *)
(***************************************************************************)
LEMMA BacklogStep ==
  ASSUME TypeOK, WireTypes, [Next]_vars
  PROVE  \/ UNCHANGED <<backlog, socket, session>>
         \/ UNCHANGED <<backlog, session>> /\ socket' = NoSocket
         \/ backlog' = <<>> /\ socket' = NoSocket /\ session' = Nobody
         \/ /\ backlog # <<>> /\ backlog' = Tail(backlog)
            /\ \/ UNCHANGED socket /\ session' = Head(backlog).from
               \/ UNCHANGED session /\ socket' = Head(backlog)
         \/ /\ UNCHANGED <<socket, session>>
            /\ \E c \in Clients, role \in Roles :
                 /\ backlog' = Append(backlog, Connection(c, role))
                 /\ role = "result" => At(c, "fetch")
                 /\ pc'[c] = IF role = "result" THEN "reading"
                             ELSE IF role = "message" THEN "ready" ELSE "await"
<1> USE DEF clients, wires
<1>1. CASE Restart \/ UNCHANGED vars
  BY <1>1 DEF Restart, vars
<1>2. ASSUME NEW c \in Clients, GetReply(c) \/ HangUp(c) \/ \E k \in Requests : Request(c, k)
      PROVE  UNCHANGED <<backlog, socket, session>>
  BY <1>2 DEF GetReply, HangUp, Request
<1>3. ASSUME NEW c \in Clients, Dial(c) \/ SendFile(c) \/ FetchResult(c)
      PROVE  /\ UNCHANGED <<socket, session>>
             /\ \E role \in Roles :
                  /\ backlog' = Append(backlog, Connection(c, role))
                  /\ role = "result" => At(c, "fetch")
                  /\ pc'[c] = IF role = "result" THEN "reading"
                              ELSE IF role = "message" THEN "ready" ELSE "await"
  BY <1>3 DEF Dial, SendFile, FetchResult, Open, Go, TypeOK, Roles
<1>4. CASE HandleRest \/ ServiceDies
  BY <1>4 DEF HandleRest, ServiceDies, Exit
<1>5. CASE HandleConnection \/ HandleFile \/ HandleSql \/ HandleOther \/ ReceiveFile
  BY <1>5 DEF HandleConnection, AnswerConnection, HandleFile, HandleSql, HandleOther, Answer, ReceiveFile
<1>6. CASE SendResult \/ Upload
  BY <1>6 DEF SendResult, Upload
<1>7. CASE AcceptClient \/ AcceptData
  BY <1>7 DEF AcceptClient, AcceptData
<1> QED BY <1>1, <1>2, <1>3, <1>4, <1>5, <1>6, <1>7 DEF Next, ServerStep

(***************************************************************************)
(* Only clients that have connected are known to the server.               *)
(***************************************************************************)
LEMMA KnownStep ==
  ASSUME TypeOK, WireTypes, Known, [Next]_vars
  PROVE  Known'
<1> USE DEF At
<1>1. TypeOK' /\ WireTypes'
  BY TypeStep
<1>2. /\ \A i \in DOMAIN backlog : backlog[i].from \in Clients /\ ~At(backlog[i].from, "new")
      /\ session # Nobody => session \in Clients /\ ~At(session, "new")
      /\ socket # NoSocket => socket.from \in Clients /\ ~At(socket.from, "new")
      /\ backlog \in Seq(Sockets)
  BY DEF Known, TypeOK, WireTypes, Sockets
<1>3. \A d \in Clients : pc[d] # "new" => pc'[d] # "new"
  BY NeverNewAgain
<1>4. CASE UNCHANGED <<backlog, socket, session>>
  BY <1>2, <1>3, <1>4 DEF Known
<1>5. CASE UNCHANGED <<backlog, session>> /\ socket' = NoSocket
  BY <1>2, <1>3, <1>5 DEF Known
<1>6. CASE backlog' = <<>> /\ socket' = NoSocket /\ session' = Nobody
  BY <1>6 DEF Known
<1>7. CASE /\ backlog # <<>> /\ backlog' = Tail(backlog)
           /\ \/ UNCHANGED socket /\ session' = Head(backlog).from
              \/ UNCHANGED session /\ socket' = Head(backlog)
  <2>1. /\ Head(backlog) = backlog[1] /\ 1 \in DOMAIN backlog
        /\ \A i \in DOMAIN backlog' : i + 1 \in DOMAIN backlog /\ backlog'[i] = backlog[i + 1]
    BY <1>2, <1>7, QueueFront
  <2>2. \A i \in DOMAIN backlog' : pc'[backlog'[i].from] # "new"
    BY <1>2, <1>3, <2>1
  <2>3. pc'[Head(backlog).from] # "new"
    BY <1>2, <1>3, <2>1
  <2> QED BY <1>2, <1>3, <1>7, <2>2, <2>3 DEF Known
<1>8. ASSUME UNCHANGED <<socket, session>>, NEW c \in Clients, NEW role \in Roles,
             backlog' = Append(backlog, Connection(c, role)), pc'[c] # "new"
      PROVE  Known'
  <2>1. \A i \in DOMAIN backlog' : pc'[backlog'[i].from] # "new"
    <3>1. /\ \A i \in DOMAIN backlog : backlog'[i] = backlog[i]
          /\ \A i \in DOMAIN backlog' : i \in DOMAIN backlog \/ backlog'[i] = Connection(c, role)
      BY <1>2, <1>8, QueueBack, NoSocketIsNone
    <3>2. Connection(c, role).from = c /\ pc'[c] # "new"
      BY <1>8 DEF Connection
    <3> QED BY <1>2, <1>3, <3>1, <3>2
  <2>2. session # Nobody => pc'[session] # "new"
    BY <1>2, <1>3
  <2>3. socket # NoSocket => pc'[socket.from] # "new"
    BY <1>2, <1>3
  <2> QED BY <1>8, <2>1, <2>2, <2>3 DEF Known
<1> QED BY <1>4, <1>5, <1>6, <1>7, <1>8, BacklogStep

(***************************************************************************)
(* A client with a result connection stays where it is until the server    *)
(* has sent it the rows, or one of them is gone.                           *)
(***************************************************************************)
LEMMA ReaderStays ==
  ASSUME TypeOK, WireTypes, [Next]_vars, NEW d \in Clients, pc[d] \in {"reading", "gone"}
  PROVE  pc'[d] \in {"reading", "gone"} \/ (SendResult /\ socket = Connection(d, "result"))
<1> USE DEF clients, wires, At
<1>1. CASE Restart \/ UNCHANGED vars
  BY <1>1 DEF Restart, vars
<1>2. ASSUME NEW c \in Clients,
             Dial(c) \/ SendFile(c) \/ GetReply(c) \/ FetchResult(c) \/ HangUp(c)
               \/ \E k \in Requests : Request(c, k)
      PROVE  pc'[d] \in {"reading", "gone"}
  BY <1>2 DEF Dial, SendFile, GetReply, FetchResult, HangUp, Request, Go, TypeOK
<1>3. CASE HandleRest \/ ServiceDies
  BY <1>3 DEF HandleRest, ServiceDies, Exit
<1>4. CASE SendResult
  <2>1. socket \in Sockets
    BY <1>4 DEF SendResult, Go, TypeOK, WireTypes
  <2>2. socket.from = d /\ socket.role = "result" => socket = Connection(d, "result")
    BY <2>1 DEF Sockets, Connection
  <2>3. CASE socket.from = d /\ socket.role # "result"
    BY <1>4, <2>1, <2>3 DEF SendResult, Go, TypeOK
  <2>4. CASE socket.from # d
    BY <1>4, <2>1, <2>4 DEF SendResult, Go, TypeOK
  <2> QED BY <1>4, <2>2, <2>3, <2>4
<1>5. CASE HandleConnection \/ HandleFile \/ HandleSql \/ HandleOther
  BY <1>5 DEF HandleConnection, AnswerConnection, HandleFile, HandleSql, HandleOther, Answer
<1>6. CASE AcceptClient \/ AcceptData \/ ReceiveFile \/ Upload
  BY <1>6 DEF AcceptClient, AcceptData, ReceiveFile, Upload
<1> QED BY <1>1, <1>2, <1>3, <1>4, <1>5, <1>6 DEF Next, ServerStep

(***************************************************************************)
(* A client has at most one result connection, and waits for the rows.     *)
(***************************************************************************)
LEMMA ResultsStep ==
  ASSUME TypeOK, WireTypes, Results, [Next]_vars
  PROVE  Results'
<1>1. TypeOK' /\ WireTypes'
  BY TypeStep
<1>2. /\ backlog \in Seq(Sockets) /\ NoSocket.role # "result"
      /\ \A i \in DOMAIN backlog : backlog[i].from \in Clients /\ backlog[i] \in Sockets
      /\ socket # NoSocket => socket.from \in Clients
  <2>1. backlog \in Seq(Sockets)
    BY DEF WireTypes
  <2>2. NoSocket.role # "result"
    BY DEF NoSocket
  <2>3. socket # NoSocket => socket.from \in Clients
    BY DEF WireTypes, Sockets
  <2> QED BY <2>1, <2>2, <2>3, QueuedSocket
<1>3. CASE SendResult
  <2>1. backlog' = backlog /\ socket' = NoSocket /\ socket # NoSocket
    BY <1>3 DEF SendResult, wires, TypeOK
  <2>2. ASSUME NEW i \in DOMAIN backlog, backlog[i].role = "result"
        PROVE  pc'[backlog[i].from] \in {"reading", "gone"}
    <3>1. pc[backlog[i].from] \in {"reading", "gone"} /\ socket # Connection(backlog[i].from, "result")
      BY <2>2 DEF Results, Reader, Connection
    <3> QED BY <1>2, <3>1, ReaderStays
  <2> QED BY <1>2, <2>1, <2>2 DEF Results, Reader
<1>4. CASE ~SendResult
  <2>1. \A d \in Clients : pc[d] \in {"reading", "gone"} => pc'[d] \in {"reading", "gone"}
    BY <1>4, ReaderStays
  <2>2. CASE UNCHANGED <<backlog, socket, session>>
    BY <1>2, <2>1, <2>2 DEF Results, Reader
  <2>3. CASE UNCHANGED <<backlog, session>> /\ socket' = NoSocket
    BY <1>2, <2>1, <2>3 DEF Results, Reader
  <2>4. CASE backlog' = <<>> /\ socket' = NoSocket /\ session' = Nobody
    BY <2>4 DEF Results
  <2>5. CASE /\ backlog # <<>> /\ backlog' = Tail(backlog)
             /\ \/ UNCHANGED socket
                \/ socket' = Head(backlog)
    <3>1. /\ \A i \in DOMAIN backlog' : i + 1 \in DOMAIN backlog /\ backlog'[i] = backlog[i + 1]
          /\ \A i \in DOMAIN backlog' : i \in Nat /\ i # 0
          /\ Head(backlog) = backlog[1] /\ 1 \in DOMAIN backlog
      BY <1>2, <2>5, QueueFront
    <3>2. \A i \in DOMAIN backlog' : backlog'[i].role = "result" => pc'[backlog'[i].from] \in {"reading", "gone"}
      BY <1>2, <2>1, <3>1 DEF Results, Reader
    <3>3. socket' # NoSocket /\ socket'.role = "result" => pc'[socket'.from] \in {"reading", "gone"}
      BY <1>2, <2>1, <2>5, <3>1 DEF Results, Reader
    <3>4. \A i, j \in DOMAIN backlog' :
            backlog'[i].role = "result" /\ backlog'[j].role = "result" /\ backlog'[i].from = backlog'[j].from
              => i = j
      <4>1. \A i, j \in DOMAIN backlog' :
              backlog'[i].role = "result" /\ backlog'[j].role = "result" /\ backlog'[i].from = backlog'[j].from
                => i + 1 = j + 1
        BY <3>1 DEF Results
      <4> QED BY <3>1, <4>1
    <3>5. \A i \in DOMAIN backlog' :
            backlog'[i].role = "result" /\ socket'.role = "result" => backlog'[i].from # socket'.from
      <4>1. \A i \in DOMAIN backlog' : i + 1 # 1
        BY <3>1
      <4> QED BY <2>5, <3>1, <4>1 DEF Results
    <3> QED BY <3>2, <3>3, <3>4, <3>5 DEF Results, Reader
  <2>6. ASSUME UNCHANGED <<socket, session>>, NEW c \in Clients, NEW role \in Roles,
               backlog' = Append(backlog, Connection(c, role)),
               role = "result" => At(c, "fetch"), role = "result" => pc'[c] = "reading"
        PROVE  Results'
    <3>1. /\ \A i \in DOMAIN backlog : backlog'[i] = backlog[i]
          /\ \A i \in DOMAIN backlog' : i \in DOMAIN backlog \/ i = Len(backlog) + 1
          /\ Len(backlog) + 1 \notin DOMAIN backlog
          /\ backlog'[Len(backlog) + 1] = Connection(c, role)
      BY <1>2, <2>6, QueueBack, NoSocketIsNone
    <3>2. Connection(c, role).from = c /\ Connection(c, role).role = role
      BY DEF Connection
    <3>3. role = "result" =>
            /\ \A i \in DOMAIN backlog : ~(backlog[i].role = "result" /\ backlog[i].from = c)
            /\ ~(socket # NoSocket /\ socket.role = "result" /\ socket.from = c)
      BY <2>6 DEF Results, Reader, At
    <3>4. \A i \in DOMAIN backlog' : backlog'[i].role = "result" => pc'[backlog'[i].from] \in {"reading", "gone"}
      BY <1>2, <2>1, <2>6, <3>1, <3>2 DEF Results, Reader
    <3>5. \A i \in DOMAIN backlog' :
            backlog'[i].role = "result" /\ socket'.role = "result" => backlog'[i].from # socket'.from
      BY <1>2, <2>6, <3>1, <3>2, <3>3 DEF Results
    <3>6. \A i, j \in DOMAIN backlog' :
            backlog'[i].role = "result" /\ backlog'[j].role = "result" /\ backlog'[i].from = backlog'[j].from
              => i = j
      BY <3>1, <3>2, <3>3 DEF Results
    <3>7. socket' # NoSocket /\ socket'.role = "result" => pc'[socket'.from] \in {"reading", "gone"}
      BY <1>2, <2>1, <2>6 DEF Results, Reader
    <3> QED BY <3>4, <3>5, <3>6, <3>7 DEF Results, Reader
  <2> QED BY <2>2, <2>3, <2>4, <2>5, <2>6, BacklogStep
<1> QED BY <1>3, <1>4

-----------------------------------------------------------------------------
(***************************************************************************)
(* No rest has been read before a step after which none has, unless the    *)
(* step is the end of the process.                                         *)
(***************************************************************************)
LEMMA MisreadStays ==
  ASSUME [Next]_vars, ~misread', misread
  PROVE  ServerStep /\ Exit
<1> USE DEF clients, wires
<1>1. CASE Restart \/ UNCHANGED vars
  BY <1>1 DEF Restart, vars
<1>2. ASSUME NEW c \in Clients,
             Dial(c) \/ SendFile(c) \/ GetReply(c) \/ FetchResult(c) \/ HangUp(c)
               \/ \E k \in Requests : Request(c, k)
      PROVE  FALSE
  BY <1>2 DEF Dial, SendFile, GetReply, FetchResult, HangUp, Request, Open
<1>3. ASSUME NEW k, Receive(k) PROVE FALSE
  BY <1>3 DEF Receive
<1>4. CASE ServerStep
  <2>1. CASE HandleRest \/ ServiceDies
    BY <1>4, <2>1 DEF HandleRest, ServiceDies
  <2>2. CASE HandleConnection \/ HandleFile \/ HandleSql \/ HandleOther
    BY <1>3, <2>2 DEF HandleConnection, AnswerConnection, HandleFile, HandleSql, HandleOther, Answer
  <2>3. CASE AcceptClient \/ AcceptData \/ ReceiveFile \/ Upload \/ SendResult
    BY <2>3 DEF AcceptClient, AcceptData, ReceiveFile, Upload, SendResult
  <2> QED BY <1>4, <2>1, <2>2, <2>3 DEF ServerStep
<1> QED BY <1>1, <1>2, <1>4 DEF Next

(***************************************************************************)
(* Of a client's inbox the server takes its last request, whole or in part,*)
(* unless it reads a rest.                                                 *)
(***************************************************************************)
LEMMA ReceiveOne ==
  ASSUME TypeOK, WireTypes, Protocol, NEW k \in Requests, Receive(k), ~misread'
  PROVE  /\ session \in Clients /\ server = "recv"
         /\ want[session] = k /\ inbox[session] = <<k>>
         /\ \/ inbox' = [inbox EXCEPT ![session] = <<>>]
            \/ inbox' = [inbox EXCEPT ![session] = <<"rest">>]
<1>1. /\ session \in Clients /\ server = "recv" /\ inbox[session] # <<>>
      /\ Head(inbox[session]) \in {k, "rest"}
  BY ReceiveTypes
<1>2. k # "rest" /\ Head(inbox[session]) = k
  BY <1>1 DEF Requests, Receive, Split
<1>3. inbox[session] = <<want[session]>> /\ want[session] = k
  BY <1>1, <1>2, ShortSequences DEF Protocol, Conversation
<1>4. \A n \in DOMAIN <<k>> : SubSeq(<<k>>, n + 1, Len(<<k>>)) = <<>>
  BY DEF Requests
<1>5. <<"rest">> \o <<>> = <<"rest">>
  BY ShortSequences
<1> QED BY <1>1, <1>3, <1>4, <1>5 DEF Receive

(***************************************************************************)
(* A client's inbox, outstanding reply and place stay in step when none of *)
(* them changes but the place, from one that owes nothing or to its end.   *)
(***************************************************************************)
LEMMA ConversationKept ==
  ASSUME NEW c \in Clients, Conversation(c),
         inbox'[c] = inbox[c], want'[c] = want[c], replies'[c] = replies[c],
         Served(c)' => Served(c),
         pc'[c] = pc[c] \/ pc'[c] = "gone" \/ (pc[c] \notin {"file", "await", "gone"})
           \/ (pc[c] = "file" /\ pc'[c] = "await")
  PROVE  Conversation(c)'
BY DEF Conversation, Pending, Answered, At

(***************************************************************************)
(* A step of a client keeps all conversations in step.                     *)
(***************************************************************************)
LEMMA ClientConversation ==
  ASSUME TypeOK, WireTypes, Protocol, NEW d \in Clients,
         Dial(d) \/ SendFile(d) \/ GetReply(d) \/ FetchResult(d) \/ HangUp(d)
           \/ \E k \in Requests : Request(d, k)
  PROVE  Protocol'
<1> USE DEF At, Go
<1> SUFFICES ASSUME NEW c \in Clients PROVE Conversation(c)'
  BY DEF Protocol
<1>1. Conversation(c)
  BY DEF Protocol
<1>2. CASE Dial(d) \/ SendFile(d) \/ FetchResult(d)
  BY <1>1, <1>2, ConversationKept DEF Dial, SendFile, FetchResult, Open, Served, TypeOK
<1>3. CASE HangUp(d)
  BY <1>1, <1>3, ConversationKept DEF HangUp, wires, Served, TypeOK
<1>4. CASE GetReply(d)
  <2>1. CASE c # d
    BY <1>1, <1>4, <2>1, ConversationKept DEF GetReply, Served, TypeOK, WireTypes
  <2>2. CASE c = d
    <3>1. At(c, "await") /\ replies[c] # <<>> /\ replies'[c] = Tail(replies[c])
          /\ pc'[c] \in {"fetch", "ready"}
          /\ UNCHANGED <<server, session, inbox, want>>
      BY <1>4, <2>2 DEF GetReply, TypeOK, WireTypes
    <3>2. replies'[c] = <<>>
      BY <1>1, <3>1, ShortSequences DEF Conversation
    <3>3. ~Pending(c) /\ ~Served(c)
      BY <1>1, <3>1 DEF Conversation, Answered
    <3> QED BY <1>1, <3>1, <3>2, <3>3 DEF Conversation, Pending, Served, Answered
  <2> QED BY <2>1, <2>2
<1>5. ASSUME NEW k \in Requests, Request(d, k) PROVE Conversation(c)'
  <2>1. CASE c # d
    BY <1>1, <1>5, <2>1, ConversationKept DEF Request, Served, TypeOK, WireTypes
  <2>2. CASE c = d
    <3>1. At(c, "ready") /\ inbox'[c] = Append(inbox[c], k) /\ want'[c] = k
          /\ pc'[c] \in {"file", "await"}
          /\ UNCHANGED <<server, session, replies>>
      BY <1>5, <2>2 DEF Request, TypeOK, WireTypes
    <3>2. replies[c] = <<>> /\ ~Served(c) /\ inbox[c] \in {<<>>, <<"rest">>}
      BY <1>1, <3>1 DEF Conversation, Pending, Answered
    <3>3. inbox'[c] \in {<<k>>, <<"rest", k>>}
      <4>1. Append(<<>>, k) = <<k>> /\ Append(<<"rest">>, k) = <<"rest", k>>
        BY ShortSequences
      <4> QED BY <3>1, <3>2, <4>1
    <3> QED BY <3>1, <3>2, <3>3 DEF Conversation, Pending, Served, Answered
  <2> QED BY <2>1, <2>2
<1> QED BY <1>2, <1>3, <1>4, <1>5

(***************************************************************************)
(* An answer takes the place of the request, also when data connections    *)
(* got mixed up.                                                           *)
(***************************************************************************)
LEMMA AnswerConversation ==
  ASSUME TypeOK, WireTypes, Protocol, NEW k \in Requests, NEW r \in Answers(k), Answer(k, r),
         server' \in {"recv", "accept result"}, ~misread'
  PROVE  Protocol'
<1> USE DEF At, clients
<1>1. /\ session \in Clients /\ server = "recv" /\ want[session] = k /\ inbox[session] = <<k>>
      /\ inbox'[session] \in {<<>>, <<"rest">>}
      /\ \A c \in Clients \ {session} : inbox'[c] = inbox[c] /\ replies'[c] = replies[c]
      /\ replies'[session] = Append(replies[session], r)
      /\ UNCHANGED <<pc, want, session>>
  BY ReceiveOne DEF Answer, Reply, WireTypes
<1> SUFFICES ASSUME NEW c \in Clients PROVE Conversation(c)'
  BY DEF Protocol
<1>2. Conversation(c)
  BY DEF Protocol
<1>3. CASE c # session
  BY <1>1, <1>2, <1>3, ConversationKept DEF Served
<1>4. CASE c = session
  <2>1. ~At(c, "gone") => replies[c] = <<>> /\ pc[c] \in {"file", "await"}
    BY <1>1, <1>2, <1>4 DEF Conversation, Pending, Answered
  <2>2. ~At(c, "gone") => replies'[c] = <<r>>
    BY <1>1, <1>4, <2>1, ShortSequences
  <2>3. inbox'[c] \notin {<<want[c]>>, <<"rest", want[c]>>}
    <3>1. inbox'[c] \in {<<>>, <<"rest">>}
      BY <1>1, <1>4
    <3>2. want[c] # "rest"
      BY <1>1, <1>4 DEF Requests
    <3> QED BY <3>1, <3>2, ShortDistinct
  <2> QED BY <1>1, <1>4, <2>1, <2>2, <2>3 DEF Conversation, Pending, Served, Answered
<1> QED BY <1>3, <1>4

(***************************************************************************)
(* A step of the server keeps all conversations in step.                   *)
(***************************************************************************)
LEMMA ServerConversation ==
  ASSUME TypeOK, WireTypes, Results, Protocol, ServerStep, ~misread'
  PROVE  Protocol'
<1> USE DEF At, clients, wires
<1>1. CASE HandleConnection
  <2>1. PICK r \in Answers("CONNECTION_REQUEST") : Answer("CONNECTION_REQUEST", r) /\ UNCHANGED server
    BY <1>1 DEF HandleConnection, AnswerConnection
  <2> QED BY <2>1, AnswerConversation, ReceiveTypes DEF Requests, Answer
<1>2. CASE HandleSql
  <2>1. \A r \in {"SQL_SUCCESS", "SQL_FAILED"} : r \in Answers("SQL_REQUEST")
    BY DEF Answers
  <2> QED BY <1>2, <2>1, AnswerConversation, ReceiveTypes DEF HandleSql, Requests, Answer
<1>3. CASE HandleOther
  BY <1>3, AnswerConversation, ReceiveTypes DEF HandleOther, Requests, Answer, Answers
<1>4. CASE HandleFile
  <2>1. /\ session \in Clients /\ server = "recv" /\ inbox[session] = <<"FILE_REQUEST">>
        /\ want[session] = "FILE_REQUEST" /\ inbox'[session] \in {<<>>, <<"rest">>}
        /\ \A c \in Clients \ {session} : inbox'[c] = inbox[c]
        /\ UNCHANGED <<pc, want, session, replies>> /\ server' = "accept file"
    BY <1>4, ReceiveOne DEF HandleFile, WireTypes, Requests
  <2> SUFFICES ASSUME NEW c \in Clients PROVE Conversation(c)'
    BY DEF Protocol
  <2>2. Conversation(c)
    BY DEF Protocol
  <2>3. CASE c # session
    BY <2>1, <2>2, <2>3, ConversationKept DEF Served
  <2>4. CASE c = session
    <3>1. Pending(c)
      BY <2>1, <2>4 DEF Pending
    <3>2. inbox'[c] \notin {<<want[c]>>, <<"rest", want[c]>>}
      BY <2>1, <2>4, ShortDistinct
    <3> QED BY <2>1, <2>2, <2>4, <3>1, <3>2 DEF Conversation, Pending, Served, Answered
  <2> QED BY <2>3, <2>4
<1>5. CASE ReceiveFile
  <2>1. /\ session \in Clients /\ server = "recv file" /\ server' = "upload"
        /\ UNCHANGED <<pc, want, session, inbox>>
        /\ \A c \in Clients \ {session} : replies'[c] = replies[c]
        /\ \E r \in Answers("FILE_REQUEST") : replies'[session] = Append(replies[session], r)
    BY <1>5 DEF ReceiveFile, Reply, TypeOK, WireTypes, Answers
  <2> SUFFICES ASSUME NEW c \in Clients PROVE Conversation(c)'
    BY DEF Protocol
  <2>2. Conversation(c)
    BY DEF Protocol
  <2>3. CASE c # session
    BY <2>1, <2>2, <2>3, ConversationKept DEF Served
  <2>4. CASE c = session
    <3>1. Served(c)
      BY <2>1, <2>4 DEF Served
    <3>2. ~At(c, "gone") =>
            /\ replies[c] = <<>> /\ want[c] = "FILE_REQUEST" /\ ~Pending(c) /\ pc[c] \in {"file", "await"}
      BY <2>2, <3>1 DEF Conversation, Answered
    <3>3. ~At(c, "gone") => \E r \in Answers("FILE_REQUEST") : replies'[c] = <<r>>
      BY <2>1, <2>4, <3>2, ShortSequences
    <3> QED BY <2>1, <2>2, <2>4, <3>2, <3>3 DEF Conversation, Pending, Served, Answered
  <2> QED BY <2>3, <2>4
<1>6. CASE AcceptClient \/ AcceptData \/ Upload
  <2>1. /\ UNCHANGED <<pc, want, inbox, replies>>
        /\ \A c \in Clients : Served(c)' => Served(c)
    BY <1>6 DEF AcceptClient, AcceptData, Upload, Served
  <2> QED BY <2>1, ConversationKept DEF Protocol
<1>7. CASE SendResult
  <2>1. UNCHANGED <<want, inbox, replies>> /\ \A c \in Clients : ~Served(c)'
    BY <1>7 DEF SendResult, Served
  <2>2. \A c \in Clients : pc'[c] = pc[c] \/ pc'[c] = "gone" \/ pc[c] \notin {"file", "await", "gone"}
    <3>1. Reader(socket)
      BY <1>7 DEF SendResult, Results, TypeOK
    <3>2. \/ pc' = pc
          \/ socket.role = "result" /\ pc' = [pc EXCEPT ![socket.from] = "ready"] /\ ~At(socket.from, "gone")
          \/ pc' = [pc EXCEPT ![socket.from] = "gone"]
      BY <1>7 DEF SendResult, Go
    <3> QED BY <3>1, <3>2 DEF Reader, TypeOK
  <2> QED BY <2>1, <2>2, ConversationKept DEF Protocol
<1>8. CASE HandleRest \/ ServiceDies
  <2>1. Exit
    BY <1>8 DEF HandleRest, ServiceDies
  <2> QED BY <2>1 DEF Exit, Protocol, Conversation, Pending, Served, Answered
<1> QED BY <1>1, <1>2, <1>3, <1>4, <1>5, <1>6, <1>7, <1>8 DEF ServerStep

(***************************************************************************)
(* Every step that reads no rest keeps all conversations in step, and the  *)
(* end of the process ends them.                                           *)
(***************************************************************************)
LEMMA ProtocolStep ==
  ASSUME TypeOK, WireTypes, Results, ~misread => Protocol, [Next]_vars, ~misread'
  PROVE  Protocol'
<1>1. CASE misread
  <2>1. Exit
    BY <1>1, MisreadStays
  <2> QED BY <2>1 DEF Exit, Protocol, Conversation, Pending, Served, Answered
<1>2. CASE ~misread
  <2>1. Protocol
    BY <1>2
  <2>2. CASE Restart \/ UNCHANGED vars
    <3>1. UNCHANGED <<pc, want, inbox, replies>> /\ \A c \in Clients : Served(c)' => Served(c)
      BY <2>2 DEF Restart, vars, clients, wires, Served
    <3> QED BY <2>1, <3>1, ConversationKept DEF Protocol
  <2> QED BY <2>1, <2>2, ServerConversation, ClientConversation DEF Next
<1> QED BY <1>1, <1>2

-----------------------------------------------------------------------------
(***************************************************************************)
(* An only client has been one from the start, and the server, once it has *)
(* accepted somebody, serves it.                                           *)
(***************************************************************************)
LEMMA OnlyClientBefore ==
  ASSUME TypeOK, WireTypes, [Next]_vars, NEW c \in Clients, OnlyClient(c)'
  PROVE  OnlyClient(c)
BY NeverNewAgain DEF OnlyClient, At

(***************************************************************************)
(* The session and everything in the backlog are an only client's.         *)
(***************************************************************************)
LEMMA OnlySession ==
  ASSUME TypeOK, WireTypes, Known, NEW c \in Clients, OnlyClient(c)
  PROVE  /\ server \notin {"accept", "exited"} => session = c /\ ~At(c, "new")
         /\ \A i \in DOMAIN backlog : backlog[i].from = c
BY DEF Known, OnlyClient, TypeOK

(***************************************************************************)
(* A client whose file is due has asked for its transfer and not been      *)
(* answered.                                                               *)
(***************************************************************************)
LEMMA DueIsPending ==
  ASSUME NEW c \in Clients, Conversation(c), FileDue(c)
  PROVE  /\ want[c] = "FILE_REQUEST" /\ Pending(c)
         /\ ~At(c, "gone") => replies[c] = <<>> /\ pc[c] \in {"file", "await"}
<1>1. <<"FILE_REQUEST">> # <<>> /\ <<"rest", "FILE_REQUEST">> # <<>>
      /\ <<"FILE_REQUEST">> # <<"rest">> /\ <<"rest", "FILE_REQUEST">> # <<"rest">>
  OBVIOUS
<1>2. want[c] = "FILE_REQUEST"
  BY <1>1, ShortSequences DEF Conversation, FileDue
<1> QED BY <1>2 DEF Conversation, Pending, Answered, FileDue

(***************************************************************************)
(* The steps of an only client.                                            *)
(***************************************************************************)
LEMMA WaitingClient ==
  ASSUME TypeOK, WireTypes, Protocol, NEW c \in Clients, server = "accept", Waiting(c),
         Dial(c) \/ SendFile(c) \/ GetReply(c) \/ FetchResult(c) \/ HangUp(c)
           \/ \E k \in Requests : Request(c, k)
  PROVE  server' = "accept" /\ Waiting(c)'
<1> USE DEF At, Go
<1>1. Conversation(c)
  BY DEF Protocol
<1>2. CASE Dial(c)
  <2>1. backlog = <<>> /\ backlog' = <<Connection(c, "message")>> /\ pc'[c] = "ready"
        /\ UNCHANGED <<server, replies, inbox>>
    <3>1. pc[c] = "new" /\ inbox[c] = <<>>
      BY <1>2 DEF Dial, Waiting
    <3>2. backlog = <<>>
      BY <3>1 DEF Waiting
    <3>3. backlog' = <<Connection(c, "message")>>
      BY <1>2, <3>2, ShortSequences DEF Dial, Open
    <3> QED BY <1>2, <3>2, <3>3 DEF Dial, Open, TypeOK
  <2> QED BY <2>1 DEF Waiting
<1>3. CASE SendFile(c)
  <2>1. backlog = <<Connection(c, "message")>> /\ FileDue(c)
    BY <1>3 DEF SendFile, Waiting
  <2>2. /\ \E r \in FileRoles : backlog' = Append(backlog, Connection(c, r))
        /\ pc'[c] = "await" /\ UNCHANGED <<server, replies, inbox>>
    BY <1>3 DEF SendFile, Open, FileRoles, TypeOK
  <2>3. \E r \in FileRoles : backlog' = <<Connection(c, "message"), Connection(c, r)>>
    BY <2>1, <2>2, ShortSequences
  <2> QED BY <2>1, <2>2, <2>3 DEF Waiting, FileDue
<1>4. CASE GetReply(c) \/ FetchResult(c)
  BY <1>4 DEF GetReply, FetchResult, Waiting
<1>5. CASE HangUp(c)
  <2>1. pc'[c] = "gone" /\ UNCHANGED <<server, replies, inbox, backlog>>
    BY <1>5 DEF HangUp, wires, TypeOK
  <2> QED BY <2>1 DEF Waiting, FileDue
<1>6. ASSUME NEW k \in Requests, Request(c, k) PROVE server' = "accept" /\ Waiting(c)'
  <2>1. /\ pc[c] = "ready" /\ inbox'[c] = Append(inbox[c], k)
        /\ pc'[c] = IF k = "FILE_REQUEST" THEN "file" ELSE "await"
        /\ UNCHANGED <<server, replies, backlog>>
    BY <1>6 DEF Request, TypeOK, WireTypes
  <2>2. ~FileDue(c) /\ inbox[c] \in {<<>>, <<"rest">>}
    BY <1>1, <2>1, DueIsPending DEF Conversation, Pending
  <2>3. backlog = <<Connection(c, "message")>>
    BY <2>1, <2>2 DEF Waiting
  <2>4. k = "FILE_REQUEST" => FileDue(c)'
    <3>1. Append(<<>>, k) = <<k>> /\ Append(<<"rest">>, k) = <<"rest", k>>
      BY ShortSequences
    <3> QED BY <2>1, <2>2, <3>1 DEF FileDue
  <2> QED BY <2>1, <2>3, <2>4 DEF Waiting
<1> QED BY <1>2, <1>3, <1>4, <1>5, <1>6

(***************************************************************************)
(* ... once it is accepted.                                                *)
(***************************************************************************)
LEMMA AcceptedClient ==
  ASSUME TypeOK, WireTypes, Protocol, Results, NEW c \in Clients,
         server \notin {"accept", "exited"}, session = c, ~At(c, "new"), Accepted(c),
         Dial(c) \/ SendFile(c) \/ GetReply(c) \/ FetchResult(c) \/ HangUp(c)
           \/ \E k \in Requests : Request(c, k)
  PROVE  UNCHANGED <<server, session>> /\ Accepted(c)'
<1> USE DEF At, Go
<1>1. Conversation(c)
  BY DEF Protocol
<1>2. CASE Dial(c)
  BY <1>2 DEF Dial
<1>3. CASE SendFile(c)
  <2>1. backlog = <<>> /\ (FileDue(c) \/ server = "accept file")
    BY <1>3 DEF SendFile, Accepted
  <2>2. /\ \E r \in FileRoles : backlog' = Append(backlog, Connection(c, r))
        /\ pc'[c] = "await" /\ UNCHANGED <<server, session, socket, replies, inbox>>
    BY <1>3 DEF SendFile, Open, FileRoles, TypeOK
  <2>3. backlog' \in Queue(c, FileRoles)
    BY <2>1, <2>2, ShortSequences DEF Queue
  <2>4. replies[c] # <<"SQL_SUCCESS">> \/ server = "accept result"
    BY <1>3 DEF Accepted, SendFile
  <2>5. server # "accept result"
    BY <2>1 DEF Accepted
  <2>6. FileDue(c)' <=> FileDue(c)
    BY <2>2 DEF FileDue
  <2> QED BY <2>1, <2>2, <2>3, <2>4, <2>5, <2>6 DEF Accepted
<1>4. CASE GetReply(c)
  <2>1. /\ pc[c] = "await" /\ replies[c] # <<>> /\ replies'[c] = Tail(replies[c])
        /\ pc'[c] = IF Head(replies[c]) = "SQL_SUCCESS" THEN "fetch" ELSE "ready"
        /\ UNCHANGED <<server, session, socket, backlog, inbox>>
    BY <1>4 DEF GetReply, TypeOK, WireTypes
  <2>2. PICK r \in Answers(want[c]) : replies[c] = <<r>>
    BY <1>1, <2>1 DEF Conversation
  <2>3. replies'[c] = <<>> /\ Head(replies[c]) = r
    BY <2>1, <2>2, ShortSequences
  <2>4. FileDue(c)' <=> FileDue(c)
    BY <2>1 DEF FileDue
  <2>5. CASE r = "SQL_SUCCESS"
    <3>1. pc'[c] = "fetch" /\ server = "accept result" /\ backlog = <<>>
      BY <2>1, <2>2, <2>3, <2>5 DEF Accepted
    <3> QED BY <2>1, <2>3, <2>4, <3>1, ShortSequences DEF Accepted
  <2>6. CASE r # "SQL_SUCCESS"
    <3>1. pc'[c] = "ready" /\ server # "accept result"
      BY <2>1, <2>2, <2>3, <2>6, ShortSequences DEF Accepted
    <3> QED BY <2>1, <2>3, <2>4, <3>1, ShortSequences DEF Accepted
  <2> QED BY <2>5, <2>6
<1>5. CASE FetchResult(c)
  <2>1. backlog = <<>> /\ server = "accept result" /\ pc[c] = "fetch"
    BY <1>5 DEF FetchResult, Accepted
  <2>2. /\ backlog' = Append(backlog, Connection(c, "result"))
        /\ pc'[c] = "reading" /\ UNCHANGED <<server, session, socket, replies, inbox>>
    BY <1>5 DEF FetchResult, Open, TypeOK
  <2>3. backlog' \in Queue(c, {"result"})
    BY <2>1, <2>2, ShortSequences DEF Queue
  <2>4. replies[c] = <<>>
    BY <1>1, <2>1 DEF Conversation, Answered
  <2>5. FileDue(c)' <=> FileDue(c)
    BY <2>2 DEF FileDue
  <2> QED BY <2>1, <2>2, <2>3, <2>4, <2>5, ShortSequences DEF Accepted
<1>6. CASE HangUp(c)
  <2>1. pc'[c] = "gone" /\ UNCHANGED <<server, session, socket, replies, inbox, backlog>>
    BY <1>6 DEF HangUp, wires, TypeOK
  <2> QED BY <2>1 DEF Accepted, FileDue
<1>7. ASSUME NEW k \in Requests, Request(c, k) PROVE UNCHANGED <<server, session>> /\ Accepted(c)'
  <2>1. /\ pc[c] = "ready" /\ inbox'[c] = Append(inbox[c], k)
        /\ pc'[c] = IF k = "FILE_REQUEST" THEN "file" ELSE "await"
        /\ UNCHANGED <<server, session, socket, replies, backlog>>
    <3>1. c \in DOMAIN pc /\ c \in DOMAIN inbox
      BY DEF TypeOK, WireTypes
    <3> QED BY <1>7, <3>1 DEF Request
  <2>2. ~FileDue(c) /\ inbox[c] \in {<<>>, <<"rest">>} /\ replies[c] = <<>> /\ ~Served(c)
    BY <1>1, <2>1, DueIsPending DEF Conversation, Pending, Answered
  <2>3. k = "FILE_REQUEST" => FileDue(c)'
    <3>1. Append(<<>>, k) = <<k>> /\ Append(<<"rest">>, k) = <<"rest", k>>
      BY ShortSequences
    <3> QED BY <2>1, <2>2, <3>1 DEF FileDue
  <2>4. server # "send result"
    <3> SUFFICES ASSUME server = "send result" PROVE FALSE
      OBVIOUS
    <3>1. socket = Connection(c, "result")
      BY DEF Accepted
    <3>2. socket.role = "result" /\ socket.from = c
      BY <3>1 DEF Connection
    <3>3. Reader(socket)
      BY DEF Results, TypeOK
    <3> QED BY <2>1, <3>2, <3>3 DEF Reader
  <2>5. server \in {"recv", "upload"} /\ backlog = <<>>
    BY <2>1, <2>2, <2>4 DEF Accepted, Served, TypeOK
  <2> QED BY <2>1, <2>2, <2>3, <2>5, ShortSequences DEF Accepted, Queue
<1> QED BY <1>2, <1>3, <1>4, <1>5, <1>6, <1>7

(***************************************************************************)
(* The server accepts an only client.                                      *)
(***************************************************************************)
LEMMA WaitingAccepted ==
  ASSUME TypeOK, WireTypes, Known, NEW c \in Clients, OnlyClient(c), Waiting(c), AcceptClient
  PROVE  server' = "recv" /\ session' = c /\ Accepted(c)'
<1> USE DEF At, clients
<1>1. /\ backlog # <<>> /\ backlog' = Tail(backlog) /\ server' = "recv"
      /\ UNCHANGED <<pc, inbox, replies, socket>> /\ session' = Head(backlog).from
  BY DEF AcceptClient
<1>2. FileDue(c)' <=> FileDue(c)
  BY <1>1 DEF FileDue
<1>3. Connection(c, "message").from = c
  BY DEF Connection
<1>4. CASE backlog = <<Connection(c, "message")>> /\ (At(c, "file") => FileDue(c))
  <2>1. backlog' = <<>> /\ session' = c
    BY <1>1, <1>3, <1>4, ShortSequences
  <2> QED BY <1>1, <1>2, <1>4, <2>1, ShortSequences DEF Accepted, Waiting, Queue
<1>5. ASSUME NEW r \in FileRoles, backlog = <<Connection(c, "message"), Connection(c, r)>>,
             FileDue(c), pc[c] \notin {"new", "file"}
      PROVE  server' = "recv" /\ session' = c /\ Accepted(c)'
  <2>1. backlog' = <<Connection(c, r)>> /\ session' = c
    BY <1>1, <1>3, <1>5, ShortSequences
  <2>2. backlog' \in Queue(c, FileRoles)
    BY <2>1 DEF Queue
  <2> QED BY <1>1, <1>2, <1>5, <2>1, <2>2, ShortSequences DEF Accepted, Waiting
<1> QED BY <1>1, <1>4, <1>5 DEF Waiting

(***************************************************************************)
(* An answer finds nothing of an only client in the backlog: it was no     *)
(* file that the client asked to send.                                     *)
(***************************************************************************)
LEMMA AcceptedAnswer ==
  ASSUME TypeOK, WireTypes, Protocol, NEW c \in Clients, session = c, Accepted(c),
         NEW k \in Requests \ {"FILE_REQUEST"}, NEW r \in Answers(k), Answer(k, r), ~misread',
         server' = IF r = "SQL_SUCCESS" THEN "accept result" ELSE "recv"
  PROVE  session' = c /\ Accepted(c)'
<1> USE DEF At, clients
<1>1. Conversation(c)
  BY DEF Protocol
<1>2. /\ server = "recv" /\ want[c] = k /\ inbox[c] = <<k>> /\ inbox'[c] \in {<<>>, <<"rest">>}
      /\ replies'[c] = Append(replies[c], r)
      /\ UNCHANGED <<pc, session, backlog, socket>>
  BY ReceiveOne DEF Answer, Reply, WireTypes
<1>3. ~FileDue(c) /\ ~FileDue(c)'
  <2>1. <<k>> \notin {<<"FILE_REQUEST">>, <<"rest", "FILE_REQUEST">>}
    BY ShortDistinct
  <2>2. \A q \in {<<>>, <<"rest">>} : q \notin {<<"FILE_REQUEST">>, <<"rest", "FILE_REQUEST">>}
    BY ShortDistinct
  <2> QED BY <1>2, <2>1, <2>2 DEF FileDue
<1>4. backlog = <<>> /\ pc[c] \notin {"file", "fetch"}
  BY <1>2, <1>3 DEF Accepted
<1>5. ~At(c, "gone") => replies[c] = <<>> /\ pc[c] = "await"
  BY <1>1, <1>2, <1>4 DEF Conversation, Pending, Answered
<1>6. ~At(c, "gone") => replies'[c] = <<r>>
  BY <1>2, <1>5, ShortSequences
<1>7. server' \in {"recv", "accept result"} /\ (server' = "accept result" <=> r = "SQL_SUCCESS")
  OBVIOUS
<1>8. ~At(c, "gone") /\ replies'[c] = <<"SQL_SUCCESS">> => r = "SQL_SUCCESS"
  BY <1>6, ShortDistinct
<1>9. backlog' = <<>> /\ <<>> \in Queue(c, {"result"})
  BY <1>2, <1>4 DEF Queue
<1> QED BY <1>2, <1>3, <1>4, <1>5, <1>6, <1>7, <1>8, <1>9 DEF Accepted

(***************************************************************************)
(* The server serves an only client ...                                    *)
(***************************************************************************)
LEMMA AcceptedServer ==
  ASSUME TypeOK, WireTypes, Protocol, NEW c \in Clients,
         server \notin {"accept", "exited"}, session = c, Accepted(c),
         ServerStep, ~Exit, ~misread'
  PROVE  server' \notin {"accept", "exited"} /\ session' = c /\ Accepted(c)'
<1> USE DEF At, clients, wires
<1>1. Conversation(c)
  BY DEF Protocol
<1>2. CASE HandleConnection \/ HandleSql \/ HandleOther
  <2>1. \E k \in Requests \ {"FILE_REQUEST"} : \E r \in Answers(k) :
          Answer(k, r) /\ server' = IF r = "SQL_SUCCESS" THEN "accept result" ELSE "recv"
    <3>1. CASE HandleConnection
      BY <3>1, ReceiveTypes DEF HandleConnection, AnswerConnection, Answer, Answers, Requests
    <3>2. CASE HandleSql
      BY <3>2, ReceiveTypes DEF HandleSql, Answer, Answers, Requests
    <3>3. CASE HandleOther
      BY <3>3, ReceiveTypes DEF HandleOther, Answer, Answers, Requests
    <3> QED BY <1>2, <3>1, <3>2, <3>3
  <2> QED BY <2>1, AcceptedAnswer
<1>3. CASE HandleFile
  <2>1. /\ server = "recv" /\ server' = "accept file" /\ inbox[c] = <<"FILE_REQUEST">>
        /\ inbox'[c] \in {<<>>, <<"rest">>}
        /\ UNCHANGED <<pc, session, backlog, replies>>
    BY <1>3, ReceiveOne DEF HandleFile, WireTypes, Requests
  <2>2. FileDue(c) /\ ~FileDue(c)'
    <3>1. \A q \in {<<>>, <<"rest">>} : q \notin {<<"FILE_REQUEST">>, <<"rest", "FILE_REQUEST">>}
      BY ShortDistinct
    <3> QED BY <2>1, <3>1 DEF FileDue
  <2>3. ~At(c, "gone") => replies[c] = <<>>
    BY <1>1, <2>2, DueIsPending
  <2> QED BY <2>1, <2>2, <2>3, ShortSequences DEF Accepted
<1>4. CASE AcceptData
  <2>1. backlog # <<>> /\ backlog' = Tail(backlog) /\ socket' = Head(backlog)
        /\ UNCHANGED <<pc, session, inbox, replies>>
    BY <1>4 DEF AcceptData
  <2>2. FileDue(c)' <=> FileDue(c)
    BY <2>1 DEF FileDue
  <2>3. CASE server = "accept file" /\ server' = "recv file"
    <3>1. PICK r \in FileRoles : backlog = <<Connection(c, r)>>
      BY <2>1, <2>3 DEF Accepted, Queue
    <3>2. backlog' = <<>> /\ socket' = Connection(c, r)
      BY <2>1, <3>1, ShortSequences
    <3> QED BY <2>1, <2>2, <2>3, <3>2 DEF Accepted
  <2>4. CASE server = "accept result" /\ server' = "send result"
    <3>1. backlog = <<Connection(c, "result")>>
      BY <2>1, <2>4 DEF Accepted, Queue
    <3>2. backlog' = <<>> /\ socket' = Connection(c, "result")
      BY <2>1, <3>1, ShortSequences
    <3> QED BY <2>1, <2>2, <2>4, <3>2 DEF Accepted
  <2> QED BY <1>4, <2>3, <2>4 DEF AcceptData
<1>5. CASE ReceiveFile
  <2>1. /\ server = "recv file" /\ server' = "upload" /\ UNCHANGED <<pc, session, inbox, backlog>>
        /\ \E r \in {"FILE_RECEIVE_SUCCESS", "FILE_RECEIVE_FAILED"} : replies'[c] = Append(replies[c], r)
    BY <1>5 DEF ReceiveFile, Reply, WireTypes
  <2>2. ~At(c, "gone") => replies[c] = <<>>
    BY <1>1, <2>1 DEF Conversation, Served, Answered
  <2>3. ~At(c, "gone") => replies'[c] # <<"SQL_SUCCESS">>
    <3>1. \A r \in {"FILE_RECEIVE_SUCCESS", "FILE_RECEIVE_FAILED"} :
            Append(<<>>, r) = <<r>> /\ <<r>> # <<"SQL_SUCCESS">>
      BY ShortSequences, ShortDistinct
    <3> QED BY <2>1, <2>2, <3>1
  <2>4. FileDue(c)' <=> FileDue(c)
    BY <2>1 DEF FileDue
  <2> QED BY <2>1, <2>3, <2>4 DEF Accepted
<1>6. CASE Upload
  <2>1. /\ server = "upload" /\ server' = "recv" /\ UNCHANGED <<pc, session, inbox, backlog, replies>>
        /\ (FileDue(c)' <=> FileDue(c))
    BY <1>6 DEF Upload, FileDue
  <2> QED BY <2>1 DEF Accepted
<1>7. CASE SendResult
  <2>1. /\ server = "send result" /\ server' = "recv" /\ UNCHANGED <<session, inbox, backlog, replies>>
        /\ (FileDue(c)' <=> FileDue(c))
    BY <1>7 DEF SendResult, FileDue
  <2>2. socket = Connection(c, "result")
    BY <2>1 DEF Accepted
  <2>3. pc'[c] \in {"ready", "gone"} /\ (pc[c] = "gone" => pc'[c] = "gone")
    BY <1>7, <2>2 DEF SendResult, Go, Connection, TypeOK
  <2> QED BY <2>1, <2>3 DEF Accepted
<1>8. CASE AcceptClient
  BY <1>8 DEF AcceptClient
<1> QED BY <1>2, <1>3, <1>4, <1>5, <1>6, <1>7, <1>8 DEF ServerStep, HandleRest, ServiceDies

(***************************************************************************)
(* ... and so every step leaves it in order.                               *)
(***************************************************************************)
LEMMA AloneStep ==
  ASSUME TypeOK, WireTypes, Known, Results, ~misread => Protocol /\ Alone, [Next]_vars, ~misread'
  PROVE  Alone'
<1> USE DEF At, clients, wires
<1> SUFFICES ASSUME NEW c \in Clients, OnlyClient(c)' PROVE Solitude(c)'
  BY DEF Alone
<1>0. CASE misread
  <2>1. Exit
    BY <1>0, MisreadStays
  <2> QED BY <2>1 DEF Exit, Solitude
<1> SUFFICES ASSUME ~misread PROVE Solitude(c)'
  BY <1>0
<1>1. OnlyClient(c) /\ Solitude(c)
  BY OnlyClientBefore DEF Alone
<1>2. server \notin {"accept", "exited"} => session = c /\ ~At(c, "new")
  BY <1>1, OnlySession
<1>3. CASE UNCHANGED vars
  BY <1>1, <1>3 DEF vars, Solitude, Waiting, Accepted, FileDue
<1>4. CASE Restart
  BY <1>1, <1>4 DEF Restart, Solitude, Waiting
<1>5. ASSUME NEW d \in Clients,
             Dial(d) \/ SendFile(d) \/ GetReply(d) \/ FetchResult(d) \/ HangUp(d)
               \/ \E k \in Requests : Request(d, k)
      PROVE  Solitude(c)'
  <2>1. d = c
    <3>1. pc'[d] # "new"
      BY <1>5 DEF Dial, SendFile, GetReply, FetchResult, HangUp, Request, Go, TypeOK
    <3> QED BY <3>1 DEF OnlyClient
  <2>2. CASE server = "exited"
    BY <1>1, <1>5, <2>1, <2>2 DEF Solitude, Dial, SendFile, GetReply, FetchResult, HangUp, Request, Open
  <2>3. CASE server = "accept"
    <3>1. Waiting(c)
      BY <1>1, <2>3 DEF Solitude
    <3>2. server' = "accept" /\ Waiting(c)'
      BY <1>5, <2>1, <2>3, <3>1, WaitingClient
    <3> QED BY <3>2 DEF Solitude
  <2>4. CASE server \notin {"accept", "exited"}
    <3>1. Accepted(c) /\ session = c /\ ~At(c, "new")
      BY <1>1, <1>2, <2>4 DEF Solitude
    <3>2. UNCHANGED <<server, session>> /\ Accepted(c)'
      BY <1>5, <2>1, <2>4, <3>1, AcceptedClient
    <3> QED BY <2>4, <3>1, <3>2 DEF Solitude
  <2> QED BY <2>2, <2>3, <2>4
<1>6. CASE ServerStep
  <2>1. CASE Exit
    BY <2>1 DEF Exit, Solitude
  <2>2. CASE AcceptClient
    <3>1. Waiting(c)
      BY <1>1, <2>2 DEF Solitude, AcceptClient
    <3> QED BY <1>1, <2>2, <3>1, WaitingAccepted DEF Solitude
  <2>3. CASE ~Exit /\ ~AcceptClient
    <3>1. server \notin {"accept", "exited"}
      BY <1>6, <2>3, ReceiveTypes DEF ServerStep, HandleConnection, AnswerConnection, HandleFile,
         HandleSql, HandleOther, Answer, Receive, HandleRest, AcceptData, ReceiveFile, Upload,
         SendResult, ServiceDies
    <3>2. Accepted(c) /\ session = c
      BY <1>1, <1>2, <3>1 DEF Solitude
    <3>3. server' \notin {"accept", "exited"} /\ session' = c /\ Accepted(c)'
      BY <1>6, <2>3, <3>1, <3>2, AcceptedServer
    <3> QED BY <3>3 DEF Solitude
  <2> QED BY <2>1, <2>2, <2>3
<1> QED BY <1>3, <1>4, <1>5, <1>6 DEF Next

-----------------------------------------------------------------------------
(***************************************************************************)
(* During an upload only the clients move, and the part of a request that  *)
(* a split left is still to be read.                                       *)
(***************************************************************************)
LEMMA UploadStays ==
  ASSUME TypeOK, WireTypes, [Next]_vars, server' = "upload", ~ReceiveFile
  PROVE  server = "upload" /\ UNCHANGED <<session, socket, success, misread>> /\ (Split => Split')
<1> USE DEF clients, wires
<1>1. CASE UNCHANGED vars
  BY <1>1 DEF vars, Split
<1>2. CASE Restart
  BY <1>2 DEF Restart
<1>3. CASE ServerStep
  BY <1>3 DEF ServerStep, AcceptClient, HandleConnection, AnswerConnection, HandleFile, HandleSql,
     HandleOther, HandleRest, Answer, Receive, Exit, AcceptData, Upload, SendResult, ServiceDies
<1>4. ASSUME NEW d \in Clients, Dial(d) \/ SendFile(d) \/ GetReply(d) \/ FetchResult(d) \/ HangUp(d)
      PROVE  server = "upload" /\ UNCHANGED <<session, socket, success, misread, inbox>>
  BY <1>4 DEF Dial, SendFile, GetReply, FetchResult, HangUp, Open
<1>5. ASSUME NEW d \in Clients, NEW k \in Requests, Request(d, k)
      PROVE  server = "upload" /\ UNCHANGED <<session, socket, success, misread>> /\ (Split => Split')
  <2>1. server = "upload" /\ UNCHANGED <<session, socket, success, misread>>
        /\ inbox' = [inbox EXCEPT ![d] = Append(@, k)] /\ session \in Clients
    BY <1>5 DEF Request, TypeOK
  <2>2. inbox[session] \in Seq(Words) /\ inbox[session] # <<>> =>
          Append(inbox[session], k) # <<>> /\ Head(Append(inbox[session], k)) = Head(inbox[session])
    OBVIOUS
  <2> QED BY <2>1, <2>2 DEF Split, WireTypes
<1> QED BY <1>1, <1>2, <1>3, <1>4, <1>5 DEF Next, Split

(***************************************************************************)
(* What an only client is told to have arrived is the whole of its file.   *)
(***************************************************************************)
LEMMA SuccessIsWholeStep ==
  ASSUME TypeOK, WireTypes, Known, ~misread => Alone, SuccessIsWhole, [Next]_vars
  PROVE  SuccessIsWhole'
<1> SUFFICES ASSUME server' = "upload", success', ~misread', OnlyClient(session)'
             PROVE  Split' \/ socket' = Connection(session', "file")
  BY DEF SuccessIsWhole
<1>1. TypeOK' /\ session' \in Clients
  BY TypeStep DEF TypeOK
<1>2. OnlyClient(session')
  BY <1>1, OnlyClientBefore DEF OnlyClient, At
<1>3. CASE ReceiveFile
  <2>1. /\ server = "recv file" /\ UNCHANGED <<session, socket, inbox, misread, faults>>
        /\ success' \in Outcomes(socket)
    BY <1>3 DEF ReceiveFile, clients
  <2>2. Accepted(session)
    BY <1>1, <1>2, <2>1 DEF Alone, Solitude
  <2>3. PICK r \in FileRoles : socket = Connection(session, r)
    BY <2>1, <2>2 DEF Accepted
  <2>4. r = "file" \/ Split
    BY <2>1, <2>3 DEF Outcomes, Connection, FileRoles
  <2> QED BY <2>1, <2>3, <2>4 DEF Split
<1>4. CASE ~ReceiveFile
  <2>1. server = "upload" /\ UNCHANGED <<session, socket, success, misread>> /\ (Split => Split')
    BY <1>4, UploadStays
  <2> QED BY <1>2, <2>1 DEF SuccessIsWhole
<1> QED BY <1>3, <1>4

-----------------------------------------------------------------------------
(***************************************************************************)
(* The invariant holds when the server starts ...                          *)
(***************************************************************************)
LEMMA ServerInit == Init => ServerInv
<1> SUFFICES ASSUME Init PROVE ServerInv
  OBVIOUS
<1>1. TypeOK
  <2>1. Len(backlog) <= BacklogSize /\ DOMAIN backlog = {}
    BY ServerAssumption DEF Init
  <2>2. /\ pc \in [Clients -> {"new", "ready", "file", "await", "fetch", "reading", "gone"}]
        /\ want \in [Clients -> Requests]
    BY DEF Init, Requests
  <2>3. asked \in 0 .. MaxRequests
    BY ServerAssumption DEF Init
  <2> QED BY <2>1, <2>2, <2>3 DEF Init, TypeOK
<1>2. WireTypes /\ Known
  BY DEF Init, WireTypes, Known
<1>3. Protocol
  BY DEF Init, Protocol, Conversation, Pending, Served, Answered
<1>4. Results /\ Alone /\ SuccessIsWhole
  BY DEF Init, Results, Alone, Solitude, Waiting, At, SuccessIsWhole
<1> QED BY <1>1, <1>2, <1>3, <1>4 DEF ServerInv

(***************************************************************************)
(* ... and every step keeps it.                                            *)
(***************************************************************************)
LEMMA ServerStepInv == ServerInv /\ [Next]_vars => ServerInv'
BY TypeStep, KnownStep, ProtocolStep, ResultsStep, AloneStep, SuccessIsWholeStep DEF ServerInv

(***************************************************************************)
(* The invariant of the server, from which the rest follows.               *)
(***************************************************************************)
THEOREM ServerInvariant == Spec => []ServerInv
BY ServerInit, ServerStepInv, PTL DEF Spec

(***************************************************************************)
(* thread_func and the clients stay where they can be, and a data socket   *)
(* is open exactly while it is used.                                       *)
(***************************************************************************)
THEOREM ServerTypeCorrect == Spec => []TypeOK
<1>1. ServerInv => TypeOK
  BY DEF ServerInv
<1> QED BY <1>1, ServerInvariant, PTL

(***************************************************************************)
(* However the files and rows of clients get mixed up, whatever transfers  *)
(* are cut, messages split or connections lost: what a client reads on its *)
(* message connection is the one answer to its last request, until the     *)
(* rest of a split message is read as a message.                           *)
(***************************************************************************)
THEOREM RepliesAlwaysMatch == Spec => []RepliesMatch
<1>1. ServerInv => RepliesMatch
  <2> SUFFICES ASSUME ServerInv, ~misread, NEW c \in Clients, replies[c] # <<>>, ~At(c, "gone")
               PROVE  /\ pc[c] \in {"file", "await"} /\ Len(replies[c]) = 1
                      /\ Head(replies[c]) \in Answers(want[c])
    BY DEF RepliesMatch, ReplyMatches
  <2>1. Conversation(c)
    BY DEF ServerInv, Protocol
  <2>2. \E r \in Answers(want[c]) : replies[c] = <<r>>
    BY <2>1 DEF Conversation
  <2> QED BY <2>1, <2>2, ShortSequences DEF Conversation, Answered
<1> QED BY <1>1, ServerInvariant, PTL

(***************************************************************************)
(* As long as no other client has ever connected and no rest has been read *)
(* as a message, the server takes the file and sends the rows over the     *)
(* connection its client opened for them.                                  *)
(***************************************************************************)
THEOREM DataAlwaysFromOnlyClient == Spec => []DataFromOnlyClient
<1>1. ServerInv => DataFromOnlyClient
  <2> SUFFICES ASSUME ServerInv, ~misread, OnlyClient(session) PROVE DataFromRequester
    BY DEF DataFromOnlyClient
  <2>1. server \in {"recv file", "send result"} => session \in Clients
    BY DEF ServerInv, TypeOK
  <2>2. server \in {"recv file", "send result"} => Accepted(session)
    BY <2>1 DEF ServerInv, Alone, Solitude
  <2>3. server = "recv file" => \E r \in FileRoles : socket = Connection(session, r)
    BY <2>2 DEF Accepted
  <2>4. server = "send result" => socket = Connection(session, "result")
    BY <2>2 DEF Accepted
  <2>5. server = "recv file" => socket.from = session /\ socket.role \in {"file", "cut file"}
    <3> SUFFICES ASSUME server = "recv file"
                 PROVE  socket.from = session /\ socket.role \in {"file", "cut file"}
      OBVIOUS
    <3>1. PICK r \in FileRoles : socket = Connection(session, r)
      BY <2>3
    <3>2. socket.from = session /\ socket.role = r
      BY <3>1 DEF Connection
    <3> QED BY <3>2 DEF FileRoles
  <2>6. server = "send result" => socket.from = session /\ socket.role = "result"
    <3> SUFFICES ASSUME server = "send result" PROVE socket.from = session /\ socket.role = "result"
      OBVIOUS
    <3>1. socket = Connection(session, "result")
      BY <2>4
    <3> QED BY <3>1 DEF Connection
  <2> QED BY <2>5, <2>6 DEF DataFromRequester
<1> QED BY <1>1, ServerInvariant, PTL

(***************************************************************************)
(* FILE_RECEIVE_SUCCESS is said to an only client only of its whole file,  *)
(* unless the request was split or an earlier rest read as a message.      *)
(***************************************************************************)
THEOREM SuccessIsAlwaysWhole == Spec => []SuccessIsWhole
<1>1. ServerInv => SuccessIsWhole
  BY DEF ServerInv
<1> QED BY <1>1, ServerInvariant, PTL
=============================================================================
