---------------------------- MODULE SessionProofs ----------------------------
(***************************************************************************)
(* Proof that an only client is kept what it was told (PromisesKept), for  *)
(* any clients, tables and bounds.                                         *)
(*                                                                         *)
(* The server's invariant holds here too: the service only adds faults of  *)
(* its own.  Between the acknowledgement of a table and the end of its     *)
(* upload the promise is owed: the file is the client's, and nothing has   *)
(* gone wrong in storing it yet (Owed).  At any other time it is kept.     *)
(***************************************************************************)
EXTENDS Session, ServerProofs

MaybeTables == Tables \cup {NoTable}

SessionTypes ==
  /\ file \in [Clients -> MaybeTables] /\ incoming \in MaybeTables
  /\ promised \in [Names -> MaybeTables] /\ current \in [Names -> MaybeTables]
  /\ writer \in MaybeTables

(***************************************************************************)
(* The table that is being served and the one that is being written.       *)
(***************************************************************************)
Serving ==
  /\ ~misread => \A c \in Clients : Pending(c) /\ want[c] = "FILE_REQUEST" => file[c] \in Tables
  /\ server \in {"accept file", "recv file", "upload"} => incoming \in Tables
  /\ writer # NoTable => server = "upload" /\ writer.name = incoming.name
  /\ writer = NoTable => ~missed

Storable == \A n \in Names : promised[n] # NoTable => promised[n].name = n

(***************************************************************************)
(* A promise is in the making while its table is being stored, and is kept *)
(* otherwise.                                                              *)
(***************************************************************************)
InHand(n) == server = "upload" /\ incoming.name = n

Owed(n) ==
  /\ promised[n] = incoming
  /\ success /\ ~misread /\ socket = Connection(session, "file")
  /\ online /\ ~missed
  /\ writer # NoTable => writer = incoming /\ current[n] = incoming

Kept(n) == promised[n] \in whole /\ current[n] = promised[n]

Promises ==
  /\ session = Nobody => \A n \in Names : promised[n] = NoTable
  /\ OnlyClient(session) =>
       \A n \in Names : promised[n] # NoTable =>
         (InHand(n) => Owed(n)) /\ (~InHand(n) => Kept(n))

SessionInv ==
  /\ ServerInv
  /\ SessionTypes /\ Serving /\ Storable
  /\ Promises

-----------------------------------------------------------------------------
(***************************************************************************)
(* A fault of the service alone: the server does not see it.               *)
(***************************************************************************)
OwnFault ==
  /\ UNCHANGED <<server, session, socket, success, clients, wires>>
  /\ Fault

(***************************************************************************)
(* What the service does is a step of the server or such a fault.          *)
(***************************************************************************)
LEMMA ServerPart ==
  ASSUME SessionNext
  PROVE  [Next]_vars \/ OwnFault
<1>1. CASE Connected
  <2>1. {"CONNECTION_SUCCESS", "CONNECTION_FAILED"} \subseteq Answers("CONNECTION_REQUEST")
    BY DEF Answers
  <2>2. HandleConnection
    BY <1>1, <2>1 DEF Connected, HandleConnection
  <2> QED BY <2>2 DEF Next, ServerStep
<1>2. CASE TakeRequest \/ Acknowledge \/ OtherServerStep \/ EndUpload \/ Die
  BY <1>2 DEF TakeRequest, Acknowledge, OtherServerStep, EndUpload, Die, Next, ServerStep
<1>3. CASE BeginUpload \/ Storing
  BY <1>3 DEF BeginUpload, Storing
<1>4. CASE StatementFails \/ Disconnect
  BY <1>4 DEF StatementFails, Disconnect, OwnFault, vars
<1>5. CASE Restart
  BY <1>5 DEF Next
<1>6. ASSUME NEW c \in Clients, ClientStep(c) PROVE Next
  BY <1>6 DEF ClientStep, Next
<1>7. ASSUME NEW c \in Clients, NEW t \in Tables, RequestFile(c, t) PROVE Next
  <2>1. "FILE_REQUEST" \in Requests /\ Request(c, "FILE_REQUEST")
    BY <1>7 DEF RequestFile, Requests
  <2> QED BY <2>1 DEF Next
<1> QED BY <1>1, <1>2, <1>3, <1>4, <1>5, <1>6, <1>7 DEF SessionNext, ServiceStep

(***************************************************************************)
(* A fault of the service is none of the server's.                         *)
(***************************************************************************)
LEMMA OwnFaultHarmless ==
  ASSUME ServerInv, OwnFault
  PROVE  ServerInv'
<1> USE DEF OwnFault, clients, wires
<1>1. TypeOK'
  BY DEF ServerInv, TypeOK
<1>2. WireTypes'
  BY DEF ServerInv, WireTypes, Fault
<1>3. Known' /\ Results'
  BY DEF ServerInv, Known, Results, Reader, At
<1>4. ~misread => Protocol'
  BY DEF ServerInv, Protocol, Conversation, Pending, Served, Answered, At
<1>5. ~misread => Alone'
  <2>1. \A c \in Clients : Waiting(c)' <=> Waiting(c)
    BY DEF Waiting, At, FileDue
  <2>2. \A c \in Clients : Accepted(c)' <=> Accepted(c)
    BY DEF Accepted, At, FileDue
  <2> QED BY <2>1, <2>2 DEF ServerInv, Alone, Solitude, OnlyClient, At
<1>6. SuccessIsWhole'
  BY DEF ServerInv, SuccessIsWhole, OnlyClient, At, Split
<1>7. misread' = misread
  OBVIOUS
<1> QED BY <1>1, <1>2, <1>3, <1>4, <1>5, <1>6, <1>7 DEF ServerInv

(***************************************************************************)
(* So the server's invariant holds of the composition.                     *)
(***************************************************************************)
LEMMA ServerInvKept ==
  ASSUME ServerInv, [SessionNext]_sessionVars
  PROVE  ServerInv'
<1>1. CASE UNCHANGED sessionVars
  BY <1>1, ServerStepInv DEF sessionVars
<1>2. CASE SessionNext
  BY <1>2, ServerPart, OwnFaultHarmless, ServerStepInv
<1> QED BY <1>1, <1>2

(***************************************************************************)
(* An only client was one before each step.                                *)
(***************************************************************************)
LEMMA OnlyBefore ==
  ASSUME ServerInv, [SessionNext]_sessionVars, NEW c, OnlyClient(c)'
  PROVE  OnlyClient(c)
<1> SUFFICES ASSUME NEW d \in Clients \ {c} PROVE At(d, "new")
  BY DEF OnlyClient
<1>1. pc'[d] = "new"
  BY DEF OnlyClient, At
<1>2. CASE [Next]_vars
  BY <1>1, <1>2, NeverNewAgain DEF ServerInv
<1>3. CASE OwnFault
  BY <1>1, <1>3 DEF OwnFault, clients, At
<1>4. [Next]_vars \/ OwnFault
  BY ServerPart DEF sessionVars
<1> QED BY <1>2, <1>3, <1>4

-----------------------------------------------------------------------------
(***************************************************************************)
(* The types of the composition.                                           *)
(***************************************************************************)
LEMMA SessionTypesStep ==
  ASSUME TypeOK, WireTypes, SessionTypes, Serving, [SessionNext]_sessionVars
  PROVE  SessionTypes'
<1> USE DEF SessionTypes
<1>1. CASE UNCHANGED sessionVars
  BY <1>1 DEF sessionVars, store
<1>2. CASE Connected
  BY <1>2 DEF Connected, files, store, Store!Connect
<1>3. CASE TakeRequest
  <2>1. session \in Clients
    BY <1>3, ReceiveTypes DEF TakeRequest, HandleFile
  <2>2. file[session] \in MaybeTables
    BY <2>1
  <2>3. file' \in [Clients -> MaybeTables] /\ incoming' \in MaybeTables
    BY <1>3, <2>2 DEF TakeRequest, AnnouncedTables, MaybeTables
  <2> QED BY <1>3, <2>3 DEF TakeRequest, store
<1>4. CASE Acknowledge
  <2>1. \E t \in MaybeTables : promised' = [promised EXCEPT ![incoming.name] = t]
    BY <1>4 DEF Acknowledge, Promise, MaybeTables
  <2> QED BY <1>4, <2>1 DEF Acknowledge, files, store
<1>5. CASE OtherServerStep
  BY <1>5 DEF OtherServerStep, files, store
<1>6. CASE BeginUpload
  <2>1. PICK t \in ReadAs : Store!Begin(t)
    BY <1>6 DEF BeginUpload
  <2>2. t \in Tables
    BY DEF ReadAs
  <2>3. current' \in [Names -> MaybeTables] /\ writer' \in MaybeTables
    BY <2>1, <2>2 DEF Store!Begin, MaybeTables
  <2> QED BY <1>6, <2>3 DEF BeginUpload, files
<1>7. CASE Storing
  BY <1>7 DEF Storing, files, Store!Write
<1>8. CASE StatementFails
  <2>1. promised' = [promised EXCEPT ![incoming.name] = NoTable] /\ UNCHANGED <<file, incoming, current, writer>>
    BY <1>8 DEF StatementFails, files, Promise, Store!Miss
  <2> QED BY <2>1 DEF MaybeTables
<1>9. CASE EndUpload
  <2>1. incoming' = NoTable /\ writer' = NoTable /\ UNCHANGED <<file, promised, current>>
    BY <1>9 DEF EndUpload, Store!Finish, Store!GiveUp, Store!Stop
  <2> QED BY <2>1 DEF MaybeTables
<1>10. CASE Die
  <2>1. /\ file' = [c \in Clients |-> NoTable] /\ incoming' = NoTable /\ writer' = NoTable
        /\ promised' = [n \in Names |-> NoTable] /\ current' = [n \in Names |-> NoTable]
    BY <1>10 DEF Die, Store!Crash, Names
  <2> QED BY <2>1 DEF MaybeTables
<1>11. CASE Disconnect
  <2>1. UNCHANGED <<file, incoming, current, writer>>
        /\ (promised' = promised \/ promised' = [promised EXCEPT ![incoming.name] = NoTable])
    BY <1>11 DEF Disconnect, files, Promise, Store!Disconnect
  <2> QED BY <2>1 DEF MaybeTables
<1>12. CASE Restart /\ UNCHANGED <<store, files, promised>>
  BY <1>12 DEF files, store
<1>13. ASSUME NEW c \in Clients, ClientStep(c) PROVE SessionTypes'
  BY <1>13 DEF ClientStep, files, store
<1>14. ASSUME NEW c \in Clients, NEW t \in Tables, RequestFile(c, t) PROVE SessionTypes'
  BY <1>14 DEF RequestFile, store, MaybeTables
<1> QED BY <1>1, <1>2, <1>3, <1>4, <1>5, <1>6, <1>7, <1>8, <1>9, <1>10, <1>11, <1>12, <1>13, <1>14
        DEF SessionNext, ServiceStep

(***************************************************************************)
(* The announcements of files survive a step that leaves them alone.       *)
(***************************************************************************)
LEMMA AnnouncedKept ==
  ASSUME NEW c \in Clients, Pending(c) /\ want[c] = "FILE_REQUEST" => file[c] \in Tables,
         file'[c] = file[c], want'[c] = want[c], inbox'[c] = inbox[c]
  PROVE  Pending(c)' /\ want'[c] = "FILE_REQUEST" => file'[c] \in Tables
BY DEF Pending

(***************************************************************************)
(* The server serves the table that was announced, and writes only a table *)
(* of that name, and only during the upload.                               *)
(***************************************************************************)
LEMMA ServingStep ==
  ASSUME TypeOK, WireTypes, ~misread => Protocol, SessionTypes, Serving, [SessionNext]_sessionVars
  PROVE  Serving'
<1> DEFINE Announced == ~misread =>
             \A c \in Clients : Pending(c) /\ want[c] = "FILE_REQUEST" => file[c] \in Tables
           Busy == /\ server \in {"accept file", "recv file", "upload"} => incoming \in Tables
                   /\ writer # NoTable => server = "upload" /\ writer.name = incoming.name
                   /\ writer = NoTable => ~missed
<1>0. Announced /\ Busy
  BY DEF Serving
<1> SUFFICES Announced' /\ Busy'
  BY DEF Serving
<1>1. CASE UNCHANGED sessionVars
  BY <1>0, <1>1 DEF sessionVars, vars, clients, wires, store, Pending
<1>2. ASSUME NEW k \in Requests \ {"FILE_REQUEST"}, NEW r, Answer(k, r), UNCHANGED <<writer, missed, files>>,
             server' \notin {"accept file", "recv file", "upload"}
      PROVE  Announced' /\ Busy'
  <2>1. server = "recv"
    BY <1>2 DEF Answer, Receive
  <2>2. Announced'
    <3> SUFFICES ASSUME ~misread' PROVE Announced'
      OBVIOUS
    <3>1. ~misread
      BY <1>2 DEF Answer, Receive
    <3>2. /\ want[session] = k /\ session \in Clients
          /\ \A c \in Clients \ {session} : inbox'[c] = inbox[c]
          /\ want' = want
      BY <1>2, <3>1, ReceiveOne DEF Answer, WireTypes, clients
    <3> QED BY <1>0, <1>2, <3>1, <3>2 DEF files, Pending
  <2>3. writer = NoTable
    BY <1>0, <2>1
  <2> QED BY <1>0, <1>2, <2>2, <2>3 DEF files
<1>3. CASE Connected
  <2>1. \E r : Answer("CONNECTION_REQUEST", r) /\ server' = "recv"
    BY <1>3, ReceiveTypes DEF Connected, AnswerConnection, Answer
  <2>2. UNCHANGED <<writer, missed, files>>
    BY <1>3 DEF Connected, Store!Connect, store
  <2> QED BY <1>2, <2>1, <2>2 DEF Requests
<1>4. CASE TakeRequest
  <2>1. /\ session \in Clients /\ server = "recv" /\ server' = "accept file"
        /\ incoming' \in AnnouncedTables /\ \A c \in Clients \ {session} : file'[c] = file[c]
        /\ UNCHANGED <<writer, missed>>
    BY <1>4, ReceiveTypes DEF TakeRequest, HandleFile, store, SessionTypes
  <2>2. CASE misread'
    BY <1>0, <2>1, <2>2 DEF AnnouncedTables
  <2>3. CASE ~misread'
    <3>1. ~misread
      BY <1>4, <2>3 DEF TakeRequest, HandleFile, Receive
    <3>2. /\ want[session] = "FILE_REQUEST" /\ inbox[session] = <<"FILE_REQUEST">>
          /\ inbox'[session] \in {<<>>, <<"rest">>}
          /\ \A c \in Clients \ {session} : inbox'[c] = inbox[c]
          /\ want' = want
      BY <1>4, <2>3, <3>1, ReceiveOne DEF TakeRequest, HandleFile, WireTypes, Requests, clients
    <3>3. incoming' \in Tables
      BY <1>0, <2>1, <3>1, <3>2 DEF AnnouncedTables, Pending
    <3>4. \A c \in Clients : c = session => ~Pending(c)'
      <4>1. \A q \in {<<>>, <<"rest">>} : q \notin {<<"FILE_REQUEST">>, <<"rest", "FILE_REQUEST">>}
        BY ShortDistinct
      <4> QED BY <3>2, <4>1 DEF Pending
    <3>5. \A c \in Clients \ {session} : Pending(c)' /\ want'[c] = "FILE_REQUEST" => file'[c] \in Tables
      BY <1>0, <2>1, <3>1, <3>2, AnnouncedKept
    <3>6. Announced'
      BY <3>4, <3>5
    <3> QED BY <1>0, <2>1, <3>3, <3>6
  <2> QED BY <2>2, <2>3
<1>5. CASE Acknowledge
  BY <1>0, <1>5 DEF Acknowledge, ReceiveFile, files, store, clients, Pending
<1>6. CASE OtherServerStep
  <2>1. CASE HandleSql \/ HandleOther
    <3>1. \E k \in {"SQL_REQUEST", "OTHER"} : \E r : Answer(k, r) /\ server' \in {"recv", "accept result"}
      BY <2>1, ReceiveTypes DEF HandleSql, HandleOther, Answer
    <3> QED BY <1>2, <1>6, <3>1 DEF OtherServerStep, store, Requests
  <2>2. CASE AcceptClient \/ AcceptData \/ SendResult
    BY <1>0, <1>6, <2>2 DEF OtherServerStep, AcceptClient, AcceptData, SendResult, files, store, clients, wires, Pending
  <2> QED BY <1>6, <2>1, <2>2 DEF OtherServerStep
<1>7. CASE BeginUpload
  <2>1. PICK t \in ReadAs : Store!Begin(t)
    BY <1>7 DEF BeginUpload
  <2>2. t \in Tables /\ t.name = incoming.name
    BY DEF ReadAs
  <2>3. /\ server = "upload" /\ UNCHANGED <<server, inbox, want, misread, file, incoming>>
        /\ writer' = t /\ missed' = FALSE
    BY <1>7, <2>1 DEF BeginUpload, Store!Begin, vars, clients, wires, files
  <2> QED BY <1>0, <2>2, <2>3 DEF Pending
<1>8. CASE Storing
  BY <1>0, <1>8 DEF Storing, Store!Write, vars, clients, wires, files, Pending
<1>9. CASE StatementFails
  BY <1>0, <1>9 DEF StatementFails, Store!Miss, clients, wires, files, Pending
<1>10. CASE EndUpload
  BY <1>0, <1>10 DEF EndUpload, Upload, Store!Finish, Store!GiveUp, Store!Stop, clients, wires, Pending
<1>11. CASE Die
  <2>1. Exit /\ writer' = NoTable /\ missed' = FALSE
    BY <1>11 DEF Die, HandleRest, ServiceDies, Store!Crash
  <2>2. server' = "exited" /\ \A c \in Clients : inbox'[c] = <<>>
    BY <2>1 DEF Exit
  <2>3. \A c \in Clients : ~Pending(c)'
    BY <2>2, ShortDistinct DEF Pending
  <2> QED BY <2>1, <2>2, <2>3
<1>12. CASE Disconnect
  BY <1>0, <1>12 DEF Disconnect, Store!Disconnect, clients, wires, files, Pending
<1>13. CASE Restart /\ UNCHANGED <<store, files, promised>>
  BY <1>0, <1>13 DEF Restart, clients, wires, files, store, Pending
<1>14. ASSUME NEW d \in Clients, ClientStep(d) PROVE Announced' /\ Busy'
  <2>1. UNCHANGED <<server, writer, missed, file, incoming, misread>>
    BY <1>14 DEF ClientStep, files, store, Dial, SendFile, GetReply, FetchResult, HangUp, Request, Open, wires
  <2>2. CASE Dial(d) \/ SendFile(d) \/ GetReply(d) \/ FetchResult(d) \/ HangUp(d)
    BY <1>0, <2>1, <2>2 DEF Dial, SendFile, GetReply, FetchResult, HangUp, Open, wires, Pending
  <2>3. ASSUME NEW k \in Requests \ {"FILE_REQUEST"}, Request(d, k) PROVE Announced'
    <3>1. want'[d] = k /\ \A c \in Clients \ {d} : want'[c] = want[c] /\ inbox'[c] = inbox[c]
      BY <2>3 DEF Request, TypeOK, WireTypes
    <3> QED BY <1>0, <2>1, <3>1, AnnouncedKept
  <2> QED BY <1>0, <1>14, <2>1, <2>2, <2>3 DEF ClientStep
<1>15. ASSUME NEW d \in Clients, NEW t \in Tables, RequestFile(d, t) PROVE Announced' /\ Busy'
  <2>1. /\ file'[d] = t
        /\ \A c \in Clients \ {d} : want'[c] = want[c] /\ inbox'[c] = inbox[c] /\ file'[c] = file[c]
        /\ UNCHANGED <<server, writer, missed, incoming, misread>>
    BY <1>15 DEF RequestFile, Request, TypeOK, WireTypes, SessionTypes, store
  <2> QED BY <1>0, <2>1, AnnouncedKept
<1> QED BY <1>1, <1>3, <1>4, <1>5, <1>6, <1>7, <1>8, <1>9, <1>10, <1>11, <1>12, <1>13, <1>14, <1>15
        DEF SessionNext, ServiceStep

(***************************************************************************)
(* A name is promised only tables of that name.                            *)
(***************************************************************************)
LEMMA StorableStep ==
  ASSUME TypeOK, SessionTypes, Storable, [SessionNext]_sessionVars
  PROVE  Storable'
<1>1. ASSUME UNCHANGED promised PROVE Storable'
  BY <1>1 DEF Storable
<1>2. ASSUME NEW t \in {incoming, NoTable}, Promise(incoming.name, t) PROVE Storable'
  <2>1. \A n \in Names : promised'[n] = promised[n] \/ (n = incoming.name /\ promised'[n] = t)
    BY <1>2 DEF Promise, SessionTypes
  <2> QED BY <2>1 DEF Storable
<1>3. CASE UNCHANGED sessionVars
  BY <1>1, <1>3 DEF sessionVars
<1>4. CASE Acknowledge \/ StatementFails \/ Disconnect
  BY <1>1, <1>2, <1>4 DEF Acknowledge, StatementFails, Disconnect
<1>5. CASE Die
  BY <1>5 DEF Die, Storable
<1>6. CASE Connected \/ TakeRequest \/ OtherServerStep \/ BeginUpload \/ Storing \/ EndUpload
  BY <1>1, <1>6 DEF Connected, TakeRequest, OtherServerStep, BeginUpload, Storing, EndUpload
<1>7. CASE Restart /\ UNCHANGED <<store, files, promised>>
  BY <1>1, <1>7
<1>8. ASSUME NEW c \in Clients, ClientStep(c) \/ \E t \in Tables : RequestFile(c, t) PROVE Storable'
  BY <1>1, <1>8 DEF ClientStep, RequestFile
<1> QED BY <1>3, <1>4, <1>5, <1>6, <1>7, <1>8 DEF SessionNext, ServiceStep

-----------------------------------------------------------------------------
(***************************************************************************)
(* A step that leaves the store and the promises alone, and neither begins *)
(* nor ends an upload, keeps what is owed and what is kept.                *)
(***************************************************************************)
LEMMA PromiseUntouched ==
  ASSUME NEW n \in Names, promised[n] # NoTable,
         (InHand(n) => Owed(n)) /\ (~InHand(n) => Kept(n)),
         UNCHANGED <<promised, whole, current>>,
         server = "upload" <=> server' = "upload",
         server = "upload" =>
           UNCHANGED <<session, socket, success, misread, writer, missed, online, incoming>>
  PROVE  (InHand(n)' => Owed(n)') /\ (~InHand(n)' => Kept(n)')
BY DEF InHand, Owed, Kept

(***************************************************************************)
(* An acknowledgement of the whole file of an only client is owed ...      *)
(***************************************************************************)
LEMMA AcknowledgedOwed ==
  ASSUME ServerInv, ServerInv', SessionTypes, Serving, Promises, Acknowledge,
         session \in Clients, OnlyClient(session), OnlyClient(session)',
         NEW n \in Names, promised'[n] # NoTable
  PROVE  (InHand(n)' => Owed(n)') /\ (~InHand(n)' => Kept(n)')
<1>1. /\ server = "recv file" /\ server' = "upload"
      /\ UNCHANGED <<session, socket, inbox, misread, incoming, writer, missed, online, whole, current>>
      /\ promised' = [promised EXCEPT ![incoming.name] =
                        IF success' /\ online /\ ~Split /\ ~misread THEN incoming ELSE NoTable]
  BY DEF Acknowledge, ReceiveFile, files, store, Promise
<1>2. writer = NoTable /\ ~missed
  BY <1>1 DEF Serving
<1>3. CASE n = incoming.name
  <2>1. success' /\ online /\ ~Split /\ ~misread /\ promised'[n] = incoming
    BY <1>1, <1>3 DEF SessionTypes
  <2>2. socket' = Connection(session', "file")
    <3>1. SuccessIsWhole'
      BY DEF ServerInv
    <3>2. ~Split'
      BY <1>1, <2>1 DEF Split
    <3> QED BY <1>1, <2>1, <3>1, <3>2 DEF SuccessIsWhole
  <2> QED BY <1>1, <1>2, <1>3, <2>1, <2>2 DEF InHand, Owed
<1>4. CASE n # incoming.name
  <2>1. promised'[n] = promised[n]
    BY <1>1, <1>4 DEF SessionTypes
  <2>2. ~InHand(n) /\ ~InHand(n)'
    BY <1>1, <1>4 DEF InHand
  <2>3. Kept(n)
    BY <2>1, <2>2 DEF Promises
  <2>4. UNCHANGED <<whole, current>>
    BY <1>1
  <2>5. Kept(n)'
    BY <2>1, <2>3, <2>4 DEF Kept
  <2> QED BY <2>2, <2>5
<1> QED BY <1>3, <1>4

(***************************************************************************)
(* ... and what is owed when the upload ends is kept: the table is stored  *)
(* and current.  Other tables were not touched.                            *)
(***************************************************************************)
LEMMA UploadKeeps ==
  ASSUME SessionTypes, Serving, Storable, server = "upload", OnlyClient(session),
         \A n \in Names : promised[n] # NoTable =>
           (InHand(n) => Owed(n)) /\ (~InHand(n) => Kept(n)),
         BeginUpload \/ Storing \/ StatementFails \/ EndUpload,
         NEW n \in Names, promised'[n] # NoTable
  PROVE  (InHand(n)' => Owed(n)') /\ (~InHand(n)' => Kept(n)')
<1>1. incoming \in Tables /\ incoming # NoTable
  BY SessionAssumption DEF Serving
<1>2. CASE BeginUpload
  <2>1. PICK t \in ReadAs : Store!Begin(t)
    BY <1>2 DEF BeginUpload
  <2>2. /\ t \in Tables /\ t.name = incoming.name /\ (WholeFile => t = incoming)
        /\ writer' = t /\ current' = [current EXCEPT ![t.name] = t] /\ ~missed'
        /\ (whole' = whole \/ whole' = whole \cup {t})
        /\ UNCHANGED <<promised, incoming, online, server, session, socket, success, misread>>
    BY <1>2, <2>1 DEF BeginUpload, ReadAs, Store!Begin, files, vars, wires
  <2>3. CASE InHand(n)
    <3>1. Owed(n)
      BY <2>2, <2>3
    <3>2. t = incoming
      BY <2>2, <3>1 DEF Owed, WholeFile
    <3>3. current'[n] = incoming
      BY <2>2, <2>3, <3>2 DEF InHand, SessionTypes
    <3> QED BY <2>2, <2>3, <3>1, <3>2, <3>3 DEF InHand, Owed
  <2>4. CASE ~InHand(n)
    <3>1. Kept(n) /\ n # t.name
      BY <2>2, <2>4 DEF InHand
    <3>2. current'[n] = current[n]
      BY <2>2, <3>1 DEF SessionTypes
    <3> QED BY <2>2, <2>4, <3>1, <3>2 DEF InHand, Kept
  <2> QED BY <2>3, <2>4
<1>3. CASE Storing
  <2>1. /\ writer # NoTable
        /\ \A t \in Tables : t.name # writer.name => (t \in whole' <=> t \in whole)
        /\ UNCHANGED <<promised, current, writer, missed, online, incoming, server, session, socket, success, misread>>
    BY <1>3 DEF Storing, Store!Write, files, vars, wires
  <2>2. CASE InHand(n)
    BY <2>1, <2>2 DEF InHand, Owed
  <2>3. CASE ~InHand(n)
    <3>1. Kept(n) /\ promised[n] \in Tables /\ promised[n].name # writer.name
      BY <2>1, <2>3 DEF Storable, Serving, SessionTypes, MaybeTables, InHand
    <3> QED BY <2>1, <2>3, <3>1 DEF InHand, Kept
  <2> QED BY <2>2, <2>3
<1>4. CASE StatementFails
  <2>1. /\ promised' = [promised EXCEPT ![incoming.name] = NoTable]
        /\ UNCHANGED <<whole, current, incoming, server>>
    BY <1>4 DEF StatementFails, Promise, Store!Miss, files
  <2>2. n # incoming.name /\ promised'[n] = promised[n]
    BY <2>1 DEF SessionTypes
  <2>3. ~InHand(n) /\ ~InHand(n)'
    BY <2>1, <2>2 DEF InHand
  <2>4. Kept(n)
    BY <2>2, <2>3
  <2> QED BY <2>1, <2>2, <2>3, <2>4 DEF Kept
<1>5. CASE EndUpload
  <2>1. /\ server' = "recv" /\ UNCHANGED <<promised, whole, current>>
        /\ writer # NoTable
        /\ (missed \/ writer \in whole) \/ ~online
    BY <1>5 DEF EndUpload, Upload, Store!Finish, Store!GiveUp, Store!Stop
  <2>2. ~InHand(n)'
    BY <2>1 DEF InHand
  <2>3. CASE InHand(n)
    <3>1. Owed(n)
      BY <2>1, <2>3
    <3> QED BY <2>1, <2>2, <3>1 DEF Owed, Kept
  <2>4. CASE ~InHand(n)
    BY <2>1, <2>2, <2>4 DEF Kept
  <2> QED BY <2>3, <2>4
<1> QED BY <1>2, <1>3, <1>4, <1>5

(***************************************************************************)
(* Every step keeps the promises.                                          *)
(***************************************************************************)
LEMMA PromisesStep ==
  ASSUME SessionInv, [SessionNext]_sessionVars
  PROVE  Promises'
<1>1. ServerInv' /\ TypeOK /\ WireTypes /\ SessionTypes /\ Serving /\ Storable /\ Promises
  BY ServerInvKept DEF SessionInv, ServerInv
<1>2. TypeOK'
  BY <1>1 DEF ServerInv
<1> DEFINE Good(n) == promised[n] # NoTable => (InHand(n) => Owed(n)) /\ (~InHand(n) => Kept(n))
           None == \A n \in Names : promised[n] = NoTable
<1>3. (session = Nobody => None) /\ (OnlyClient(session) => \A n \in Names : Good(n))
  BY <1>1 DEF Promises
<1> SUFFICES (session' = Nobody => None') /\ (OnlyClient(session)' => \A n \in Names : Good(n)')
  BY DEF Promises
<1> HIDE DEF Good, None
<1>4. None => \A n \in Names : Good(n)
  BY DEF None, Good
<1>5. None' => \A n \in Names : Good(n)'
  BY DEF None, Good
<1>0. session' = session /\ OnlyClient(session)' => OnlyClient(session)
  <2>1. ASSUME NEW c, OnlyClient(c)' PROVE OnlyClient(c)
    BY <2>1, OnlyBefore DEF SessionInv
  <2> QED BY <2>1
<1>6. ASSUME UNCHANGED <<session, promised, whole, current>>,
             server = "upload" <=> server' = "upload",
             server = "upload" => UNCHANGED <<socket, success, misread, writer, missed, online, incoming>>
      PROVE  (session' = Nobody => None') /\ (OnlyClient(session)' => \A n \in Names : Good(n)')
  <2>1. session' = Nobody => None'
    BY <1>3, <1>6 DEF None
  <2>2. OnlyClient(session)' => OnlyClient(session)
    BY <1>6, <1>0
  <2>3. ASSUME NEW n \in Names, Good(n) PROVE Good(n)'
    BY <1>6, <2>3, PromiseUntouched DEF Good
  <2> QED BY <1>3, <2>1, <2>2, <2>3
<1>7. CASE UNCHANGED sessionVars
  BY <1>6, <1>7 DEF sessionVars, vars, wires, store
<1>8. CASE Connected
  <2>1. server = "recv" /\ UNCHANGED <<server, session, promised, whole, current>>
    BY <1>8, ReceiveTypes DEF Connected, AnswerConnection, Answer, Receive, store, Store!Connect
  <2> QED BY <1>6, <2>1
<1>9. CASE TakeRequest
  <2>1. server = "recv" /\ server' = "accept file" /\ UNCHANGED <<session, promised, whole, current>>
    BY <1>9 DEF TakeRequest, HandleFile, Receive, store
  <2> QED BY <1>6, <2>1
<1>10. CASE OtherServerStep
  <2>1. CASE AcceptClient
    <3>1. session = Nobody /\ UNCHANGED promised
      BY <1>1, <1>10, <2>1 DEF OtherServerStep, AcceptClient, TypeOK
    <3>2. None'
      BY <1>3, <3>1 DEF None
    <3> QED BY <1>5, <3>2
  <2>2. CASE ~AcceptClient
    <3>1. server # "upload" /\ server' # "upload" /\ UNCHANGED <<session, promised, whole, current>>
      BY <1>10, <2>2 DEF OtherServerStep, HandleSql, HandleOther, AcceptData, SendResult, Answer, Receive, store
    <3> QED BY <1>6, <3>1
  <2> QED BY <2>1, <2>2
<1>11. CASE Acknowledge
  <2>1. session' = session /\ session \in Clients /\ session # Nobody
    BY <1>1, <1>11, ServerAssumption DEF Acknowledge, ReceiveFile, TypeOK
  <2>2. ASSUME OnlyClient(session)', NEW n \in Names, promised'[n] # NoTable
        PROVE  (InHand(n)' => Owed(n)') /\ (~InHand(n)' => Kept(n)')
    BY <1>0, <1>1, <1>11, <2>1, <2>2, AcknowledgedOwed DEF SessionInv
  <2> QED BY <2>1, <2>2 DEF Good
<1>12. CASE BeginUpload \/ Storing \/ StatementFails \/ EndUpload
  <2>1. server = "upload" /\ session' = session
    BY <1>12 DEF BeginUpload, Storing, StatementFails, EndUpload, Upload, vars
  <2>2. session # Nobody
    BY <1>1, <2>1 DEF TypeOK
  <2>3. ASSUME OnlyClient(session)', NEW n \in Names, promised'[n] # NoTable
        PROVE  (InHand(n)' => Owed(n)') /\ (~InHand(n)' => Kept(n)')
    <3>1. OnlyClient(session)
      BY <1>0, <2>1, <2>3
    <3>2. \A m \in Names : promised[m] # NoTable => (InHand(m) => Owed(m)) /\ (~InHand(m) => Kept(m))
      BY <1>3, <3>1 DEF Good
    <3> QED BY <1>1, <1>12, <2>1, <2>3, <3>1, <3>2, UploadKeeps
  <2> QED BY <2>1, <2>2, <2>3 DEF Good
<1>13. CASE Die
  <2>1. None'
    BY <1>13 DEF Die, None
  <2> QED BY <1>5, <2>1
<1>14. CASE Disconnect
  <2>1. UNCHANGED <<server, session, socket, success, whole, current, writer, missed, incoming>>
    BY <1>14 DEF Disconnect, Store!Disconnect, files
  <2>2. CASE server # "upload"
    BY <1>6, <1>14, <2>1, <2>2 DEF Disconnect
  <2>3. CASE server = "upload"
    <3>1. promised' = [promised EXCEPT ![incoming.name] = NoTable]
      BY <1>14, <2>3 DEF Disconnect, Promise
    <3>2. session' # Nobody
      BY <1>1, <2>1, <2>3 DEF TypeOK
    <3>3. ASSUME OnlyClient(session)', NEW n \in Names, promised'[n] # NoTable
          PROVE  (InHand(n)' => Owed(n)') /\ (~InHand(n)' => Kept(n)')
      <4>1. n # incoming.name /\ promised'[n] = promised[n]
        BY <1>1, <3>1, <3>3 DEF SessionTypes
      <4>2. ~InHand(n) /\ ~InHand(n)'
        BY <2>1, <4>1 DEF InHand
      <4>3. Kept(n)
        BY <1>0, <1>3, <2>1, <3>3, <4>1, <4>2 DEF Good
      <4>4. Kept(n)'
        BY <2>1, <4>1, <4>3 DEF Kept
      <4> QED BY <4>2, <4>4
    <3> QED BY <3>2, <3>3 DEF Good
  <2> QED BY <2>2, <2>3
<1>15. CASE Restart /\ UNCHANGED <<store, files, promised>>
  BY <1>6, <1>15 DEF Restart, store
<1>16. ASSUME NEW c \in Clients, ClientStep(c) \/ \E t \in Tables : RequestFile(c, t)
       PROVE  (session' = Nobody => None') /\ (OnlyClient(session)' => \A n \in Names : Good(n)')
  <2>1. /\ UNCHANGED <<server, session, socket, success, misread>>
        /\ UNCHANGED <<whole, current, writer, missed, online, promised>>
    BY <1>16 DEF ClientStep, RequestFile, store, Dial, SendFile, GetReply, FetchResult, HangUp, Request, Open, wires
  <2>2. UNCHANGED incoming
    BY <1>16 DEF ClientStep, RequestFile, files
  <2> QED BY <1>6, <2>1, <2>2
<1> QED BY <1>7, <1>8, <1>9, <1>10, <1>11, <1>12, <1>13, <1>14, <1>15, <1>16 DEF SessionNext, ServiceStep

-----------------------------------------------------------------------------
(***************************************************************************)
(* The invariant of the composition.                                       *)
(***************************************************************************)
LEMMA SessionInitInv == SessionInit => SessionInv
<1> SUFFICES ASSUME SessionInit PROVE SessionInv
  OBVIOUS
<1>1. ServerInv
  BY ServerInit DEF SessionInit
<1>2. SessionTypes
  BY DEF SessionInit, SessionTypes, MaybeTables, Store!Init, Names
<1>3. server = "accept" /\ session = Nobody /\ \A c \in Clients : inbox[c] = <<>>
  BY DEF SessionInit, Init
<1>4. \A c \in Clients : ~Pending(c)
  BY <1>3, ShortDistinct DEF Pending
<1>5. Serving
  BY <1>3, <1>4 DEF SessionInit, Serving, Store!Init
<1>6. \A n \in Names : promised[n] = NoTable
  BY DEF SessionInit
<1> QED BY <1>1, <1>2, <1>5, <1>6 DEF SessionInv, Storable, Promises

(***************************************************************************)
(* Every step keeps it.                                                    *)
(***************************************************************************)
LEMMA SessionStepInv == SessionInv /\ [SessionNext]_sessionVars => SessionInv'
BY ServerInvKept, SessionTypesStep, ServingStep, StorableStep, PromisesStep DEF SessionInv, ServerInv

(***************************************************************************)
(* What the server guarantees it guarantees with the service behind it.    *)
(***************************************************************************)
THEOREM SessionInvariant == SessionSpec => []SessionInv
BY SessionInitInv, SessionStepInv, PTL DEF SessionSpec

(***************************************************************************)
(* Each table an only client was told to have arrived, and whose storing   *)
(* met no fault, is in the database whole and is the one its queries are   *)
(* planned for, whenever the server takes the next request.                *)
(***************************************************************************)
THEOREM PromisesAlwaysKept == SessionSpec => []PromisesKept
<1>1. SessionInv => PromisesKept
  <2> SUFFICES ASSUME SessionInv, server = "recv", OnlyClient(session),
                      NEW n \in Names, promised[n] # NoTable
               PROVE  promised[n] \in whole /\ current[n] = promised[n]
    BY DEF PromisesKept
  <2>1. ~InHand(n)
    BY DEF InHand
  <2> QED BY <2>1 DEF SessionInv, Promises, Kept
<1> QED BY <1>1, SessionInvariant, PTL
=============================================================================
