----------------------------- MODULE TableStore -----------------------------
(***************************************************************************)
(* What storing promises, without its statements: the service stores one   *)
(* table at a time and remembers it as the current one of its name; the    *)
(* database holds some of the tables whole.  A table that is being stored  *)
(* may disturb earlier versions of itself and nothing else, and when its   *)
(* upload ends it is whole, unless a write was missed or the connection    *)
(* was gone.  A crash takes the memory of the service and leaves the       *)
(* database as it is.                                                      *)
(*                                                                         *)
(* UploadService implements this; Session is built on it.                  *)
(***************************************************************************)
CONSTANTS Tables, NoTable

VARIABLES
  whole,    \* the uploaded tables that are in the database with all entries
  current,  \* per name: the table the service believes it has stored
  writer,   \* the table being stored
  missed,   \* whether a write of it failed
  online    \* whether the service has a connection that works

vars == <<whole, current, writer, missed, online>>

Names == {t.name : t \in Tables}

Init ==
  /\ whole = {}
  /\ current = [n \in Names |-> NoTable]
  /\ writer = NoTable /\ missed = FALSE
  /\ online = FALSE

Connect ==
  /\ writer = NoTable /\ online' = TRUE
  /\ UNCHANGED <<whole, current, writer, missed>>

Disconnect ==
  /\ online /\ online' = FALSE
  /\ UNCHANGED <<whole, current, writer, missed>>

(***************************************************************************)
(* The current table changes before anything is written.  A version whose  *)
(* entries an earlier one has stored is whole at once.                     *)
(***************************************************************************)
Begin(t) ==
  /\ writer = NoTable /\ writer' = t
  /\ current' = [current EXCEPT ![t.name] = t]
  /\ missed' = FALSE
  /\ whole' \in {whole, whole \cup {t}}
  /\ UNCHANGED online

(***************************************************************************)
(* Some entries of the table are written: other tables are left alone, and *)
(* the table itself never loses what it has.                               *)
(***************************************************************************)
Write ==
  /\ writer # NoTable /\ online
  /\ whole' \in SUBSET Tables
  /\ \A t \in Tables : t.name # writer.name => (t \in whole' <=> t \in whole)
  /\ writer \in whole => writer \in whole'
  /\ UNCHANGED <<current, writer, missed, online>>

Miss ==
  /\ writer # NoTable /\ missed' = TRUE
  /\ UNCHANGED <<whole, current, writer, online>>

Stop == writer' = NoTable /\ missed' = FALSE /\ UNCHANGED <<whole, current, online>>

Finish ==
  /\ writer # NoTable
  /\ missed \/ writer \in whole
  /\ Stop

GiveUp == writer # NoTable /\ ~online /\ Stop

Crash ==
  /\ current' = [n \in Names |-> NoTable]
  /\ writer' = NoTable /\ missed' = FALSE
  /\ online' = FALSE
  /\ UNCHANGED whole

Next ==
  \/ Connect \/ Disconnect
  \/ \E t \in Tables : Begin(t)
  \/ Write \/ Miss \/ Finish \/ GiveUp
  \/ Crash

Spec == Init /\ [][Next]_vars
=============================================================================
