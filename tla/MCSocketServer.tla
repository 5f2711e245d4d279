-------------------------- MODULE MCSocketServer --------------------------
(***************************************************************************)
(* Clients for model checking SocketServer.                                *)
(***************************************************************************)
EXTENDS SocketServer

CONSTANTS alice, bob
=============================================================================
