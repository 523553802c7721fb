------------------------------ MODULE MCServer ------------------------------
(***************************************************************************)
(* A small instance of Server.                                             *)
(***************************************************************************)
EXTENDS Server

CONSTANTS c1, c2, c3

ThreeClients == {c1, c2, c3}
=============================================================================
