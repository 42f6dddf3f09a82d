--------------------------- MODULE MCServerConnection ---------------------------
(***************************************************************************)
(* Instances of ServerConnection for TLC.                                  *)
(***************************************************************************)
EXTENDS ServerConnection
================================================================================
