------------------------------ MODULE MCQUICServer ------------------------------
(***************************************************************************)
(* Instances of QUICServer for TLC.                                        *)
(***************************************************************************)
EXTENDS QUICServer
================================================================================
