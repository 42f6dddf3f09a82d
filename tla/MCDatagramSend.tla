----------------------------- MODULE MCDatagramSend -----------------------------
(***************************************************************************)
(* Instances of DatagramSend for TLC, with a cast of 3 bits.               *)
(***************************************************************************)
EXTENDS DatagramSend
================================================================================
