----------------------------- MODULE MCClientHttp3 -----------------------------
(***************************************************************************)
(* Instances of ClientHttp3 for TLC: HTTP/3 streams begin with one vector, *)
(* a request is two (frame header and field section).                      *)
(***************************************************************************)
EXTENDS ClientHttp3

MCVectors == [s \in Streams |-> IF s \in Callers THEN 2 ELSE 1]
================================================================================
