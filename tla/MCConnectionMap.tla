---------------------------- MODULE MCConnectionMap ----------------------------
(***************************************************************************)
(* Instances of ConnectionMap for TLC.                                     *)
(***************************************************************************)
EXTENDS ConnectionMap, TLC

\* Clients are interchangeable, and so are msquic's workers.
ConnSymmetry == Permutations(Conns)
WorkerSymmetry == Permutations(Conns) \cup Permutations(Workers)
================================================================================
