--------------------------- MODULE MCClientConnection ---------------------------
(***************************************************************************)
(* Instances of ClientConnection for TLC: secrets of two bytes in arrays   *)
(* for three, whose digits are 0, 9, a and f on either side of a byte.     *)
(***************************************************************************)
EXTENDS ClientConnection

Secret(b) == [i \in 0 .. MaxSecretLength - 1 |-> (b + 96 * i) % 256]

AllSet ==
    [isSet  |-> Labels \cup {"CLIENT_RANDOM"},
     random |-> [i \in 0 .. RandomLength - 1 |-> 9 + 151 * i],
     length |-> 2,
     secret |-> [l \in Labels |->
                    Secret(CASE l = "CLIENT_EARLY_TRAFFIC_SECRET" -> 0
                             [] l = "CLIENT_HANDSHAKE_TRAFFIC_SECRET" -> 9
                             [] l = "SERVER_HANDSHAKE_TRAFFIC_SECRET" -> 160
                             [] l = "CLIENT_TRAFFIC_SECRET_0" -> 154
                             [] OTHER -> 255)]]

MCSecrets == {AllSet, [AllSet EXCEPT !.isSet = Labels \ {"CLIENT_EARLY_TRAFFIC_SECRET"}]}
================================================================================
