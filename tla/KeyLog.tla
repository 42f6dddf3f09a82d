--------------------------------- MODULE KeyLog ---------------------------------
(***************************************************************************)
(* The client's TLS key log: WriteSslKeyLogFile and EncodeHexBuffer of     *)
(* ClientConnectionContext.cpp.  A char array is a function from its       *)
(* indices to character codes, NUL being 0; one array, cleared once, is    *)
(* used for the secrets of all lines in turn, and printed with %s.         *)
(***************************************************************************)
EXTENDS Integers, Sequences

CONSTANTS
    RandomLength,   \* sizeof(ClientRandom): 32
    MaxSecretLength \* QUIC_TLS_SECRETS_MAX_SECRET_LEN: 64

ASSUME KeyLogAssumption == RandomLength \in Nat /\ MaxSecretLength \in Nat

Byte == 0..255
Labels == {"CLIENT_EARLY_TRAFFIC_SECRET", "CLIENT_HANDSHAKE_TRAFFIC_SECRET",
           "SERVER_HANDSHAKE_TRAFFIC_SECRET", "CLIENT_TRAFFIC_SECRET_0",
           "SERVER_TRAFFIC_SECRET_0"}

\* QUIC_TLS_SECRETS: what msquic has set, and one length for all secrets.
TlsSecrets ==
    [isSet  : SUBSET (Labels \cup {"CLIENT_RANDOM"}),
     random : [0 .. RandomLength - 1 -> Byte],
     length : 0 .. MaxSecretLength,
     secret : [Labels -> [0 .. MaxSecretLength - 1 -> Byte]]]

\* A cleared array for the digits of n bytes and the final NUL.
Cleared(n) == [j \in 0 .. 2 * n |-> 0]

\* HEX_TO_CHAR: '0' is 48, 'a' is 97.
HexChar(x) == IF x > 9 THEN 97 + (x - 10) ELSE 48 + x

\* The nibble that digit j of the buffer shows.
Nibble(buffer, j) == IF j % 2 = 0 THEN buffer[j \div 2] \div 16 ELSE buffer[j \div 2] % 16

\* Fault: the last byte is left out.
EncodeHexBufferShort(buffer, buffer_len, hex_string) ==
    [j \in DOMAIN hex_string |->
        IF j < 2 * buffer_len - 2 THEN HexChar(Nibble(buffer, j)) ELSE hex_string[j]]

EncodeHexBuffer(buffer, buffer_len, hex_string) ==
    [j \in DOMAIN hex_string |->
        IF j < 2 * buffer_len THEN HexChar(Nibble(buffer, j)) ELSE hex_string[j]]

\* What %s prints of an array: the characters before the first NUL.
Printed(hex_string) ==
    LET end == CHOOSE n \in DOMAIN hex_string :
                   hex_string[n] = 0 /\ \A i \in 0 .. n - 1 : hex_string[i] # 0
    IN  [i \in 1 .. end |-> hex_string[i - 1]]

\* client_random_buffer
RandomHex(tls) ==
    IF "CLIENT_RANDOM" \in tls.isSet
    THEN EncodeHexBuffer(tls.random, RandomLength, Cleared(RandomLength))
    ELSE Cleared(RandomLength)

\* The block of one label leaves temp_hex_buffer alone if its secret is not set.
Block(tls, label, temp) ==
    IF label \in tls.isSet THEN EncodeHexBuffer(tls.secret[label], tls.length, temp) ELSE temp

\* WriteSslKeyLogFile: the lines it prints, by their labels.
WriteSslKeyLogFile(tls) ==
    LET temp1 == Block(tls, "CLIENT_EARLY_TRAFFIC_SECRET", Cleared(MaxSecretLength))
        temp2 == Block(tls, "CLIENT_HANDSHAKE_TRAFFIC_SECRET", temp1)
        temp3 == Block(tls, "SERVER_HANDSHAKE_TRAFFIC_SECRET", temp2)
        temp4 == Block(tls, "CLIENT_TRAFFIC_SECRET_0", temp3)
        temp5 == Block(tls, "SERVER_TRAFFIC_SECRET_0", temp4)
        temp(label) == CASE label = "CLIENT_EARLY_TRAFFIC_SECRET"     -> temp1
                         [] label = "CLIENT_HANDSHAKE_TRAFFIC_SECRET" -> temp2
                         [] label = "SERVER_HANDSHAKE_TRAFFIC_SECRET" -> temp3
                         [] label = "CLIENT_TRAFFIC_SECRET_0"         -> temp4
                         [] label = "SERVER_TRAFFIC_SECRET_0"         -> temp5
    IN  [label \in Labels \cap tls.isSet |->
            [random |-> Printed(RandomHex(tls)), secret |-> Printed(temp(label))]]

-----------------------------------------------------------------------------
(* What a reader of the file makes of a line. *)

Digit(char) == IF char > 96 THEN char - 87 ELSE char - 48

Decoded(text) ==
    [i \in 0 .. Len(text) \div 2 - 1 |-> 16 * Digit(text[2 * i + 1]) + Digit(text[2 * i + 2])]

\* The bytes of a secret that count.
Bytes(tls, label) == [i \in 0 .. tls.length - 1 |-> tls.secret[label][i]]

ReadsBack(tls, file) ==
    /\ DOMAIN file = Labels \cap tls.isSet
    /\ \A label \in DOMAIN file :
          /\ Decoded(file[label].secret) = Bytes(tls, label)
          /\ "CLIENT_RANDOM" \in tls.isSet => Decoded(file[label].random) = tls.random
================================================================================
