------------------------------ MODULE KeyLogProofs ------------------------------
(***************************************************************************)
(* A reader of the key log gets the secrets msquic has set, for every      *)
(* secret, every secret length and every size of the arrays: although one  *)
(* array, cleared once, serves all lines, a line ends with its secret.     *)
(***************************************************************************)
EXTENDS KeyLog, TLAPS

\* An array for n bytes that is clear from the digits of len bytes on.
ClearFrom(hex, n, len) ==
    /\ DOMAIN hex = 0 .. 2 * n
    /\ \A j \in 2 * len .. 2 * n : hex[j] = 0

\* A digit is never NUL, and is read back as the nibble it shows.
LEMMA DigitOfHexChar == \A x \in 0..15 : HexChar(x) \in Nat \ {0} /\ Digit(HexChar(x)) = x
BY DEF HexChar, Digit

\* A byte is made of its nibbles.
LEMMA ByteOfNibbles ==
    ASSUME NEW b \in 0..255
    PROVE  b \div 16 \in 0..15 /\ b % 16 \in 0..15 /\ 16 * (b \div 16) + (b % 16) = b
<1>1. b \div 16 \in 0..15 /\ b % 16 \in 0..15
    OBVIOUS
<1>2. b % 16 = b - 16 * (b \div 16)
    OBVIOUS
<1>3. QED
    BY <1>1, <1>2

\* EncodeHexBuffer fills in the digits and leaves the end of the array clear.
LEMMA EncodeFills ==
    ASSUME NEW n \in Nat, NEW len \in 0..n, NEW size \in Nat, len <= size,
           NEW buffer \in [0 .. size - 1 -> Byte],
           NEW hex, ClearFrom(hex, n, len)
    PROVE  LET e == EncodeHexBuffer(buffer, len, hex) IN
           /\ ClearFrom(e, n, len)
           /\ \A j \in 0 .. 2 * len - 1 : e[j] = HexChar(Nibble(buffer, j)) /\ e[j] # 0
           /\ \A i \in 0 .. len - 1 :
                 16 * Digit(e[2 * i]) + Digit(e[2 * i + 1]) = buffer[i]
<1> DEFINE e == EncodeHexBuffer(buffer, len, hex)
<1>1. /\ DOMAIN e = 0 .. 2 * n
      /\ \A j \in 0 .. 2 * n : e[j] = IF j < 2 * len THEN HexChar(Nibble(buffer, j)) ELSE hex[j]
    BY DEF EncodeHexBuffer, ClearFrom
<1> HIDE DEF e
<1>2. ClearFrom(e, n, len)
    BY <1>1 DEF ClearFrom
<1>3. \A j \in 0 .. 2 * len - 1 : e[j] = HexChar(Nibble(buffer, j))
    BY <1>1
<1>4. ASSUME NEW j \in 0 .. 2 * len - 1 PROVE Nibble(buffer, j) \in 0..15
  <2>1. j \div 2 \in 0 .. size - 1
    OBVIOUS
  <2>2. buffer[j \div 2] \in 0..255
    BY <2>1 DEF Byte
  <2>3. buffer[j \div 2] \div 16 \in 0..15 /\ buffer[j \div 2] % 16 \in 0..15
    BY <2>2, ByteOfNibbles
  <2>4. QED
    BY <2>3 DEF Nibble
<1>5. \A j \in 0 .. 2 * len - 1 : e[j] # 0 /\ Digit(e[j]) = Nibble(buffer, j)
    BY <1>3, <1>4, DigitOfHexChar
<1>6. ASSUME NEW i \in 0 .. len - 1
      PROVE  16 * Digit(e[2 * i]) + Digit(e[2 * i + 1]) = buffer[i]
  <2>1. /\ 2 * i \in 0 .. 2 * len - 1 /\ 2 * i + 1 \in 0 .. 2 * len - 1
        /\ (2 * i) % 2 = 0 /\ (2 * i) \div 2 = i
        /\ (2 * i + 1) % 2 = 1 /\ (2 * i + 1) \div 2 = i
    OBVIOUS
  <2>2. Digit(e[2 * i]) = buffer[i] \div 16 /\ Digit(e[2 * i + 1]) = buffer[i] % 16
    <3>1. Nibble(buffer, 2 * i) = buffer[i] \div 16
      BY <2>1, Zenon DEF Nibble
    <3>2. Nibble(buffer, 2 * i + 1) = buffer[i] % 16
      <4>1. (2 * i + 1) % 2 # 0
        BY <2>1
      <4>2. QED
        BY <2>1, <4>1, Zenon DEF Nibble
    <3>3. QED
      BY <1>5, <2>1, <3>1, <3>2
  <2>3. buffer[i] \in 0..255
    BY DEF Byte
  <2>4. 16 * (buffer[i] \div 16) + (buffer[i] % 16) = buffer[i]
    BY <2>3, ByteOfNibbles
  <2>5. QED
    BY <2>2, <2>4, Zenon
<1>7. QED
    BY <1>2, <1>3, <1>5, <1>6 DEF e

\* What is printed of a clear array whose first characters are not NUL.
LEMMA PrintedUpToNul ==
    ASSUME NEW n \in Nat, NEW len \in 0..n, NEW hex, ClearFrom(hex, n, len),
           \A j \in 0 .. 2 * len - 1 : hex[j] # 0
    PROVE  Printed(hex) = [i \in 1 .. 2 * len |-> hex[i - 1]]
<1> DEFINE Ends(m) == hex[m] = 0 /\ \A i \in 0 .. m - 1 : hex[i] # 0
<1>1. 2 * len \in DOMAIN hex /\ Ends(2 * len)
    BY DEF ClearFrom
<1>2. ASSUME NEW m \in DOMAIN hex, Ends(m) PROVE m = 2 * len
    BY <1>1, <1>2 DEF ClearFrom
<1>3. (CHOOSE m \in DOMAIN hex : Ends(m)) = 2 * len
    BY <1>1, <1>2
<1>4. QED
    BY <1>3 DEF Printed

\* A printed line is read back as the bytes that went in.
LEMMA LineReadsBack ==
    ASSUME NEW n \in Nat, NEW len \in 0..n, NEW size \in Nat, len <= size,
           NEW buffer \in [0 .. size - 1 -> Byte],
           NEW hex, ClearFrom(hex, n, len)
    PROVE  Decoded(Printed(EncodeHexBuffer(buffer, len, hex))) = [i \in 0 .. len - 1 |-> buffer[i]]
<1> DEFINE e == EncodeHexBuffer(buffer, len, hex)
           text == [i \in 1 .. 2 * len |-> e[i - 1]]
<1>1. /\ ClearFrom(e, n, len)
      /\ \A j \in 0 .. 2 * len - 1 : e[j] # 0
      /\ \A i \in 0 .. len - 1 : 16 * Digit(e[2 * i]) + Digit(e[2 * i + 1]) = buffer[i]
    BY EncodeFills
<1> HIDE DEF e
<1>2. Printed(e) = text
    BY <1>1, PrintedUpToNul
<1>3. Len(text) = 2 * len
    OBVIOUS
<1>4. (2 * len) \div 2 = len
    OBVIOUS
<1>5. \A i \in 0 .. len - 1 : text[2 * i + 1] = e[2 * i] /\ text[2 * i + 2] = e[2 * i + 1]
    OBVIOUS
<1> HIDE DEF text
<1>6. Decoded(text) = [i \in 0 .. len - 1 |-> buffer[i]]
    BY <1>1, <1>3, <1>4, <1>5 DEF Decoded
<1>7. QED
    BY <1>2, <1>6 DEF e

\* The block of a label hands the next one an array that is clear where it must be.
LEMMA BlockReadsBack ==
    ASSUME NEW tls \in TlsSecrets, NEW label \in Labels,
           NEW temp, ClearFrom(temp, MaxSecretLength, tls.length)
    PROVE  LET block == Block(tls, label, temp) IN
           /\ ClearFrom(block, MaxSecretLength, tls.length)
           /\ label \in tls.isSet => Decoded(Printed(block)) = Bytes(tls, label)
<1>1. CASE label \notin tls.isSet
    BY <1>1 DEF Block
<1>2. CASE label \in tls.isSet
  <2>1. Block(tls, label, temp) = EncodeHexBuffer(tls.secret[label], tls.length, temp)
    BY <1>2 DEF Block
  <2>2. /\ MaxSecretLength \in Nat /\ tls.length \in 0..MaxSecretLength
        /\ tls.length <= MaxSecretLength
        /\ tls.secret[label] \in [0 .. MaxSecretLength - 1 -> Byte]
    BY KeyLogAssumption DEF TlsSecrets
  <2>3. Decoded(Printed(Block(tls, label, temp))) = Bytes(tls, label)
    <3>1. Decoded(Printed(EncodeHexBuffer(tls.secret[label], tls.length, temp)))
             = [i \in 0 .. tls.length - 1 |-> tls.secret[label][i]]
      <4> DEFINE n == MaxSecretLength
                 len == tls.length
                 buffer == tls.secret[label]
      <4>1. /\ n \in Nat /\ len \in 0..n /\ len <= n
            /\ buffer \in [0 .. n - 1 -> Byte] /\ ClearFrom(temp, n, len)
        BY <2>2
      <4> HIDE DEF n, len, buffer
      <4>2. Decoded(Printed(EncodeHexBuffer(buffer, len, temp)))
               = [i \in 0 .. len - 1 |-> buffer[i]]
        BY <4>1, LineReadsBack, SMTT(30)
      <4>3. QED
        BY <4>2, Zenon DEF len, buffer
    <3>2. QED
      BY <2>1, <3>1, Zenon DEF Bytes
  <2>4. ClearFrom(Block(tls, label, temp), MaxSecretLength, tls.length)
    BY <2>1, <2>2, EncodeFills
  <2>5. QED
    BY <2>3, <2>4
<1>3. QED
    BY <1>1, <1>2

\* The random of the client has an array of its own.
LEMMA RandomReadsBack ==
    ASSUME NEW tls \in TlsSecrets, "CLIENT_RANDOM" \in tls.isSet
    PROVE  Decoded(Printed(RandomHex(tls))) = tls.random
<1>1. RandomLength \in Nat /\ RandomLength \in 0..RandomLength /\ RandomLength <= RandomLength
      /\ tls.random \in [0 .. RandomLength - 1 -> Byte]
    BY KeyLogAssumption DEF TlsSecrets
<1>2. ClearFrom(Cleared(RandomLength), RandomLength, RandomLength)
    BY <1>1 DEF ClearFrom, Cleared
<1>3. Decoded(Printed(RandomHex(tls))) = [i \in 0 .. RandomLength - 1 |-> tls.random[i]]
    BY <1>1, <1>2, LineReadsBack DEF RandomHex
<1>4. QED
    BY <1>1, <1>3

\* Each line of the key log reads back as the secret msquic has set under its label,
\* whichever secrets are set and however long they are.
THEOREM KeyLogIsReadable == \A tls \in TlsSecrets : ReadsBack(tls, WriteSslKeyLogFile(tls))
<1> SUFFICES ASSUME NEW tls \in TlsSecrets PROVE ReadsBack(tls, WriteSslKeyLogFile(tls))
    OBVIOUS
<1> DEFINE Clear(temp) == ClearFrom(temp, MaxSecretLength, tls.length)
           Good(label, temp) == label \in tls.isSet => Decoded(Printed(temp)) = Bytes(tls, label)
           temp1 == Block(tls, "CLIENT_EARLY_TRAFFIC_SECRET", Cleared(MaxSecretLength))
           temp2 == Block(tls, "CLIENT_HANDSHAKE_TRAFFIC_SECRET", temp1)
           temp3 == Block(tls, "SERVER_HANDSHAKE_TRAFFIC_SECRET", temp2)
           temp4 == Block(tls, "CLIENT_TRAFFIC_SECRET_0", temp3)
           temp5 == Block(tls, "SERVER_TRAFFIC_SECRET_0", temp4)
           temp(label) == CASE label = "CLIENT_EARLY_TRAFFIC_SECRET"     -> temp1
                            [] label = "CLIENT_HANDSHAKE_TRAFFIC_SECRET" -> temp2
                            [] label = "SERVER_HANDSHAKE_TRAFFIC_SECRET" -> temp3
                            [] label = "CLIENT_TRAFFIC_SECRET_0"         -> temp4
                            [] label = "SERVER_TRAFFIC_SECRET_0"         -> temp5
           file == WriteSslKeyLogFile(tls)
<1>1. file = [label \in Labels \cap tls.isSet |->
                 [random |-> Printed(RandomHex(tls)), secret |-> Printed(temp(label))]]
    BY Zenon DEF WriteSslKeyLogFile
<1>2. Clear(Cleared(MaxSecretLength))
  <2>1. MaxSecretLength \in Nat /\ tls.length \in 0..MaxSecretLength
    BY KeyLogAssumption DEF TlsSecrets
  <2>2. QED
    BY <2>1 DEF ClearFrom, Cleared
<1>3. Clear(temp1) /\ Good("CLIENT_EARLY_TRAFFIC_SECRET", temp1)
    BY <1>2, BlockReadsBack DEF Labels
<1> HIDE DEF temp1
<1>4. Clear(temp2) /\ Good("CLIENT_HANDSHAKE_TRAFFIC_SECRET", temp2)
    BY <1>3, BlockReadsBack DEF Labels
<1> HIDE DEF temp2
<1>5. Clear(temp3) /\ Good("SERVER_HANDSHAKE_TRAFFIC_SECRET", temp3)
    BY <1>4, BlockReadsBack DEF Labels
<1> HIDE DEF temp3
<1>6. Clear(temp4) /\ Good("CLIENT_TRAFFIC_SECRET_0", temp4)
    BY <1>5, BlockReadsBack DEF Labels
<1> HIDE DEF temp4
<1>7. Good("SERVER_TRAFFIC_SECRET_0", temp5)
    BY <1>6, BlockReadsBack DEF Labels
<1> HIDE DEF temp5
<1>8. ASSUME NEW label \in Labels \cap tls.isSet
      PROVE  Decoded(Printed(temp(label))) = Bytes(tls, label)
    BY <1>3, <1>4, <1>5, <1>6, <1>7 DEF Labels
<1> HIDE DEF temp
<1>9. /\ DOMAIN file = Labels \cap tls.isSet
      /\ \A label \in Labels \cap tls.isSet :
            /\ file[label].secret = Printed(temp(label))
            /\ file[label].random = Printed(RandomHex(tls))
    BY <1>1
<1> HIDE DEF file
<1>10. QED
    BY <1>8, <1>9, RandomReadsBack DEF ReadsBack, file
================================================================================
