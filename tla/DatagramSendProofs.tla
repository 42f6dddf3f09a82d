--------------------------- MODULE DatagramSendProofs ---------------------------
(***************************************************************************)
(* Proofs about DatagramSend, for every message length, every set of       *)
(* lengths msquic may report (0 and those the cast cuts included) and      *)
(* every width of the cast.                                                *)
(***************************************************************************)
EXTENDS DatagramSend, TLAPS

\* A chunk never reaches beyond the message, whatever the cast makes of it.
LEMMA ChunkWithinMessage ==
    ASSUME NEW left \in Nat, NEW max \in Nat
    PROVE  /\ ChunkLength(left, max) \in Nat
           /\ ChunkLength(left, max) <= left
<1> DEFINE least == IF left < max THEN left ELSE max
<1>1. least \in Nat /\ least <= left
    OBVIOUS
<1>2. ASSUME NEW x \in Nat, NEW n \in Nat \ {0} PROVE x % n \in Nat /\ x % n <= x
  <2>1. x % n \in 0..(n - 1)
    BY <1>2
  <2>2. CASE x < n
    BY <2>2
  <2>3. CASE n <= x
    BY <2>1, <2>3
  <2>4. QED
    BY <2>1, <2>2, <2>3
<1> HIDE DEF least
<1>3. least % ChunkValues \in Nat /\ least % ChunkValues <= least
    BY <1>1, <1>2, DatagramSendAssumption
<1>4. QED
    BY <1>1, <1>3 DEF ChunkLength, least

\* While the loop hands a chunk over, the chunk is part of what is left and its
\* buffer is allocated; buffers msquic holds are of chunks behind the cursor.
ChunkInside == app = "send" => chunk <= len /\ Buffer(chunk) \subseteq allocated

HeldBehind == \A first \in held : first < data

IInv == TypeOK /\ EveryByteOnce /\ BuffersHaveOneOwner /\ ChunkInside /\ HeldBehind

\* The invariant holds before the call.
LEMMA InvInit == Init => IInv
<1> SUFFICES ASSUME Init PROVE IInv
    OBVIOUS
<1>1. TypeOK
    BY DatagramSendAssumption DEF Init, TypeOK
<1>2. {i \in Bytes : i < 0} = {}
    BY DatagramSendAssumption DEF Bytes
<1>3. EveryByteOnce
    BY <1>2, DatagramSendAssumption DEF Init, EveryByteOnce
<1>4. BuffersHaveOneOwner /\ ChunkInside /\ HeldBehind
    BY DEF Init, BuffersHaveOneOwner, ChunkInside, HeldBehind
<1>5. QED
    BY <1>1, <1>3, <1>4 DEF IInv

\* Every step of the loop and of the worker keeps it.
LEMMA InvStep == IInv /\ [Next]_vars => IInv'
<1> SUFFICES ASSUME IInv, [Next]_vars PROVE IInv'
    OBVIOUS
<1> USE DatagramSendAssumption DEF IInv
<1>1. CASE UNCHANGED vars
    BY <1>1 DEF vars, TypeOK, EveryByteOnce, BuffersHaveOneOwner, Buffer, ChunkInside, HeldBehind
\* The worker's reports do not touch the message or its buffers.
<1>2. ASSUME Connected \/ Down \/ StateChanged \/ SendEnabled PROVE IInv'
  <2>1. UNCHANGED <<app, data, len, chunk, taken, refused, held, allocated>>
    BY <1>2 DEF Connected, Down, StateChanged, SendEnabled, send, buffer
  <2>2. TypeOK'
    BY <1>2, <2>1 DEF Connected, Down, StateChanged, SendEnabled, TypeOK
  <2>3. QED
    BY <2>1, <2>2 DEF EveryByteOnce, BuffersHaveOneOwner, Buffer, ChunkInside, HeldBehind
<1>3. ASSUME NEW first \in held, SendStateFinal(first) PROVE IInv'
  <2>1. /\ held' = held \ {first} /\ allocated' = allocated \ {first}
        /\ UNCHANGED <<state, conn, datagram_send_enabled, max_send_length, reported, worker,
                       app, data, len, chunk, taken, refused>>
    BY <1>3 DEF SendStateFinal, state, send
  <2>2. BuffersHaveOneOwner'
    BY <2>1 DEF BuffersHaveOneOwner, Buffer
  <2>3. ChunkInside'
    BY <2>1 DEF ChunkInside, HeldBehind, Buffer, TypeOK
  <2>4. QED
    BY <2>1, <2>2, <2>3 DEF TypeOK, EveryByteOnce, HeldBehind
<1>4. ASSUME Call \/ Finish PROVE IInv'
  <2>1. /\ app # "send" /\ app' \in {"while", "returned"}
        /\ UNCHANGED <<conn, datagram_send_enabled, max_send_length, reported, worker,
                       data, len, chunk, taken, refused, held, allocated>>
    BY <1>4 DEF Call, Finish, state, buffer
  <2>2. QED
    BY <2>1 DEF TypeOK, EveryByteOnce, BuffersHaveOneOwner, ChunkInside, HeldBehind
<1>5. ASSUME Fill PROVE IInv'
  <2>1. /\ app = "while"
        /\ UNCHANGED <<conn, datagram_send_enabled, max_send_length, reported, worker,
                       data, len, taken, refused, held>>
    BY <1>5 DEF Fill, state
  <2>2. CASE app' = "returned" /\ UNCHANGED <<chunk, allocated>>
    BY <2>1, <2>2 DEF TypeOK, EveryByteOnce, BuffersHaveOneOwner, ChunkInside, HeldBehind
  <2>3. CASE /\ chunk' = ChunkLength(len, max_send_length)
             /\ allocated' = allocated \cup Buffer(chunk') /\ app' = "send"
    <3>1. chunk' \in Nat /\ chunk' <= len
      BY <2>3, ChunkWithinMessage DEF TypeOK
    <3>2. data \in 0..Message
      BY DEF TypeOK, EveryByteOnce
    <3>3. TypeOK'
      BY <2>1, <2>3, <3>1, <3>2 DEF TypeOK, Buffer
    <3>4. BuffersHaveOneOwner'
      BY <2>1, <2>3 DEF BuffersHaveOneOwner, Buffer
    <3>5. ChunkInside'
      BY <2>1, <2>3, <3>1 DEF ChunkInside, Buffer
    <3>6. QED
      BY <2>1, <3>3, <3>4, <3>5 DEF EveryByteOnce, HeldBehind
  <2>4. QED
    BY <1>5, <2>2, <2>3 DEF Fill
<1>6. ASSUME SendAccepted \/ SendRefused PROVE IInv'
  <2>1. /\ app = "send" /\ app' = "while" /\ len' = len - chunk /\ data' = data + chunk
        /\ UNCHANGED <<conn, datagram_send_enabled, max_send_length, reported, worker, chunk>>
        /\ taken' \cup refused' = taken \cup refused \cup InChunk
        /\ taken' \cap refused' \subseteq (taken \cap refused) \cup (InChunk \cap (taken \cup refused))
        /\ taken' \subseteq taken \cup InChunk /\ refused' \subseteq refused \cup InChunk
    BY <1>6 DEF SendAccepted, SendRefused, Advance, state
  <2>2. chunk \in Nat /\ chunk <= len /\ data \in Nat /\ len \in Nat /\ data + len = Message
    BY <2>1 DEF TypeOK, ChunkInside, EveryByteOnce
  <2>3. InChunk \cap (taken \cup refused) = {}
    BY <2>2 DEF InChunk, EveryByteOnce, Bytes
  <2>4. {i \in Bytes : i < data} \cup InChunk = {i \in Bytes : i < data + chunk}
    BY <2>2 DEF InChunk, Bytes
  <2>5. EveryByteOnce'
    BY <2>1, <2>2, <2>3, <2>4 DEF EveryByteOnce, Bytes
  <2>6. Buffer(chunk) \subseteq 0..Message /\ Buffer(chunk) \cap held = {}
    BY <2>2 DEF Buffer, HeldBehind
  <2>7. \/ held' = held \cup Buffer(chunk) /\ allocated' = allocated
        \/ held' = held /\ allocated' = allocated \ Buffer(chunk)
    BY <1>6 DEF SendAccepted, SendRefused
  <2>8. BuffersHaveOneOwner'
    <3>1. /\ held \subseteq allocated /\ allocated \subseteq held \cup Buffer(chunk)
          /\ Buffer(chunk) \subseteq allocated
      BY <2>1 DEF BuffersHaveOneOwner, ChunkInside
    <3>2. held' \subseteq allocated' /\ allocated' \subseteq held'
      BY <2>6, <2>7, <3>1
    <3>3. QED
      BY <3>2 DEF BuffersHaveOneOwner
  <2>9. HeldBehind'
    <3>1. \A first \in held \cup Buffer(chunk) : first \in 0..Message /\ first < data + chunk
      BY <2>2 DEF HeldBehind, Buffer, TypeOK
    <3>2. QED
      BY <2>1, <2>7, <3>1 DEF HeldBehind
  <2>10. TypeOK'
    <3>1. InChunk \subseteq Bytes
      BY DEF InChunk
    <3>2. taken' \subseteq Bytes /\ refused' \subseteq Bytes
      BY <2>1, <3>1 DEF TypeOK
    <3>3. held' \subseteq 0..Message /\ allocated' \subseteq 0..Message
      BY <2>6, <2>7 DEF TypeOK
    <3>4. data' \in Nat /\ len' \in Nat
      BY <2>1, <2>2
    <3>5. QED
      BY <2>1, <3>2, <3>3, <3>4 DEF TypeOK, Bytes
  <2>11. QED
    BY <2>1, <2>5, <2>8, <2>9, <2>10 DEF ChunkInside
<1>7. QED
    BY <1>1, <1>2, <1>3, <1>4, <1>5, <1>6 DEF Next, App, Worker

\* The inductive invariant of DatagramSend.
THEOREM InvHolds == Spec => []IInv
    BY InvInit, InvStep, PTL DEF Spec

\* Every variable of DatagramSend keeps its type: what is left of the message
\* never wraps below zero.
THEOREM TypeCorrect == Spec => []TypeOK
    BY InvHolds, PTL DEF IInv

\* Each byte of the message is given to msquic once and none is skipped, whatever
\* lengths the worker writes while the loop runs.
THEOREM EachByteGivenOnce == Spec => []EveryByteOnce
    BY InvHolds, PTL DEF IInv

\* No send buffer is freed under msquic, and none is leaked.
THEOREM NoBufferLostOrFreedEarly == Spec => []BuffersHaveOneOwner
    BY InvHolds, PTL DEF IInv

-----------------------------------------------------------------------------
(* Termination, as far as safety goes.  It needs what SendReturns needs: that  *)
(* lengths fit the cast and are not 0, and that msquic reports the state       *)
(* before CONNECTED.                                                           *)

Sound == StateFirst /\ MaxLengths \subseteq 1..(ChunkValues - 1)

\* The loop only runs once a length has been reported.
LengthReported ==
    /\ worker = "enable" \/ reported => max_send_length \in MaxLengths
    /\ conn = "up" => reported
    /\ app \in {"while", "send"} => reported
    /\ EachRoundShortens

\* A length msquic may report makes no chunk of 0.
LEMMA ChunkNotEmpty ==
    ASSUME Sound, NEW left \in Nat \ {0}, NEW max \in MaxLengths
    PROVE  ChunkLength(left, max) > 0
<1> DEFINE least == IF left < max THEN left ELSE max
<1>1. least \in 1..(ChunkValues - 1)
    BY DatagramSendAssumption DEF Sound
<1> HIDE DEF least
<1>2. least % ChunkValues = least
    BY <1>1, DatagramSendAssumption
<1>3. QED
    BY <1>1, <1>2 DEF ChunkLength, least

\* Every step keeps it.
LEMMA ReportedStep ==
    ASSUME Sound PROVE IInv /\ LengthReported /\ [Next]_vars => LengthReported'
<1> SUFFICES ASSUME IInv, LengthReported, [Next]_vars PROVE LengthReported'
    OBVIOUS
<1> USE DEF LengthReported, EachRoundShortens, connection_ok, state, send, buffer
<1>1. CASE UNCHANGED vars
    BY <1>1 DEF vars
<1>2. CASE Connected
    BY <1>2 DEF Connected, Sound
<1>3. CASE Down
    BY <1>3 DEF Down
<1>4. CASE StateChanged \/ SendEnabled
    BY <1>4 DEF StateChanged, SendEnabled
<1>5. CASE \E first \in held : SendStateFinal(first)
    BY <1>5 DEF SendStateFinal
<1>6. CASE Call
    BY <1>6 DEF Call
<1>7. CASE Fill
  <2>1. len \in Nat \ {0} /\ max_send_length \in MaxLengths
    BY <1>7 DEF Fill, IInv, TypeOK
  <2>2. ChunkLength(len, max_send_length) > 0
    BY <2>1, ChunkNotEmpty
  <2>3. QED
    BY <1>7, <2>2 DEF Fill
<1>8. CASE Finish \/ SendAccepted \/ SendRefused
    BY <1>8 DEF Finish, SendAccepted, SendRefused, Advance
<1>9. QED
    BY <1>1, <1>2, <1>3, <1>4, <1>5, <1>6, <1>7, <1>8 DEF Next, App, Worker

\* If msquic reports the datagram state first, and only lengths that fit the cast, each
\* round of DatagramSend shortens the message: what is left of SendReturns is that
\* the thread is scheduled.
THEOREM RoundsShorten == ASSUME Sound PROVE Spec => []EachRoundShortens
<1>1. Init => LengthReported
    BY DEF Init, LengthReported, EachRoundShortens
<1>2. LengthReported => EachRoundShortens
    BY DEF LengthReported
<1>3. IInv /\ LengthReported /\ [Next]_vars => LengthReported'
    BY ReportedStep
<1>4. QED
    BY <1>1, <1>2, <1>3, InvHolds, PTL DEF Spec
================================================================================
