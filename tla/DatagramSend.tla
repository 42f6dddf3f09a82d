------------------------------ MODULE DatagramSend ------------------------------
(***************************************************************************)
(* ClientConnectionContext::DatagramSend: the application thread splits a  *)
(* message into chunks of at most max_send_length bytes and hands each to  *)
(* msquic in a buffer of its own, while msquic's worker changes            *)
(* max_send_length, datagram_send_enabled and connection_ok under it and   *)
(* frees the buffers whose datagrams are done with.                        *)
(***************************************************************************)
EXTENDS Integers

CONSTANTS
    Message,      \* length of the message
    MaxLengths,   \* values msquic may report as MaxSendLength
    Garbage,      \* what an uninitialised max_send_length may hold
    ChunkValues,  \* values the uint16_t cast can tell apart: 2^16 in the code
    StateFirst    \* msquic reports the datagram state before CONNECTED

ASSUME DatagramSendAssumption ==
    /\ Message \in Nat
    /\ MaxLengths \subseteq Nat /\ Garbage \subseteq Nat
    /\ ChunkValues \in Nat \ {0}
    /\ StateFirst \in BOOLEAN

Bytes == 0..(Message - 1)

VARIABLES
    conn,       \* the connection: "handshake", "up" or "down"
    datagram_send_enabled, max_send_length,
    reported,   \* DATAGRAM_STATE_CHANGED has been delivered
    worker,     \* the worker's place in the DATAGRAM_STATE_CHANGED handler
    app,        \* the application's place in DatagramSend
    data, len,  \* the cursor into the message, and what is left of it
    chunk,      \* length of the chunk being sent
    taken,      \* bytes in datagrams msquic accepted
    refused,    \* bytes in datagrams it refused
    held,       \* buffers msquic may still read, by the offset they begin at
    allocated   \* send buffers that have not been freed, by the same offset;
                \* the buffers of empty chunks are not tracked

vars == <<conn, datagram_send_enabled, max_send_length, reported, worker,
          app, data, len, chunk, taken, refused, held, allocated>>
state  == <<conn, datagram_send_enabled, max_send_length, reported, worker>>
send   == <<app, data, len, chunk, taken, refused>>
buffer == <<held, allocated>>

connection_ok == conn = "up"

\* datagram_send_enabled and max_send_length have no initialiser.
Init ==
    /\ conn = "handshake"
    /\ datagram_send_enabled \in BOOLEAN
    /\ max_send_length \in Garbage
    /\ reported = FALSE
    /\ worker = "idle"
    /\ app = "call"
    /\ data = 0 /\ len = Message /\ chunk = 0
    /\ taken = {} /\ refused = {}
    /\ held = {} /\ allocated = {}

-----------------------------------------------------------------------------
(* ClientConnectionCallback, on the worker. *)

Connected ==
    /\ worker = "idle" /\ conn = "handshake" /\ (StateFirst => reported)
    /\ conn' = "up"
    /\ UNCHANGED <<datagram_send_enabled, max_send_length, reported, worker, send, buffer>>

\* SHUTDOWN_INITIATED_BY_TRANSPORT, _BY_PEER and SHUTDOWN_COMPLETE.
Down ==
    /\ worker = "idle" /\ conn # "down"
    /\ conn' = "down"
    /\ UNCHANGED <<datagram_send_enabled, max_send_length, reported, worker, send, buffer>>

\* DATAGRAM_STATE_CHANGED writes the length, and then whether sending is enabled.
StateChanged ==
    /\ worker = "idle"
    /\ max_send_length' \in MaxLengths
    /\ worker' = "enable"
    /\ UNCHANGED <<conn, datagram_send_enabled, reported, send, buffer>>

SendEnabled ==
    /\ worker = "enable"
    /\ datagram_send_enabled' \in BOOLEAN
    /\ reported' = TRUE
    /\ worker' = "idle"
    /\ UNCHANGED <<conn, max_send_length, send, buffer>>

\* Fault: the buffer is freed on any change of the datagram's send state.
SendStateFreesAlways(first) ==
    /\ worker = "idle" /\ first \in held
    /\ allocated' = allocated \ {first}
    /\ \E final \in BOOLEAN : held' = IF final THEN held \ {first} ELSE held
    /\ UNCHANGED <<state, send>>

\* DATAGRAM_SEND_STATE_CHANGED: a final state is the last msquic reports of a
\* datagram, and frees its buffer; any other leaves it alone.
SendStateFinal(first) ==
    /\ worker = "idle" /\ first \in held
    /\ held' = held \ {first}
    /\ allocated' = allocated \ {first}
    /\ UNCHANGED <<state, send>>

-----------------------------------------------------------------------------
(* DatagramSend, on the application thread. *)

\* Fault: only datagram_send_enabled is asked, which may not have been written yet.
CallUnconnected ==
    /\ app = "call"
    /\ app' = IF datagram_send_enabled THEN "while" ELSE "returned"
    /\ UNCHANGED <<state, data, len, chunk, taken, refused, buffer>>

Call ==
    /\ app = "call"
    /\ app' = IF connection_ok /\ datagram_send_enabled THEN "while" ELSE "returned"
    /\ UNCHANGED <<state, data, len, chunk, taken, refused, buffer>>

\* Fault: the length is not bounded by what is left of the message.
ChunkUnbounded(left, max) == max % ChunkValues

\* Fault: the cast is to a narrower type than max_send_length needs.
ChunkNarrow(left, max) == (IF left < max THEN left ELSE max) % 2

\* uint32_t chunk = (uint16_t)min(len, max_send_length)
ChunkLength(left, max) == (IF left < max THEN left ELSE max) % ChunkValues

Buffer(length) == IF length = 0 THEN {} ELSE {data}

\* while(len): allocate and fill the next buffer; malloc may fail.
Fill ==
    /\ app = "while" /\ len # 0
    /\ \/ /\ chunk' = ChunkLength(len, max_send_length)
          /\ allocated' = allocated \cup Buffer(chunk')
          /\ app' = "send"
       \/ app' = "returned" /\ UNCHANGED <<chunk, allocated>>
    /\ UNCHANGED <<state, data, len, taken, refused, held>>

Finish ==
    /\ app = "while" /\ len = 0
    /\ app' = "returned"
    /\ UNCHANGED <<state, data, len, chunk, taken, refused, buffer>>

InChunk == {i \in Bytes : data <= i /\ i < data + chunk}

Advance ==
    /\ len' = len - chunk
    /\ data' = data + chunk
    /\ app' = "while"

\* ms_quic->DatagramSend takes the buffer ...
SendAccepted ==
    /\ app = "send"
    /\ taken' = taken \cup InChunk
    /\ held' = held \cup Buffer(chunk)
    /\ Advance
    /\ UNCHANGED <<state, chunk, refused, allocated>>

\* Fault: a refused chunk is sent again, but its buffer has been freed.
SendRefusedRetries ==
    /\ app = "send"
    /\ refused' = refused \cup InChunk
    /\ allocated' = allocated \ Buffer(chunk)
    /\ app' = "while"
    /\ UNCHANGED <<state, data, len, chunk, taken, held>>

\* ... or refuses it, and the chunk is dropped with its buffer.
SendRefused ==
    /\ app = "send"
    /\ refused' = refused \cup InChunk
    /\ allocated' = allocated \ Buffer(chunk)
    /\ Advance
    /\ UNCHANGED <<state, chunk, taken, held>>

-----------------------------------------------------------------------------
App == Call \/ Fill \/ Finish \/ SendAccepted \/ SendRefused

Worker ==
    \/ Connected \/ Down \/ StateChanged \/ SendEnabled
    \/ \E first \in held : SendStateFinal(first)

Next == App \/ Worker

Spec == Init /\ [][Next]_vars

\* The application thread runs.
FairSpec == Spec /\ WF_vars(App)
-----------------------------------------------------------------------------
TypeOK ==
    /\ conn \in {"handshake", "up", "down"} /\ datagram_send_enabled \in BOOLEAN
    /\ max_send_length \in Nat
    /\ reported \in BOOLEAN /\ worker \in {"idle", "enable"}
    /\ app \in {"call", "while", "send", "returned"}
    /\ data \in Nat /\ len \in Nat /\ chunk \in Nat
    /\ taken \subseteq Bytes /\ refused \subseteq Bytes
    /\ held \subseteq 0..Message /\ allocated \subseteq 0..Message

\* Whatever lengths msquic reports while the loop runs, each byte of the message
\* is given to msquic once, in order, and none is skipped.
EveryByteOnce ==
    /\ taken \cap refused = {}
    /\ taken \cup refused = {i \in Bytes : i < data}
    /\ data + len = Message

\* A buffer msquic may still read is not freed, and a buffer is not leaked: it is
\* msquic's, or the one the loop is about to hand over.
BuffersHaveOneOwner ==
    /\ held \subseteq allocated
    /\ allocated \subseteq held \cup (IF app = "send" THEN Buffer(chunk) ELSE {})

\* Every round of the loop shortens the message: neither the uninitialised length nor
\* what the cast makes of a length is ever a chunk of 0, on which it would not end.
EachRoundShortens == app = "send" => chunk > 0

\* The message is sent, or given up, in the end.
SendReturns == (app = "call") ~> (app = "returned")
================================================================================
