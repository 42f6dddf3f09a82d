------------------------- MODULE ClientConnectionProofs -------------------------
(***************************************************************************)
(* Proofs about ClientConnection, for any set of calls that fail, any      *)
(* secrets and any sizes of their arrays.  The inductive invariant says    *)
(* what the main thread holds and knows at each place of its way, what an  *)
(* id that was read says of its stream, and what is in stream_map.         *)
(***************************************************************************)
EXTENDS ClientConnection, KeyLogProofs, FiniteSetTheorems

Early == {"library", "registration", "configuration", "credential", "connect"}
Waiting == Early \cup {"fields", "wait"}
Closing == {"closeregistration", "closelibrary", "ended"}
Opening == {"open", "start", "getid"}

\* What the main thread holds at its place.
HeldAtPlace ==
    /\ main.at = "library" =>
          ms_quic = "null" /\ registration = "garbage" /\ configuration = "garbage"
    /\ main.at = "registration" =>
          ms_quic = "open" /\ registration = "garbage" /\ configuration = "garbage"
    /\ main.at = "configuration" => registration = "open" /\ configuration = "garbage"
    /\ main.at = "credential"    => configuration = "bare"
    /\ main.at \in Early         => conn = "none"
    /\ main.at \notin Early \cup {"fields"} => (connection_ok => conn \in {"up", "closing"})
    /\ main.at \notin Waiting    => conn \in {"up", "closing", "closed"}
    /\ main.at \notin Closing    => (conn # "none" => configuration = "open")
    /\ main.at \in Closing       => configuration = "closed"
    /\ main.at \in {"closelibrary", "ended"} => registration = "closed" /\ conn = "closed"
    /\ main.at = "ended"         => ms_quic = "closed"

\* A handle is open under its parent's, and is closed at one place.
Nested ==
    /\ ms_quic = "null" => registration = "garbage"
    /\ registration = "garbage" => configuration = "garbage"
    /\ configuration \in {"bare", "open"} => registration = "open"
    /\ registration = "open" => ms_quic = "open"
    /\ configuration = "closed" => main.at \in Closing
    /\ registration = "closed" => main.at \in {"closelibrary", "ended"}
    /\ ms_quic = "closed" => main.at = "ended"

\* The order the main thread takes the streams in.
Position(s) == CASE s = "control" -> 1 [] s = "encoder" -> 2 [] s = "decoder" -> 3 [] OTHER -> 4

\* How far it has come with them at its place.
StreamsAtPlace ==
    /\ main.at \in Waiting \cup {"init"} => \A s \in Streams : stream[s] = "none"
    /\ main.at \in Opening =>
          /\ main.on \in Streams
          /\ \A r \in Streams : Position(r) > Position(main.on) => stream[r] = "none"
          /\ \A r \in Streams : Position(r) < Position(main.on) => readId[r] # NoId
    /\ main.at = "open"   => stream[main.on] = "none"
    /\ main.at = "start"  => stream[main.on] = "opened"
    /\ main.at = "getid"  => stream[main.on] \notin {"none", "opened"} /\ readId[main.on] = NoId
    /\ main.at \in {"http3", "waithttp3"} => stream["request"] = "none"
    /\ main.at = "http3" \/ http3_stream_ok => \A s \in Http3Streams : readId[s] # NoId
    /\ main.at = "submit" => readId["request"] # NoId
    /\ main.at = "send"   => main.on \in Streams

\* What msquic's view of a stream says of its id, and of the id that was read.
StreamStates ==
    /\ \A s \in Streams :
          /\ stream[s] \in {"none", "opened", "starting", "failed"} => id[s] = NoId
          /\ stream[s] \in {"started", "ending"} => id[s] # NoId
          /\ stream[s] \in {"none", "opened", "starting"} => readId[s] = NoId
          /\ readId[s] # NoId => \/ readId[s] = id[s]
                                 \/ readId[s] = 0 /\ stream[s] \in {"failed", "closed"}
    /\ conn \in {"starting", "up"} =>
          \A s \in Http3Streams : /\ stream[s] # "failed"
                                  /\ stream[s] = "closed" => id[s] # NoId

\* The HTTP/3 streams that have their ids.
Issued == {r \in Http3Streams : id[r] # NoId}

Ids ==
    /\ id["request"] \in {NoId, 0}
    /\ \A s \in Http3Streams : id[s] # NoId => 2 <= id[s] /\ id[s] < 2 + 4 * Cardinality(Issued)
    /\ \A r, s \in Http3Streams : id[r] # NoId /\ id[r] = id[s] => r = s

\* What is in stream_map.
Mapped ==
    /\ \A e \in stream_map : readId[e[2]] = e[1]
    /\ \A e, f \in stream_map : e[1] = f[1] => e = f
    /\ \A s \in Streams : readId[s] # NoId => \E e \in stream_map : e[1] = readId[s]
    /\ \A s \in Http3Streams : readId[s] # NoId /\ readId[s] = id[s] => <<id[s], s>> \in stream_map
    /\ \A s \in Http3Streams : readId[s] = 0 => \E e \in stream_map : e[1] = 0 /\ e[2] # "request"
    /\ \A key \in pending : \E e \in stream_map : e[1] = key

Logged == key_log \in {<<>>, WriteSslKeyLogFile(secrets)}

IInv ==
    /\ TypeOK /\ HeldAtPlace /\ Nested
    /\ StreamsAtPlace /\ StreamStates /\ Ids /\ Mapped
    /\ Logged
-----------------------------------------------------------------------------
LEMMA Afters ==
    /\ After("control") = "encoder" /\ After("encoder") = "decoder" /\ After("decoder") = "none"
    /\ Position("control") = 1 /\ Position("encoder") = 2 /\ Position("decoder") = 3
    /\ Position("request") = 4
BY DEF After, Position

LEMMA IssuedIsFinite == IsFiniteSet(Issued) /\ Cardinality(Issued) \in Nat
<1>1. IsFiniteSet({"control", "encoder", "decoder"})
  <2>1. IsFiniteSet({}) /\ IsFiniteSet({} \cup {"control"})
    BY FS_EmptySet, FS_AddElement
  <2>2. IsFiniteSet(({} \cup {"control"}) \cup {"encoder"})
    BY <2>1, FS_AddElement
  <2>3. IsFiniteSet((({} \cup {"control"}) \cup {"encoder"}) \cup {"decoder"})
    BY <2>2, FS_AddElement
  <2>4. (({} \cup {"control"}) \cup {"encoder"}) \cup {"decoder"} = {"control", "encoder", "decoder"}
    OBVIOUS
  <2>5. QED
    BY <2>3, <2>4, Zenon
<1>2. QED
    BY <1>1, FS_Subset, FS_CardinalityType DEF Issued, Http3Streams

LEMMA InvInit == Init => IInv
<1> SUFFICES ASSUME Init PROVE IInv
    OBVIOUS
<1> USE ClientConnectionAssumption DEF Init
<1>1. TypeOK
    BY DEF TypeOK, NoId
<1>2. HeldAtPlace /\ Nested
    BY DEF HeldAtPlace, Nested, Early, Waiting, Closing
<1>3. StreamsAtPlace /\ StreamStates
    BY DEF StreamsAtPlace, StreamStates, Waiting, Early, Opening, Http3Streams, Streams, NoId
<1>4. Ids /\ Mapped
    BY DEF Ids, Mapped, Streams, Http3Streams, NoId
<1>5. QED
    BY <1>1, <1>2, <1>3, <1>4 DEF IInv, Logged

\* Every variable keeps its type.
LEMMA TypeStep == IInv /\ [Next]_vars => TypeOK'
<1> SUFFICES ASSUME IInv, [Next]_vars PROVE TypeOK'
    OBVIOUS
<1> USE DEF TypeOK, client, flags, map, http3, log, MainAt, Goto
<1>i. TypeOK /\ StreamsAtPlace /\ Ids
    BY DEF IInv
<1>s. "request" \in Streams /\ Http3Streams \subseteq Streams /\ "none" \notin Streams
    BY DEF Streams, Http3Streams
<1>1. CASE UNCHANGED vars
    BY <1>1, <1>i DEF vars
<1>2. CASE OpenLibrary
    BY <1>2, <1>i DEF OpenLibrary
<1>3. CASE RegistrationOpen
    BY <1>3, <1>i DEF RegistrationOpen
<1>4. CASE ConfigurationOpen
    BY <1>4, <1>i DEF ConfigurationOpen
<1>5. CASE LoadCredential
    BY <1>5, <1>i DEF LoadCredential
<1>6. CASE GetConnection
    BY <1>6, <1>i DEF GetConnection
<1>7. CASE InitFields
    BY <1>7, <1>i DEF InitFields
<1>8. CASE WaitConnection
    BY <1>8, <1>i DEF WaitConnection
<1>9. CASE CheckConnection
    BY <1>9, <1>i DEF CheckConnection, Streams, Http3Streams
<1>10. CASE StreamOpen
    BY <1>10, <1>i DEF StreamOpen, StreamsAtPlace, Opening
<1>11. CASE StreamStart
    BY <1>11, <1>i DEF StreamStart, StreamsAtPlace, Opening
<1>12. CASE StreamOpenFails
  <2>1. conn' \in {"none", "starting", "up", "closing", "closed"} /\ proc' \in {"up", "terminated"}
    BY <1>12, <1>i DEF StreamOpenFails, UseConnection, QuicShutdown
  <2>2. \/ http3_stream_ok' = http3_stream_ok /\ main' = [at |-> "sleep", on |-> "none"]
        \/ http3_stream_ok' = FALSE /\ main' = [at |-> "waithttp3", on |-> "none"]
    BY <1>12, Zenon DEF StreamOpenFails, OpenFailed
  <2>3. CASE http3_stream_ok' = http3_stream_ok /\ main' = [at |-> "sleep", on |-> "none"]
    BY <1>12, <1>i, <2>1, <2>3 DEF StreamOpenFails
  <2>4. CASE http3_stream_ok' = FALSE /\ main' = [at |-> "waithttp3", on |-> "none"]
    BY <1>12, <1>i, <2>1, <2>4 DEF StreamOpenFails
  <2>5. QED
    BY <2>2, <2>3, <2>4
<1>13. CASE StreamStartFails
  <2>1. conn' \in {"none", "starting", "up", "closing", "closed"} /\ proc' \in {"up", "terminated"}
    BY <1>13, <1>i DEF StreamStartFails, UseConnection, QuicShutdown
  <2>2. \/ http3_stream_ok' = http3_stream_ok /\ main' = [at |-> "sleep", on |-> "none"]
        \/ http3_stream_ok' = FALSE /\ main' = [at |-> "waithttp3", on |-> "none"]
    BY <1>13, Zenon DEF StreamStartFails, OpenFailed
  <2>3. CASE http3_stream_ok' = http3_stream_ok /\ main' = [at |-> "sleep", on |-> "none"]
    BY <1>13, <1>i, <2>1, <2>3 DEF StreamStartFails
  <2>4. CASE http3_stream_ok' = FALSE /\ main' = [at |-> "waithttp3", on |-> "none"]
    BY <1>13, <1>i, <2>1, <2>4 DEF StreamStartFails
  <2>5. QED
    BY <2>2, <2>3, <2>4
<1>14. CASE OpenStream
  <2>1. main.on \in Streams
    BY <1>14, <1>i DEF OpenStream, StreamsAtPlace, Opening
  <2>2. ReadId(main.on) \in Nat
    BY <1>i, <2>1 DEF ReadId
  <2>3. readId' \in [Streams -> Nat \cup {NoId}] /\ stream_map' \subseteq Nat \X Streams
    BY <1>14, <1>i, <2>1, <2>2 DEF OpenStream, Register
  <2>4. main' \in [at : {"submit", "http3", "open"}, on : Streams \cup {"none"}]
    BY <1>14, <2>1, Afters DEF OpenStream, Streams, Http3Streams
  <2>5. proc' \in {"up", "terminated"}
    BY <1>14 DEF OpenStream, UseStream
  <2>6. QED
    BY <1>14, <1>i, <2>3, <2>4, <2>5 DEF OpenStream
<1>15. CASE NewClientHttp3
  <2>1. \A s \in Http3Streams : readId[s] \in Nat
    BY <1>15, <1>i, <1>s DEF NewClientHttp3, StreamsAtPlace
  <2>2. BindStreams \/ (nghttp3' = "broken" /\ UNCHANGED <<pending, proc>>)
    BY <1>15, Zenon DEF NewClientHttp3
  <2>3. pending' \subseteq Nat
    <3>1. CASE \E bound \in SUBSET Http3Streams : pending' = {readId[s] : s \in bound}
      BY <2>1, <3>1
    <3>2. CASE UNCHANGED pending
      BY <1>i, <3>2
    <3>3. QED
      BY <2>2, <3>1, <3>2, Zenon DEF BindStreams
  <2>4. nghttp3' \in {"bound", "partly", "broken"}
    BY <2>2, Zenon DEF BindStreams
  <2>5. proc' \in {"up", "terminated"}
    <3>1. proc' = proc \/ proc' = "terminated"
      BY <2>2, Zenon DEF BindStreams
    <3>2. QED
      BY <1>i, <3>1
  <2>6. QED
    BY <1>15, <1>i, <2>3, <2>4, <2>5 DEF NewClientHttp3
<1>16. CASE WaitHttp3
    BY <1>16, <1>i, <1>s DEF WaitHttp3
<1>17. CASE SubmitRequest
  <2>1. readId["request"] \in Nat
    BY <1>17, <1>i, <1>s DEF SubmitRequest, StreamsAtPlace
  <2>2. QED
    <3>1. pending' \subseteq Nat
      BY <1>17, <1>i, <2>1 DEF SubmitRequest
    <3>2. \/ main' = [at |-> "pump", on |-> "none"]
          \/ main' = [at |-> "sleep", on |-> "none"]
          \/ main' = main
      BY <1>17, Zenon DEF SubmitRequest
    <3>3. main' \in [at : {"pump", "sleep"}, on : {"none"}] \/ main' = main
      BY <3>2
    <3>4. QED
      BY <1>17, <1>i, <3>1, <3>3 DEF SubmitRequest
<1>18. ASSUME NEW key \in pending, NextWrite(key) PROVE TypeOK'
  <2>1. main' = main \/ \E s \in Streams : main' = [at |-> "send", on |-> s]
    BY <1>18, <1>i DEF NextWrite
  <2>2. QED
    BY <1>18, <1>i, <2>1 DEF NextWrite
<1>19. CASE StreamSend
    BY <1>19, <1>i DEF StreamSend, UseStream, StreamsAtPlace
<1>20. CASE PumpEnds
    BY <1>20, <1>i DEF PumpEnds
<1>21. CASE Wake
    BY <1>21, <1>i DEF Wake
<1>22. CASE ConnectionShutdown
    BY <1>22, <1>i DEF ConnectionShutdown, QuicShutdown, UseConnection
<1>23. CASE ConfigurationClose
    BY <1>23, <1>i DEF ConfigurationClose
<1>24. CASE RegistrationClose
    BY <1>24, <1>i DEF RegistrationClose
<1>25. CASE MsQuicClose
    BY <1>25, <1>i DEF MsQuicClose
<1>26. CASE Connected
    BY <1>26, <1>i DEF Connected
<1>27. CASE ShutdownInitiated
  <2>1. /\ conn' \in {"none", "starting", "up", "closing", "closed"}
        /\ connection_ok' \in BOOLEAN
    BY <1>27 DEF ShutdownInitiated
  <2>2. /\ UNCHANGED <<ms_quic, registration, configuration, http3_stream_ok, main, stream, id>>
        /\ UNCHANGED <<readId, stream_map, nghttp3, pending, held, secrets, proc>>
    BY <1>27, Zenon DEF ShutdownInitiated
  <2>3. QED
    BY <1>i, <2>1, <2>2
<1>28. CASE ShutdownComplete
  <2>1. /\ conn' \in {"none", "starting", "up", "closing", "closed"}
        /\ connection_ok' \in BOOLEAN
    BY <1>28 DEF ShutdownComplete
  <2>2. /\ UNCHANGED <<ms_quic, registration, configuration, http3_stream_ok, main, stream, id>>
        /\ UNCHANGED <<readId, stream_map, nghttp3, pending, held, secrets, proc>>
    BY <1>28, Zenon DEF ShutdownComplete
  <2>3. QED
    BY <1>i, <2>1, <2>2
<1>29. ASSUME NEW s \in Streams, IssueId(s) PROVE TypeOK'
  <2>1. NextId(s) \in Nat
    BY IssuedIsFinite DEF NextId, Issued
  <2>2. QED
    BY <1>29, <1>i, <2>1 DEF IssueId
<1>30. ASSUME NEW s \in Streams, SendComplete(s) \/ StreamEnding(s) \/ StreamShutdownComplete(s)
       PROVE  TypeOK'
  <2>1. CASE SendComplete(s)
    BY <2>1, <1>i DEF SendComplete
  <2>2. CASE StreamEnding(s)
    BY <2>2, <1>i DEF StreamEnding
  <2>3. CASE StreamShutdownComplete(s)
    BY <2>3, <1>i DEF StreamShutdownComplete
  <2>4. QED
    BY <1>30, <2>1, <2>2, <2>3
<1>31. QED
    BY <1>1, <1>2, <1>3, <1>4, <1>5, <1>6, <1>7, <1>8, <1>9, <1>10,
       <1>11, <1>12, <1>13, <1>14, <1>15, <1>16, <1>17, <1>18, <1>19, <1>20,
       <1>21, <1>22, <1>23, <1>24, <1>25, <1>26, <1>27, <1>28, <1>29, <1>30,
       Zenon DEF Next, Main, Msquic, Peer

\* The handles and the connection stay what the place of the main thread says.
LEMMA HandlesStep == IInv /\ [Next]_vars => HeldAtPlace' /\ Nested'
<1> SUFFICES ASSUME IInv, [Next]_vars PROVE HeldAtPlace' /\ Nested'
    OBVIOUS
<1> USE DEF HeldAtPlace, Nested, Early, Waiting, Closing, client, MainAt, Goto
<1>i. TypeOK /\ HeldAtPlace /\ Nested
    BY DEF IInv
<1>t. /\ conn \in {"none", "starting", "up", "closing", "closed"}
      /\ configuration \in {"garbage", "bare", "open", "closed"}
      /\ registration \in {"garbage", "open", "closed"}
      /\ ms_quic \in {"null", "open", "closed"}
    BY <1>i DEF TypeOK
<1>1. CASE UNCHANGED vars
  <2>1. UNCHANGED <<ms_quic, registration, configuration, conn, connection_ok, main>>
    BY <1>1, Zenon DEF vars
  <2>2. QED
    BY <1>i, <2>1
<1>2. CASE OpenLibrary
    BY <1>2, <1>i DEF OpenLibrary
<1>3. CASE RegistrationOpen
    BY <1>3, <1>i DEF RegistrationOpen
<1>4. CASE ConfigurationOpen
    BY <1>4, <1>i DEF ConfigurationOpen
<1>5. CASE LoadCredential
    BY <1>5, <1>i DEF LoadCredential
<1>6. CASE GetConnection
    BY <1>6, <1>i DEF GetConnection
<1>7. CASE InitFields
    BY <1>7, <1>i DEF InitFields
<1>8. CASE WaitConnection
    BY <1>8, <1>i DEF WaitConnection
\* Between the wait and the destructor only the state of the connection matters.
<1>9. ASSUME UNCHANGED <<ms_quic, registration, configuration, connection_ok>>,
             main.at \notin Waiting \cup Closing, main'.at \notin Waiting \cup Closing,
             conn' = conn \/ conn' = "closing"
      PROVE  HeldAtPlace' /\ Nested'
    BY <1>9, <1>i
<1>10. CASE CheckConnection
  <2>1. /\ UNCHANGED <<ms_quic, registration, configuration, connection_ok, conn>>
        /\ main.at = "init" /\ main'.at \in {"open", "waithttp3"}
    BY <1>10 DEF CheckConnection, flags
  <2>2. QED
    BY <1>9, <2>1
<1>11. CASE StreamOpen \/ StreamStart
  <2>1. /\ UNCHANGED <<ms_quic, registration, configuration, connection_ok, conn>>
        /\ main.at \in {"open", "start"} /\ main'.at \in {"start", "getid"}
    BY <1>11 DEF StreamOpen, StreamStart, flags
  <2>2. QED
    BY <1>9, <2>1
<1>12. CASE StreamOpenFails \/ StreamStartFails
  <2>1. /\ UNCHANGED <<ms_quic, registration, configuration, connection_ok>>
        /\ main.at \in {"open", "start"} /\ main'.at \in {"sleep", "waithttp3"}
        /\ conn' = conn \/ conn' = "closing"
    BY <1>12 DEF StreamOpenFails, StreamStartFails, OpenFailed, QuicShutdown
  <2>2. QED
    BY <1>9, <2>1
<1>13. CASE OpenStream
  <2>1. /\ UNCHANGED <<ms_quic, registration, configuration, connection_ok, conn>>
        /\ main.at = "getid" /\ main'.at \in {"submit", "http3", "open"}
    BY <1>13 DEF OpenStream, flags
  <2>2. QED
    BY <1>9, <2>1
<1>14. CASE NewClientHttp3 \/ WaitHttp3
  <2>1. /\ UNCHANGED <<ms_quic, registration, configuration, connection_ok, conn>>
        /\ main.at \in {"http3", "waithttp3"} /\ main'.at \in {"open", "waithttp3"}
    BY <1>14 DEF NewClientHttp3, WaitHttp3, flags
  <2>2. QED
    BY <1>9, <2>1
<1>15. CASE SubmitRequest \/ StreamSend \/ PumpEnds
  <2>1. /\ UNCHANGED <<ms_quic, registration, configuration, connection_ok, conn>>
        /\ main.at \in {"submit", "send", "pump"} /\ main'.at \in {"submit", "pump", "sleep"}
    BY <1>15 DEF SubmitRequest, StreamSend, PumpEnds, flags
  <2>2. QED
    BY <1>9, <2>1
<1>16. ASSUME NEW key \in pending, NextWrite(key) PROVE HeldAtPlace' /\ Nested'
  <2>1. /\ UNCHANGED <<ms_quic, registration, configuration, connection_ok, conn>>
        /\ main.at = "pump" /\ main'.at \in {"pump", "send"}
    BY <1>16 DEF NextWrite, flags
  <2>2. QED
    BY <1>9, <2>1
<1>17. CASE Wake \/ ConnectionShutdown
  <2>1. /\ UNCHANGED <<ms_quic, registration, configuration, connection_ok>>
        /\ main.at \in {"sleep", "shutdown"} /\ main'.at \in {"shutdown", "return"}
        /\ conn' = conn \/ conn' = "closing"
    BY <1>17 DEF Wake, ConnectionShutdown, QuicShutdown, flags
  <2>2. QED
    BY <1>9, <2>1
<1>18. CASE ConfigurationClose
    BY <1>18, <1>i DEF ConfigurationClose, flags
<1>19. CASE RegistrationClose
    BY <1>19, <1>i, <1>t DEF RegistrationClose, flags
<1>20. CASE MsQuicClose
    BY <1>20, <1>i, <1>t DEF MsQuicClose, flags
<1>21. CASE Connected
    BY <1>21, <1>i DEF Connected
<1>22. CASE ShutdownInitiated
    BY <1>22, <1>i DEF ShutdownInitiated
<1>23. CASE ShutdownComplete
    BY <1>23, <1>i DEF ShutdownComplete
<1>24. ASSUME NEW s \in Streams,
              IssueId(s) \/ SendComplete(s) \/ StreamEnding(s) \/ StreamShutdownComplete(s)
       PROVE  HeldAtPlace' /\ Nested'
  <2>1. UNCHANGED <<ms_quic, registration, configuration, conn, connection_ok, main>>
    BY <1>24, Zenon DEF IssueId, SendComplete, StreamEnding, StreamShutdownComplete, flags
  <2>2. QED
    BY <1>i, <2>1
<1>25. QED
    BY <1>1, <1>2, <1>3, <1>4, <1>5, <1>6, <1>7, <1>8, <1>10, <1>11, <1>12, <1>13, <1>14, <1>15,
       <1>16, <1>17, <1>18, <1>19, <1>20, <1>21, <1>22, <1>23, <1>24, Zenon
       DEF Next, Main, Msquic, Peer

\* An id that is read is the stream's, or 0 for a stream that failed or was closed.
LEMMA ReadIds ==
    ASSUME IInv, OpenStream
    PROVE  /\ main.on \in Streams
           /\ readId[main.on] = NoId /\ readId' = [readId EXCEPT ![main.on] = ReadId(main.on)]
           /\ ReadId(main.on) \in Nat
           /\ stream[main.on] \notin {"none", "opened", "starting"}
           /\ \/ ReadId(main.on) = id[main.on]
              \/ ReadId(main.on) = 0 /\ stream[main.on] \in {"failed", "closed"}
<1>i. TypeOK /\ StreamsAtPlace /\ StreamStates
    BY DEF IInv
<1>1. main.on \in Streams /\ readId[main.on] = NoId
      /\ stream[main.on] \notin {"none", "opened", "starting"}
    BY <1>i DEF OpenStream, MainAt, StreamsAtPlace, Opening
<1>2. readId' = [readId EXCEPT ![main.on] = ReadId(main.on)]
    BY DEF OpenStream, Register
<1>3. /\ id[main.on] \in Nat \cup {NoId}
      /\ stream[main.on] \in {"started", "failed", "ending", "closed"}
    BY <1>i, <1>1 DEF TypeOK
<1>4. stream[main.on] \in {"started", "ending"} => id[main.on] # NoId
    BY <1>i, <1>1 DEF StreamStates
<1>5. QED
    BY <1>1, <1>2, <1>3, <1>4 DEF ReadId

\* The main thread takes the streams in their order.
LEMMA PlaceStep == IInv /\ [Next]_vars => StreamsAtPlace'
<1> SUFFICES ASSUME IInv, [Next]_vars PROVE StreamsAtPlace'
    OBVIOUS
<1> USE DEF StreamsAtPlace, Early, Waiting, Opening, MainAt, Goto, flags, map
<1>i. TypeOK /\ HeldAtPlace /\ StreamsAtPlace
    BY DEF IInv
<1>t. /\ stream \in [Streams -> {"none", "opened", "starting", "started", "failed",
                                 "ending", "closed"}]
      /\ readId \in [Streams -> Nat \cup {NoId}]
    BY <1>i DEF TypeOK
<1>p. /\ Http3Streams = {"control", "encoder", "decoder"}
      /\ Streams = {"control", "encoder", "decoder", "request"}
    BY DEF Http3Streams, Streams
\* The worker does not take a stream back to before it was started.
<1>w. ASSUME UNCHANGED <<main, readId, http3_stream_ok>>,
             \A s \in Streams : \/ stream'[s] = stream[s]
                                \/ {stream[s], stream'[s]} \cap {"none", "opened"} = {}
      PROVE  StreamsAtPlace'
  <2>1. \A s \in Streams : /\ stream[s] = "none" <=> stream'[s] = "none"
                           /\ stream[s] = "opened" <=> stream'[s] = "opened"
    BY <1>w
  <2>2. QED
    BY <1>i, <1>p, <1>w, <2>1
<1>1. CASE UNCHANGED vars
  <2>1. UNCHANGED <<main, readId, http3_stream_ok, stream>>
    BY <1>1, Zenon DEF vars
  <2>2. QED
    BY <1>w, <2>1
<1>2. CASE OpenLibrary
    BY <1>2, <1>i DEF OpenLibrary
<1>3. CASE RegistrationOpen
    BY <1>3, <1>i DEF RegistrationOpen
<1>4. CASE ConfigurationOpen
    BY <1>4, <1>i DEF ConfigurationOpen
<1>5. CASE LoadCredential
    BY <1>5, <1>i DEF LoadCredential
<1>6. CASE GetConnection
    BY <1>6, <1>i DEF GetConnection
<1>7. CASE InitFields
    BY <1>7, <1>i DEF InitFields
<1>8. CASE WaitConnection
    BY <1>8, <1>i DEF WaitConnection
<1>9. CASE CheckConnection
    BY <1>9, <1>i, <1>p, Afters DEF CheckConnection
<1>10. CASE StreamOpen
    BY <1>10, <1>i, <1>t, <1>p, Afters DEF StreamOpen
<1>11. CASE StreamOpenFails
    BY <1>11, <1>i, <1>p, Afters DEF StreamOpenFails, OpenFailed
<1>12. CASE StreamStart
  <2>1. /\ main.at = "start" /\ main.on \in Streams /\ stream[main.on] = "opened"
        /\ stream' = [stream EXCEPT ![main.on] = "starting"]
        /\ main' = [at |-> "getid", on |-> main.on]
        /\ UNCHANGED <<readId, http3_stream_ok>>
    BY <1>12, <1>i DEF StreamStart
  <2>2. readId[main.on] = NoId
    BY <2>1 DEF IInv, StreamStates
  <2>3. /\ stream'[main.on] = "starting"
        /\ \A r \in Streams : r # main.on => stream'[r] = stream[r]
    BY <1>t, <2>1
  <2>4. \A r \in Streams : Position(r) > Position(main.on) => stream'[r] = "none"
    BY <1>i, <1>p, <2>1, <2>3, Afters
  <2>5. QED
    BY <1>i, <2>1, <2>2, <2>3, <2>4
<1>13. CASE StreamStartFails
    BY <1>13, <1>i, <1>t, <1>p, Afters DEF StreamStartFails, OpenFailed
<1>14. CASE OpenStream
  <2>1. /\ main.at = "getid" /\ UNCHANGED <<stream, http3_stream_ok>>
        /\ main.on \in Streams /\ readId'[main.on] # NoId
        /\ \A r \in Streams : r # main.on => readId'[r] = readId[r]
    BY <1>14, <1>t, ReadIds DEF OpenStream, NoId
  <2>2. CASE main.on = "control"
    <3>1. main' = [at |-> "open", on |-> "encoder"]
      BY <1>14, <2>2, Afters DEF OpenStream
    <3>2. QED
      BY <1>i, <1>p, <2>1, <2>2, <3>1, Afters
  <2>3. CASE main.on = "encoder"
    <3>1. main' = [at |-> "open", on |-> "decoder"]
      BY <1>14, <2>3, Afters DEF OpenStream
    <3>2. QED
      BY <1>i, <1>p, <2>1, <2>3, <3>1, Afters
  <2>4. CASE main.on = "decoder"
    <3>1. main' = [at |-> "http3", on |-> "none"]
      BY <1>14, <2>4, Afters DEF OpenStream
    <3>2. QED
      BY <1>i, <1>p, <2>1, <2>4, <3>1, Afters
  <2>5. CASE main.on = "request"
    <3>1. main' = [at |-> "submit", on |-> "request"]
      BY <1>14, <2>5 DEF OpenStream
    <3>2. QED
      BY <1>i, <1>p, <2>1, <2>5, <3>1, Afters
  <2>6. QED
    BY <1>p, <2>1, <2>2, <2>3, <2>4, <2>5
<1>15. CASE NewClientHttp3
    BY <1>15, <1>i DEF NewClientHttp3
<1>16. CASE WaitHttp3
    BY <1>16, <1>i, <1>p, Afters DEF WaitHttp3
<1>17. CASE SubmitRequest
    BY <1>17, <1>i DEF SubmitRequest
<1>18. ASSUME NEW key \in pending, NextWrite(key) PROVE StreamsAtPlace'
  <2>1. main' = main \/ \E s \in Streams : main' = [at |-> "send", on |-> s]
    BY <1>18, <1>i DEF NextWrite, TypeOK
  <2>2. QED
    BY <1>18, <1>i, <2>1 DEF NextWrite
<1>19. CASE StreamSend
    BY <1>19, <1>i DEF StreamSend
<1>20. CASE PumpEnds
    BY <1>20, <1>i DEF PumpEnds
<1>21. CASE Wake
    BY <1>21, <1>i DEF Wake
<1>22. CASE ConnectionShutdown
    BY <1>22, <1>i DEF ConnectionShutdown
<1>23. CASE ConfigurationClose \/ RegistrationClose \/ MsQuicClose
    BY <1>23, <1>i DEF ConfigurationClose, RegistrationClose, MsQuicClose
<1>24. CASE Connected \/ ShutdownInitiated \/ ShutdownComplete
  <2>1. UNCHANGED <<main, readId, http3_stream_ok, stream>>
    BY <1>24, Zenon DEF Connected, ShutdownInitiated, ShutdownComplete
  <2>2. QED
    BY <1>w, <2>1
<1>25. ASSUME NEW s \in Streams, IssueId(s) \/ StreamEnding(s) \/ StreamShutdownComplete(s)
       PROVE  StreamsAtPlace'
  <2>1. UNCHANGED <<main, readId, http3_stream_ok>>
    BY <1>25 DEF IssueId, StreamEnding, StreamShutdownComplete
  <2>2. \A r \in Streams : \/ stream'[r] = stream[r]
                           \/ {stream[r], stream'[r]} \cap {"none", "opened"} = {}
    BY <1>25, <1>t DEF IssueId, StreamEnding, StreamShutdownComplete
  <2>3. QED
    BY <1>w, <2>1, <2>2
<1>26. ASSUME NEW s \in Streams, SendComplete(s) PROVE StreamsAtPlace'
  <2>1. UNCHANGED <<main, readId, http3_stream_ok, stream>>
    BY <1>26, Zenon DEF SendComplete
  <2>2. QED
    BY <1>w, <2>1
<1>27. QED
    BY <1>1, <1>2, <1>3, <1>4, <1>5, <1>6, <1>7, <1>8, <1>9, <1>10, <1>11, <1>12, <1>13, <1>14,
       <1>15, <1>16, <1>17, <1>18, <1>19, <1>20, <1>21, <1>22, <1>23, <1>24, <1>25, <1>26, Zenon
       DEF Next, Main, Msquic, Peer

\* What is known of a stream's id stays true as msquic issues ids and streams end.
LEMMA StatesStep == IInv /\ [Next]_vars => StreamStates'
<1> SUFFICES ASSUME IInv, [Next]_vars PROVE StreamStates'
    OBVIOUS
<1> USE DEF StreamStates, MainAt, map
<1>i. TypeOK /\ HeldAtPlace /\ StreamsAtPlace /\ StreamStates
    BY DEF IInv
<1>t. /\ stream \in [Streams -> {"none", "opened", "starting", "started", "failed",
                                 "ending", "closed"}]
      /\ id \in [Streams -> Nat \cup {NoId}] /\ readId \in [Streams -> Nat \cup {NoId}]
      /\ conn \in {"none", "starting", "up", "closing", "closed"}
    BY <1>i DEF TypeOK
<1>p. Http3Streams \subseteq Streams
    BY DEF Http3Streams, Streams
\* A step that leaves the streams alone, and starts no connection after them.
<1>1. ASSUME UNCHANGED <<stream, id, readId>>,
             conn' \in {"starting", "up"} => \/ conn \in {"starting", "up"}
                                             \/ \A s \in Streams : stream[s] = "none"
      PROVE  StreamStates'
    BY <1>1, <1>i, <1>p
<1>2. CASE UNCHANGED vars
  <2>1. UNCHANGED <<stream, id, readId, conn>>
    BY <1>2, Zenon DEF vars
  <2>2. QED
    BY <1>1, <2>1
<1>3. CASE \/ OpenLibrary \/ RegistrationOpen \/ ConfigurationOpen \/ LoadCredential
           \/ InitFields \/ WaitConnection \/ CheckConnection
  <2>1. UNCHANGED <<stream, id, readId, conn>>
    BY <1>3, Zenon DEF OpenLibrary, RegistrationOpen, ConfigurationOpen, LoadCredential, InitFields,
       WaitConnection, CheckConnection
  <2>2. QED
    BY <1>1, <2>1
<1>4. CASE GetConnection
  <2>1. UNCHANGED <<stream, id, readId>> /\ main.at = "connect"
    BY <1>4 DEF GetConnection
  <2>2. \A s \in Streams : stream[s] = "none"
    BY <1>i, <2>1 DEF StreamsAtPlace, Waiting, Early
  <2>3. QED
    BY <1>1, <2>1, <2>2
<1>5. CASE StreamOpen
  <2>1. main.on \in Streams /\ stream[main.on] = "none"
    BY <1>5, <1>i DEF StreamOpen, StreamsAtPlace, Opening
  <2>2. QED
    BY <1>5, <1>i, <1>t, <1>p, <2>1 DEF StreamOpen
<1>6. CASE StreamOpenFails \/ ConnectionShutdown
  <2>1. UNCHANGED <<stream, id, readId>> /\ (conn' = conn \/ conn' = "closing")
    BY <1>6 DEF StreamOpenFails, ConnectionShutdown, QuicShutdown
  <2>2. QED
    BY <1>1, <2>1
<1>7. CASE StreamStart
  <2>1. main.on \in Streams /\ stream[main.on] = "opened"
    BY <1>7, <1>i DEF StreamStart, StreamsAtPlace, Opening
  <2>2. QED
    BY <1>7, <1>i, <1>t, <1>p, <2>1 DEF StreamStart
<1>8. CASE StreamStartFails
  <2>1. main.on \in Streams /\ stream[main.on] = "opened"
    BY <1>8, <1>i DEF StreamStartFails, StreamsAtPlace, Opening
  <2>2. conn' \notin {"starting", "up"}
    BY <1>8 DEF StreamStartFails, QuicShutdown
  <2>3. QED
    BY <1>8, <1>i, <1>t, <1>p, <2>1, <2>2 DEF StreamStartFails
<1>9. CASE OpenStream
  <2>1. UNCHANGED <<stream, id, conn>>
    BY <1>9 DEF OpenStream
  <2>2. QED
    BY <1>9, <1>i, <1>t, <1>p, <2>1, ReadIds
<1>10. CASE NewClientHttp3 \/ WaitHttp3 \/ SubmitRequest \/ StreamSend \/ PumpEnds \/ Wake
  <2>1. UNCHANGED <<stream, id, readId, conn>>
    BY <1>10, Zenon DEF NewClientHttp3, WaitHttp3, SubmitRequest, StreamSend, PumpEnds, Wake
  <2>2. QED
    BY <1>1, <2>1
<1>11. ASSUME NEW key \in pending, NextWrite(key) PROVE StreamStates'
  <2>1. UNCHANGED <<stream, id, readId, conn>>
    BY <1>11, Zenon DEF NextWrite
  <2>2. QED
    BY <1>1, <2>1
<1>12. CASE ConfigurationClose \/ RegistrationClose \/ MsQuicClose
  <2>1. UNCHANGED <<stream, id, readId, conn>>
    BY <1>12, Zenon DEF ConfigurationClose, RegistrationClose, MsQuicClose
  <2>2. QED
    BY <1>1, <2>1
<1>13. CASE Connected \/ ShutdownInitiated \/ ShutdownComplete
  <2>1. UNCHANGED <<stream, id, readId>>
        /\ (conn' \in {"starting", "up"} => conn \in {"starting", "up"})
    BY <1>13 DEF Connected, ShutdownInitiated, ShutdownComplete
  <2>2. QED
    BY <1>1, <2>1
<1>14. ASSUME NEW s \in Streams, IssueId(s) PROVE StreamStates'
  <2>1. stream[s] = "starting" /\ readId[s] = NoId /\ UNCHANGED <<readId, conn>>
    BY <1>14, <1>i DEF IssueId
  <2>2. conn # "starting"
    BY <1>i, <2>1 DEF HeldAtPlace, StreamsAtPlace
  <2>3. CASE conn = "up"
    <3>1. NextId(s) \in Nat
      BY IssuedIsFinite DEF NextId, Issued
    <3>2. stream' = [stream EXCEPT ![s] = "started"] /\ id' = [id EXCEPT ![s] = NextId(s)]
      BY <1>14, <2>3 DEF IssueId
    <3>3. QED
      BY <1>i, <1>t, <1>p, <2>1, <3>1, <3>2 DEF NoId
  <2>4. CASE conn # "up"
    <3>1. stream' = [stream EXCEPT ![s] = "failed"] /\ UNCHANGED id
      BY <1>14, <2>4 DEF IssueId
    <3>2. QED
      BY <1>i, <1>t, <1>p, <2>1, <2>2, <2>4, <3>1
  <2>5. QED
    BY <2>3, <2>4
<1>15. ASSUME NEW s \in Streams, StreamEnding(s) PROVE StreamStates'
  <2>1. /\ stream[s] = "started" /\ stream' = [stream EXCEPT ![s] = "ending"]
        /\ UNCHANGED <<id, readId, conn>>
    BY <1>15 DEF StreamEnding
  <2>2. QED
    BY <1>i, <1>t, <1>p, <2>1 DEF Http3Streams
<1>16. ASSUME NEW s \in Streams, StreamShutdownComplete(s) PROVE StreamStates'
  <2>1. /\ stream[s] = "ending" /\ stream' = [stream EXCEPT ![s] = "closed"]
        /\ UNCHANGED <<id, readId, conn>>
    BY <1>16 DEF StreamShutdownComplete
  <2>2. QED
    BY <1>i, <1>t, <1>p, <2>1
<1>17. ASSUME NEW s \in Streams, SendComplete(s) PROVE StreamStates'
  <2>1. UNCHANGED <<stream, id, readId, conn>>
    BY <1>17, Zenon DEF SendComplete
  <2>2. QED
    BY <1>1, <2>1
<1>18. QED
    BY <1>2, <1>3, <1>4, <1>5, <1>6, <1>7, <1>8, <1>9, <1>10, <1>11, <1>12, <1>13, <1>14, <1>15,
       <1>16, <1>17, Zenon DEF Next, Main, Msquic, Peer

\* msquic numbers the HTTP/3 streams apart, and apart from the request's.
LEMMA IdsStep == IInv /\ [Next]_vars => Ids'
<1> SUFFICES ASSUME IInv, [Next]_vars PROVE Ids'
    OBVIOUS
<1>i. TypeOK /\ StreamStates /\ Ids
    BY DEF IInv
<1>t. id \in [Streams -> Nat \cup {NoId}]
    BY <1>i DEF TypeOK
<1>p. Http3Streams \subseteq Streams \ {"request"} /\ "request" \in Streams
    BY DEF Http3Streams, Streams
<1>1. ASSUME UNCHANGED id PROVE Ids'
    BY <1>1, <1>i DEF Ids, Issued
<1>2. CASE UNCHANGED vars
    BY <1>1, <1>2, Zenon DEF vars
<1>3. CASE Main
    BY <1>1, <1>3, Zenon
       DEF Main, OpenLibrary, RegistrationOpen, ConfigurationOpen, LoadCredential, GetConnection,
           InitFields, WaitConnection, CheckConnection, StreamOpen, StreamOpenFails, StreamStart,
           StreamStartFails, OpenStream, NewClientHttp3, WaitHttp3, SubmitRequest, NextWrite,
           StreamSend, PumpEnds, Wake, ConnectionShutdown, ConfigurationClose, RegistrationClose,
           MsQuicClose
<1>4. CASE Peer \/ ShutdownComplete
    BY <1>1, <1>4, Zenon DEF Peer, Connected, ShutdownInitiated, ShutdownComplete, StreamEnding
<1>5. ASSUME NEW s \in Streams, SendComplete(s) \/ StreamEnding(s) \/ StreamShutdownComplete(s)
      PROVE  Ids'
    BY <1>1, <1>5, Zenon DEF SendComplete, StreamEnding, StreamShutdownComplete
<1>6. ASSUME NEW s \in Streams, IssueId(s) PROVE Ids'
  <2>1. CASE UNCHANGED id
    BY <1>1, <2>1
  <2>2. CASE id' = [id EXCEPT ![s] = NextId(s)]
    <3>1. id[s] = NoId
      BY <1>6, <1>i DEF IssueId, StreamStates
    <3>2. CASE s = "request"
      <4>1. /\ id'["request"] = 0
            /\ \A r \in Http3Streams : id'[r] = id[r]
        BY <1>t, <1>p, <2>2, <3>2 DEF NextId
      <4>2. Issued' = Issued
        BY <4>1 DEF Issued
      <4>3. QED
        BY <1>i, <4>1, <4>2 DEF Ids
    <3>3. CASE s \in Http3Streams
      <4> DEFINE n == Cardinality(Issued)
      <4>1. NextId(s) = 2 + 4 * n /\ n \in Nat
        BY <1>p, <3>3, IssuedIsFinite DEF NextId, Issued
      <4>2. /\ id'[s] = 2 + 4 * n
            /\ \A r \in Streams : r # s => id'[r] = id[r]
        BY <1>t, <2>2, <4>1
      <4>3. Issued' = Issued \cup {s} /\ s \notin Issued
        BY <1>p, <3>1, <3>3, <4>1, <4>2 DEF Issued, NoId
      <4>4. Cardinality(Issued') = n + 1
        BY <4>3, IssuedIsFinite, FS_AddElement
      <4>5. \A r \in Http3Streams : id[r] # NoId => 2 <= id[r] /\ id[r] < 2 + 4 * n
        BY <1>i DEF Ids
      <4>6. \A r \in Http3Streams : id'[r] # NoId => 2 <= id'[r] /\ id'[r] < 2 + 4 * (n + 1)
        BY <1>t, <1>p, <4>1, <4>2, <4>5
      <4>7. \A r \in Http3Streams : r # s => id'[r] = NoId \/ id'[r] < 2 + 4 * n
        BY <1>p, <4>2, <4>5
      <4>8. \A q, r \in Http3Streams : id'[q] # NoId /\ id'[q] = id'[r] => q = r
        BY <1>i, <1>p, <1>t, <4>1, <4>2, <4>7 DEF Ids, NoId
      <4>9. id'["request"] = id["request"]
        BY <1>p, <3>3, <4>2
      <4>10. QED
        BY <1>i, <4>4, <4>6, <4>8, <4>9 DEF Ids
    <3>4. QED
      BY <3>2, <3>3 DEF Streams
  <2>3. QED
    BY <1>6, <2>1, <2>2 DEF IssueId
<1>7. QED
    BY <1>2, <1>3, <1>4, <1>5, <1>6, Zenon DEF Next, Msquic

\* An HTTP/3 stream whose own id is read finds it free in stream_map.
LEMMA OwnIdIsFree ==
    ASSUME IInv, NEW s \in Http3Streams, readId[s] = NoId, id[s] # NoId,
           NEW e \in stream_map
    PROVE  e[1] # id[s]
<1> SUFFICES ASSUME e[1] = id[s] PROVE FALSE
    OBVIOUS
<1>i. TypeOK /\ StreamStates /\ Ids /\ Mapped
    BY DEF IInv
<1>1. e[2] \in Streams /\ readId[e[2]] = id[s]
    BY <1>i DEF TypeOK, Mapped
<1>2. e[2] # s
    BY <1>1
<1>3. id[s] >= 2 /\ id[s] \in Nat
    BY <1>i DEF Ids, TypeOK, Streams
<1>4. readId[e[2]] = id[e[2]]
    BY <1>i, <1>1, <1>3 DEF StreamStates, NoId
<1>5. e[2] \in Http3Streams
    BY <1>i, <1>1, <1>3, <1>4 DEF Ids, Streams, NoId
<1>6. QED
    BY <1>i, <1>1, <1>2, <1>4, <1>5 DEF Ids

\* stream_map keeps, for each id that was read, the stream it was first read for.
LEMMA MapStep == IInv /\ [Next]_vars => Mapped'
<1> SUFFICES ASSUME IInv, [Next]_vars PROVE Mapped'
    OBVIOUS
<1>i. TypeOK /\ StreamsAtPlace /\ StreamStates /\ Ids /\ Mapped
    BY DEF IInv
<1>t. /\ id \in [Streams -> Nat \cup {NoId}] /\ readId \in [Streams -> Nat \cup {NoId}]
      /\ stream_map \subseteq Nat \X Streams
    BY <1>i DEF TypeOK
<1>p. Http3Streams \subseteq Streams \ {"request"} /\ "request" \in Streams
    BY DEF Http3Streams, Streams
<1>1. ASSUME UNCHANGED <<readId, stream_map, id>>,
             \A key \in pending' : key \in pending \/ \E s \in Streams : readId[s] # NoId /\ key = readId[s]
      PROVE  Mapped'
    BY <1>1, <1>i DEF Mapped
<1>2. CASE UNCHANGED vars
    BY <1>1, <1>2, Zenon DEF vars
<1>3. CASE \/ OpenLibrary \/ RegistrationOpen \/ ConfigurationOpen \/ LoadCredential
           \/ GetConnection \/ InitFields \/ WaitConnection \/ CheckConnection
           \/ StreamOpen \/ StreamOpenFails \/ StreamStart \/ StreamStartFails \/ WaitHttp3
           \/ StreamSend \/ PumpEnds \/ Wake \/ ConnectionShutdown
           \/ ConfigurationClose \/ RegistrationClose \/ MsQuicClose
  <2>1. UNCHANGED <<readId, stream_map, id, pending>>
    BY <1>3, Zenon
       DEF OpenLibrary, RegistrationOpen, ConfigurationOpen, LoadCredential, GetConnection,
           InitFields, WaitConnection, CheckConnection, StreamOpen, StreamOpenFails, StreamStart,
           StreamStartFails, WaitHttp3, StreamSend, PumpEnds, Wake, ConnectionShutdown,
           ConfigurationClose, RegistrationClose, MsQuicClose, map, http3
  <2>2. QED
    BY <1>1, <2>1
<1>4. CASE OpenStream
  <2> DEFINE s == main.on
             key == ReadId(main.on)
             taken == \E e \in stream_map : e[1] = key
  <2>1. /\ s \in Streams /\ readId[s] = NoId /\ key \in Nat
        /\ stream[s] \notin {"none", "opened", "starting"}
        /\ key = id[s] \/ (key = 0 /\ stream[s] \in {"failed", "closed"})
        /\ readId' = [readId EXCEPT ![s] = key]
    BY <1>4, ReadIds
  <2>2. UNCHANGED <<id, pending>>
    BY <1>4 DEF OpenStream, http3
  <2>3. stream_map' = IF taken THEN stream_map ELSE stream_map \cup {<<key, s>>}
    BY <1>4, Zenon DEF OpenStream, Register
  <2>4. s \in Http3Streams => readId["request"] = NoId
    <3>1. Position("request") > Position(s) => stream["request"] = "none"
      BY <1>4, <1>i, <1>p DEF OpenStream, MainAt, StreamsAtPlace, Opening
    <3>2. s \in Http3Streams => Position("request") > Position(s)
      BY Afters DEF Http3Streams
    <3>3. QED
      BY <1>i, <1>p, <3>1, <3>2 DEF StreamStates
  <2>5. s \in Http3Streams /\ key = id[s] => ~taken
    BY <2>1, OwnIdIsFree DEF NoId
  <2> HIDE DEF s, key
  <2>6. /\ readId'[s] = key
        /\ \A r \in Streams : r # s => readId'[r] = readId[r]
    BY <1>t, <2>1
  <2>7. \A e \in stream_map : e[1] # NoId /\ e[2] \in Streams /\ e[2] # s
    BY <1>i, <1>t, <2>1 DEF Mapped, NoId
  <2>8. \A e \in stream_map' : e \in stream_map \/ (~taken /\ e = <<key, s>>)
    BY <2>3
  <2>9. stream_map \subseteq stream_map' /\ \E e \in stream_map' : e[1] = key
    <3>1. CASE taken
      BY <2>3, <3>1
    <3>2. CASE ~taken
      <4>1. stream_map' = stream_map \cup {<<key, s>>}
        BY <2>3, <3>2
      <4>2. <<key, s>> \in stream_map' /\ <<key, s>>[1] = key
        BY <4>1
      <4>3. QED
        BY <4>1, <4>2
    <3>3. QED
      BY <3>1, <3>2
  <2>10. \A e \in stream_map' : readId'[e[2]] = e[1]
    BY <1>i, <2>6, <2>7, <2>8 DEF Mapped
  <2>11. \A e, f \in stream_map' : e[1] = f[1] => e = f
    BY <1>i, <2>8 DEF Mapped
  <2>12. \A r \in Streams : readId'[r] # NoId => \E e \in stream_map' : e[1] = readId'[r]
    BY <1>i, <2>6, <2>9 DEF Mapped
  <2>13. \A r \in Http3Streams : readId'[r] # NoId /\ readId'[r] = id[r] => <<id[r], r>> \in stream_map'
    BY <1>i, <1>p, <2>3, <2>5, <2>6, <2>9 DEF Mapped
  <2>14. \A r \in Http3Streams : readId'[r] = 0 => \E e \in stream_map' : e[1] = 0 /\ e[2] # "request"
    <3>1. ASSUME NEW r \in Http3Streams, r # s, readId'[r] = 0
          PROVE  \E e \in stream_map' : e[1] = 0 /\ e[2] # "request"
      BY <1>i, <1>p, <2>6, <2>9, <3>1 DEF Mapped
    <3>2. ASSUME s \in Http3Streams, key = 0
          PROVE  \E e \in stream_map' : e[1] = 0 /\ e[2] # "request"
      <4>1. PICK e \in stream_map' : e[1] = key
        BY <2>9
      <4>2. e[2] # "request"
        BY <1>i, <1>p, <2>4, <2>8, <3>2, <4>1 DEF Mapped, NoId
      <4>3. QED
        BY <3>2, <4>1, <4>2
    <3>3. QED
      BY <2>6, <3>1, <3>2
  <2>15. \A k \in pending : \E e \in stream_map' : e[1] = k
    BY <1>i, <2>9 DEF Mapped
  <2>16. QED
    BY <2>2, <2>10, <2>11, <2>12, <2>13, <2>14, <2>15 DEF Mapped
<1>5. CASE NewClientHttp3
  <2>1. /\ UNCHANGED <<readId, stream_map, id>>
        /\ pending' \subseteq pending \cup {readId[s] : s \in Http3Streams}
    BY <1>5 DEF NewClientHttp3, BindStreams, map
  <2>2. \A s \in Http3Streams : readId[s] # NoId
    BY <1>5, <1>i DEF NewClientHttp3, MainAt, StreamsAtPlace
  <2>3. QED
    BY <1>1, <1>p, <2>1, <2>2
<1>6. CASE SubmitRequest
  <2>1. UNCHANGED <<readId, stream_map, id>> /\ pending' \subseteq pending \cup {readId["request"]}
    BY <1>6 DEF SubmitRequest, map
  <2>2. readId["request"] # NoId
    BY <1>6, <1>i DEF SubmitRequest, MainAt, StreamsAtPlace
  <2>3. QED
    BY <1>1, <1>p, <2>1, <2>2
<1>7. ASSUME NEW key \in pending, NextWrite(key) PROVE Mapped'
  <2>1. UNCHANGED <<readId, stream_map, id>> /\ pending' \subseteq pending
    BY <1>7 DEF NextWrite, map
  <2>2. QED
    BY <1>1, <2>1
<1>8. CASE Connected \/ ShutdownInitiated \/ ShutdownComplete
  <2>1. UNCHANGED <<readId, stream_map, id, pending>>
    BY <1>8, Zenon DEF Connected, ShutdownInitiated, ShutdownComplete, map, http3
  <2>2. QED
    BY <1>1, <2>1
<1>9. ASSUME NEW s \in Streams, IssueId(s) PROVE Mapped'
  <2>1. /\ readId[s] = NoId /\ UNCHANGED <<readId, stream_map, pending>>
        /\ \A r \in Streams : r # s => id'[r] = id[r]
    BY <1>9, <1>i, <1>t DEF IssueId, StreamStates, map, http3
  <2>2. QED
    BY <1>i, <1>p, <2>1 DEF Mapped
<1>10. ASSUME NEW s \in Streams, SendComplete(s) \/ StreamEnding(s) \/ StreamShutdownComplete(s)
       PROVE  Mapped'
  <2>1. UNCHANGED <<readId, stream_map, id, pending>>
    BY <1>10, Zenon DEF SendComplete, StreamEnding, StreamShutdownComplete, map, http3
  <2>2. QED
    BY <1>1, <2>1
<1>11. QED
    BY <1>2, <1>3, <1>4, <1>5, <1>6, <1>7, <1>8, <1>9, <1>10, Zenon
       DEF Next, Main, Msquic, Peer

\* The file is written once, from secrets that do not change.
LEMMA LogStep == IInv /\ [Next]_vars => Logged'
<1> SUFFICES ASSUME IInv, [Next]_vars PROVE Logged'
    OBVIOUS
<1>i. Logged
    BY DEF IInv
<1>1. UNCHANGED secrets /\ (key_log' = key_log \/ key_log' = WriteSslKeyLogFile(secrets))
  <2>1. CASE UNCHANGED vars
    BY <2>1, Zenon DEF vars
  <2>2. CASE Main
    BY <2>2, Zenon
       DEF Main, OpenLibrary, RegistrationOpen, ConfigurationOpen, LoadCredential, GetConnection,
           InitFields, WaitConnection, CheckConnection, StreamOpen, StreamOpenFails, StreamStart,
           StreamStartFails, OpenStream, NewClientHttp3, WaitHttp3, SubmitRequest, NextWrite,
           StreamSend, PumpEnds, Wake, ConnectionShutdown, ConfigurationClose, RegistrationClose,
           MsQuicClose, log
  <2>3. CASE Msquic \/ Peer
    BY <2>3, Zenon
       DEF Msquic, Peer, IssueId, SendComplete, StreamShutdownComplete, StreamEnding, Connected,
           ShutdownInitiated, ShutdownComplete, log
  <2>4. QED
    BY <2>1, <2>2, <2>3 DEF Next
<1>2. QED
    BY <1>i, <1>1, Zenon DEF Logged

LEMMA InvHolds == Spec => []IInv
<1>1. IInv /\ [Next]_vars => IInv'
    BY TypeStep, HandlesStep, PlaceStep, StatesStep, IdsStep, MapStep, LogStep DEF IInv
<1>2. QED
    BY InvInit, <1>1, PTL DEF Spec

-----------------------------------------------------------------------------
\* Every variable of the client keeps its type.
THEOREM TypeCorrect == Spec => []TypeOK
<1>1. IInv => TypeOK
    BY DEF IInv
<1>2. QED
    BY <1>1, InvHolds, PTL

\* Whatever ids could not be read and however the connection ends meanwhile, the pump
\* of ClientHttp3::Send finds an entry for each id nghttp3 writes for: stream_map.at
\* never throws out of main.
THEOREM PumpNeverThrows == Spec => []PumpFindsStreams
<1>1. IInv => PumpFindsStreams
    BY DEF IInv, Mapped, PumpFindsStreams
<1>2. QED
    BY <1>1, InvHolds, PTL

\* What HTTP/3 writes for one stream does not go out on another: an HTTP/3 stream
\* whose id was not read took the entry 0 before the request could.
THEOREM DataStaysOnItsStream == Spec => []NoStreamGetsAnothersData
<1>1. IInv => NoStreamGetsAnothersData
  <2> SUFFICES ASSUME IInv, NEW entry \in stream_map, NEW s \in Streams,
                      Started(entry[2]), readId[s] = entry[1]
               PROVE  entry[2] = s
    BY DEF NoStreamGetsAnothersData
  <2> DEFINE r == entry[2]
  <2>i. TypeOK /\ StreamStates /\ Ids /\ Mapped
    BY DEF IInv
  <2>1. r \in Streams /\ readId[r] = entry[1] /\ entry[1] # NoId
    BY <2>i DEF TypeOK, Mapped, NoId
  <2>2. readId[r] = id[r]
    BY <2>i, <2>1 DEF StreamStates, Started
  <2>3. CASE r \in Http3Streams
    <3>1. id[r] >= 2 /\ id[r] \in Nat
      BY <2>i, <2>1, <2>2, <2>3 DEF Ids, TypeOK
    <3>2. readId[s] = id[s]
      BY <2>i, <2>1, <2>2, <3>1 DEF StreamStates
    <3>3. s \in Http3Streams
      BY <2>i, <2>1, <2>2, <3>1, <3>2 DEF Ids, Streams, NoId
    <3>4. QED
      BY <2>i, <2>1, <2>2, <2>3, <3>2, <3>3 DEF Ids
  <2>4. CASE r = "request"
    <3>1. readId[s] = 0
      BY <2>i, <2>1, <2>2, <2>4 DEF Ids
    <3>2. s \notin Http3Streams
      BY <2>i, <2>1, <2>4, <3>1 DEF Mapped
    <3>3. QED
      BY <2>4, <3>2 DEF Streams
  <2>5. QED
    BY <2>1, <2>3, <2>4 DEF Streams
<1>2. QED
    BY <1>1, InvHolds, PTL

\* While the connection is up, http3_stream_ok means that control and QPACK streams
\* of ours have started, and that each is found under its own id or has ended since.
THEOREM Http3OkMeansStreams == Spec => []ReadyStreamsWork
<1>1. IInv => ReadyStreamsWork
  <2> SUFFICES ASSUME IInv, http3_stream_ok, conn = "up", NEW s \in Http3Streams
               PROVE  \/ Started(s) /\ <<id[s], s>> \in stream_map
                      \/ stream[s] = "closed" /\ id[s] # NoId
    BY DEF ReadyStreamsWork
  <2>i. TypeOK /\ StreamsAtPlace /\ StreamStates /\ Mapped
    BY DEF IInv
  <2>1. s \in Streams /\ readId[s] # NoId
    BY <2>i DEF StreamsAtPlace, Streams
  <2>2. stream[s] \in {"started", "ending", "closed"} /\ (stream[s] = "closed" => id[s] # NoId)
    <3>1. stream[s] \notin {"none", "opened", "starting"}
      BY <2>i, <2>1 DEF StreamStates
    <3>2. stream[s] # "failed" /\ (stream[s] = "closed" => id[s] # NoId)
      BY <2>i DEF StreamStates
    <3>3. QED
      BY <2>i, <2>1, <3>1, <3>2 DEF TypeOK
  <2>3. stream[s] # "closed" => readId[s] = id[s]
    BY <2>i, <2>1, <2>2 DEF StreamStates
  <2>4. QED
    BY <2>i, <2>1, <2>2, <2>3 DEF Started, Mapped
<1>2. QED
    BY <1>1, InvHolds, PTL

\* The library and the registration are there for the connection's callbacks, and the
\* destructor of QUICClient closes no handle that was never opened.
THEOREM HandlesAreThere == Spec => []HandlesOutliveUse
<1>1. IInv => HandlesOutliveUse
    BY DEF IInv, TypeOK, HeldAtPlace, Nested, Waiting, Early, Closing, HandlesOutliveUse
<1>2. QED
    BY <1>1, InvHolds, PTL

\* What the running client has written to the key log reads back as the secrets of
\* its connection.
THEOREM KeyLogOfConnection == Spec => []KeyLogReadsBack
<1>1. IInv => KeyLogReadsBack
  <2> SUFFICES ASSUME IInv, key_log # <<>> PROVE ReadsBack(secrets, key_log)
    BY DEF KeyLogReadsBack
  <2>1. secrets \in TlsSecrets
    BY ClientConnectionAssumption DEF IInv, TypeOK
  <2>2. key_log = WriteSslKeyLogFile(secrets)
    BY DEF IInv, Logged
  <2>3. QED
    BY <2>1, <2>2, KeyLogIsReadable
<1>2. QED
    BY <1>1, InvHolds, PTL

-----------------------------------------------------------------------------
(* ClientConnection implements HandleLifetime. *)

ConnStages == [c \in {"connection"} |-> Stage(conn)]

LEMMA Stages ==
    /\ Stage("garbage") = "none" /\ Stage("null") = "none" /\ Stage("none") = "none"
    /\ Stage("closed") = "closed"
    /\ Stage("bare") = "open" /\ Stage("open") = "open"
    /\ Stage("starting") = "open" /\ Stage("up") = "open" /\ Stage("closing") = "open"
BY DEF Stage

\* A step of the connection is a step of the one member of ConnStages.
LEMMA ConnectionMoves ==
    /\ ConnStages["connection"] = Stage(conn)
    /\ ConnStages' = [ConnStages EXCEPT !["connection"] = Stage(conn)']
    /\ Stage(conn)' = Stage(conn) => UNCHANGED ConnStages
BY DEF ConnStages

\* Every step of the client opens, begins, ends or closes one handle, or none.
LEMMA LifetimeStep == IInv /\ [Next]_vars => [Lifetime!Next]_(Lifetime!vars)
<1> SUFFICES ASSUME IInv, [Next]_vars PROVE [Lifetime!Next]_(Lifetime!vars)
    OBVIOUS
<1> USE Stages DEF MainAt, client
<1> DEFINE Stutter == /\ UNCHANGED <<Stage(ms_quic), Stage(registration), Stage(configuration)>>
                      /\ UNCHANGED <<Stage("none"), ConnStages>>
<1>i. TypeOK /\ HeldAtPlace /\ Nested
    BY DEF IInv
<1>s. Stutter => UNCHANGED Lifetime!vars
    BY Zenon DEF Lifetime!vars, ConnStages
\* Most steps leave the handles alone, and the connection open if it was.
<1>h. ASSUME UNCHANGED <<ms_quic, registration, configuration>>, Stage(conn)' = Stage(conn)
      PROVE  Stutter
    BY <1>h, ConnectionMoves
<1> HIDE DEF Stutter
<1>1. CASE UNCHANGED vars
  <2>1. UNCHANGED <<ms_quic, registration, configuration, conn>>
    BY <1>1, Zenon DEF vars
  <2>2. QED
    BY <1>h, <1>s, <2>1
<1>2. ASSUME OpenLibrary PROVE Stutter \/ Lifetime!OpenLibrary
    BY <1>2, <1>i, <1>h, ConnectionMoves
       DEF OpenLibrary, HeldAtPlace, Lifetime!OpenLibrary, ConnStages
<1>3. ASSUME RegistrationOpen PROVE Stutter \/ Lifetime!OpenRegistration
    BY <1>3, <1>i, <1>h, ConnectionMoves
       DEF RegistrationOpen, HeldAtPlace, Lifetime!OpenRegistration, ConnStages
<1>4. ASSUME ConfigurationOpen PROVE Stutter \/ Lifetime!OpenConfiguration
    BY <1>4, <1>i, <1>h, ConnectionMoves
       DEF ConfigurationOpen, HeldAtPlace, Lifetime!OpenConfiguration, ConnStages
<1>5. ASSUME LoadCredential PROVE Stutter
  <2>1. /\ UNCHANGED <<ms_quic, registration, conn>> /\ configuration = "bare"
        /\ configuration' = "open" \/ configuration' = configuration
    BY <1>5, <1>i DEF LoadCredential, HeldAtPlace
  <2>2. QED
    BY <2>1, ConnectionMoves DEF Stutter
<1>6. ASSUME GetConnection PROVE Stutter \/ Lifetime!BeginConnection("connection")
  <2>1. UNCHANGED <<ms_quic, registration, configuration>> /\ conn = "none"
    BY <1>6, <1>i DEF GetConnection, HeldAtPlace, Early
  <2>2. CASE conn' = conn
    BY <1>h, <2>1, <2>2
  <2>3. CASE configuration = "open" /\ conn' = "starting"
    <3>1. registration = "open"
      BY <1>i, <2>3 DEF Nested
    <3>2. ConnStages["connection"] = "none"
          /\ ConnStages' = [ConnStages EXCEPT !["connection"] = "open"]
      BY <2>1, <2>3, ConnectionMoves
    <3>3. UNCHANGED <<Stage(ms_quic), Stage(registration), Stage(configuration)>>
      BY <2>1
    <3>4. Stage(configuration) = "open" /\ Stage(registration) = "open"
      BY <2>3, <3>1
    <3>5. QED
      BY <3>2, <3>3, <3>4, Zenon DEF Lifetime!BeginConnection, ConnStages
  <2>4. QED
    BY <1>6, <2>2, <2>3 DEF GetConnection
<1>7. ASSUME InitFields \/ WaitConnection \/ CheckConnection \/ StreamOpen \/ StreamStart
             \/ OpenStream \/ NewClientHttp3 \/ WaitHttp3 \/ SubmitRequest \/ StreamSend
             \/ PumpEnds \/ Wake
      PROVE  Stutter
  <2>1. UNCHANGED <<ms_quic, registration, configuration, conn>>
    BY <1>7, Zenon DEF InitFields, WaitConnection, CheckConnection, StreamOpen, StreamStart,
       OpenStream, NewClientHttp3, WaitHttp3, SubmitRequest, StreamSend, PumpEnds, Wake
  <2>2. QED
    BY <1>h, <2>1
<1>8. ASSUME StreamOpenFails \/ StreamStartFails \/ ConnectionShutdown PROVE Stutter
  <2>1. UNCHANGED <<ms_quic, registration, configuration>> /\ QuicShutdown
    BY <1>8, Zenon DEF StreamOpenFails, StreamStartFails, ConnectionShutdown
  <2>2. Stage(conn)' = Stage(conn)
    BY <2>1 DEF QuicShutdown
  <2>3. QED
    BY <1>h, <2>1, <2>2
<1>9. ASSUME NEW key \in pending, NextWrite(key) PROVE Stutter
  <2>1. UNCHANGED <<ms_quic, registration, configuration, conn>>
    BY <1>9, Zenon DEF NextWrite
  <2>2. QED
    BY <1>h, <2>1
<1>10. ASSUME ConfigurationClose PROVE Stutter \/ Lifetime!CloseConfiguration
  <2>1. UNCHANGED <<ms_quic, registration, conn>> /\ configuration = "open" /\ configuration' = "closed"
    BY <1>10, <1>i DEF ConfigurationClose, HeldAtPlace, Waiting, Early, Closing
  <2>2. QED
    BY <2>1, ConnectionMoves DEF Lifetime!CloseConfiguration, ConnStages
<1>11. ASSUME RegistrationClose PROVE Stutter \/ Lifetime!CloseRegistration
  <2>1. /\ UNCHANGED <<ms_quic, configuration, conn>>
        /\ main.at = "closeregistration" /\ conn \in {"none", "closed"} /\ configuration = "closed"
        /\ registration' = IF registration = "garbage" THEN "garbage" ELSE "closed"
    BY <1>11, <1>i DEF RegistrationClose, HeldAtPlace, Closing
  <2>2. registration = "open"
    BY <1>i, <2>1 DEF TypeOK, Nested
  <2>3. \A c \in {"connection"} : ConnStages[c] # "open"
    BY <2>1 DEF ConnStages
  <2>4. QED
    BY <2>1, <2>2, <2>3, ConnectionMoves DEF Lifetime!CloseRegistration, ConnStages
<1>12. ASSUME MsQuicClose PROVE Stutter \/ Lifetime!CloseLibrary
  <2>1. /\ UNCHANGED <<registration, configuration, conn>> /\ registration = "closed"
        /\ ms_quic \in {"null", "open", "closed"}
        /\ ms_quic' = IF ms_quic = "null" THEN "null" ELSE "closed"
    BY <1>12, <1>i DEF MsQuicClose, HeldAtPlace, TypeOK
  <2>2. QED
    BY <2>1, ConnectionMoves DEF Lifetime!CloseLibrary, Stutter, ConnStages
<1>13. ASSUME Connected \/ ShutdownInitiated PROVE Stutter
  <2>1. /\ UNCHANGED <<ms_quic, registration, configuration>>
        /\ {conn, conn'} \subseteq {"starting", "up", "closing"}
    BY <1>13 DEF Connected, ShutdownInitiated
  <2>2. Stage(conn) = "open" /\ Stage(conn)' = "open"
    BY <2>1 DEF Stage
  <2>3. QED
    BY <1>h, <2>1, <2>2
<1>14. ASSUME ShutdownComplete PROVE Lifetime!EndConnection("connection")
  <2>1. UNCHANGED <<ms_quic, registration, configuration>> /\ conn = "closing" /\ conn' = "closed"
    BY <1>14 DEF ShutdownComplete
  <2>2. ConnStages["connection"] = "open"
        /\ ConnStages' = [ConnStages EXCEPT !["connection"] = "closed"]
    BY <2>1, ConnectionMoves
  <2>3. UNCHANGED <<Stage(ms_quic), Stage(registration), Stage(configuration)>>
    BY <2>1
  <2>4. QED
    BY <2>2, <2>3, Zenon DEF Lifetime!EndConnection, ConnStages
<1>15. ASSUME NEW s \in Streams,
              IssueId(s) \/ SendComplete(s) \/ StreamEnding(s) \/ StreamShutdownComplete(s)
       PROVE  Stutter
  <2>1. UNCHANGED <<ms_quic, registration, configuration, conn>>
    BY <1>15, Zenon DEF IssueId, SendComplete, StreamEnding, StreamShutdownComplete
  <2>2. QED
    BY <1>h, <2>1
<1>16. "connection" \in {"connection"}
    OBVIOUS
<1>17. QED
    BY <1>s, <1>1, <1>2, <1>3, <1>4, <1>5, <1>6, <1>7, <1>8, <1>9, <1>10, <1>11, <1>12, <1>13,
       <1>14, <1>15, <1>16, Zenon DEF Next, Main, Msquic, Peer, Lifetime!Next

\* Whichever of its calls fails and whenever its connection ends, the client opens,
\* uses and closes its handles as HandleLifetime allows.
THEOREM ImplementsHandleLifetime == Spec => HandleLifetimeKept
<1>1. Init => Lifetime!Init
    BY Stages DEF Init, Lifetime!Init
<1>2. QED
    BY <1>1, InvHolds, LifetimeStep, PTL DEF Spec, HandleLifetimeKept, Lifetime!Spec
================================================================================
