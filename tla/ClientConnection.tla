---------------------------- MODULE ClientConnection ----------------------------
(***************************************************************************)
(* The client (Client/main.cpp) over its one connection: the main thread   *)
(* constructs QUICClient and a ClientConnectionContext, waits for the      *)
(* connection, opens the HTTP/3 streams, sends a request, shuts down and   *)
(* destroys QUICClient, while msquic's worker delivers the events of the   *)
(* connection and of its streams (QUICClient.cpp,                          *)
(* ClientConnectionContext.cpp, with StreamMap.h and ClientHttp3.cpp).     *)
(*                                                                         *)
(* A call on a handle msquic has been told to close either ends the        *)
(* process or fails unnoticed.                                             *)
(***************************************************************************)
EXTENDS KeyLog, FiniteSets

CONSTANTS
    Secrets,    \* what msquic may have written to client_secrets at CONNECTED
    CallsFail   \* external calls that may fail

ASSUME ClientConnectionAssumption ==
    /\ Secrets \subseteq TlsSecrets
    /\ CallsFail \subseteq {"library", "registration", "configuration", "credential", "connect",
                            "open", "start", "new", "bind", "submit", "writev", "fopen"}

Http3Streams == {"control", "encoder", "decoder"}
Streams == Http3Streams \cup {"request"}

\* The order Http3Init opens the streams in.
After(s) == CASE s = "control" -> "encoder" [] s = "encoder" -> "decoder" [] OTHER -> "none"

NoId == -1   \* an id not issued, or not read

VARIABLES
    ms_quic, registration, configuration,   \* the handles of QUICClient
    conn,             \* the connection, up to ConnectionClose
    connection_ok, http3_stream_ok,
    main,             \* the main thread's place, and the stream it is about
    stream,           \* msquic's view of each stream
    id,               \* the ids msquic has issued
    readId,           \* stream_id as OpenStream read it
    stream_map,       \* pairs <<id, stream>>
    nghttp3,          \* http3_connection: "none", "bound", "partly" bound, or "broken" (never set)
    pending,          \* ids nghttp3 has something to write for
    held,             \* streams with a send msquic has not completed
    secrets,          \* client_secrets
    key_log,          \* the lines of the key log file, once it is written
    proc              \* the process is "up", or "terminated"

vars == <<ms_quic, registration, configuration, conn, connection_ok, http3_stream_ok, main,
          stream, id, readId, stream_map, nghttp3, pending, held, secrets, key_log, proc>>
client == <<ms_quic, registration, configuration>>
flags  == <<connection_ok, http3_stream_ok>>
map    == <<readId, stream_map>>
http3  == <<nghttp3, pending, held>>
log    == <<secrets, key_log>>

\* ms_quic has an initialiser, registration and configuration have none;
\* connection_ok holds whatever the memory held until its initialiser runs.
Init ==
    /\ ms_quic = "null" /\ registration = "garbage" /\ configuration = "garbage"
    /\ conn = "none"
    /\ connection_ok \in BOOLEAN /\ http3_stream_ok = FALSE
    /\ main = [at |-> "library", on |-> "none"]
    /\ stream = [s \in Streams |-> "none"]
    /\ id = [s \in Streams |-> NoId] /\ readId = [s \in Streams |-> NoId]
    /\ stream_map = {} /\ nghttp3 = "none" /\ pending = {} /\ held = {}
    /\ secrets \in Secrets /\ key_log = <<>>
    /\ proc = "up"

MainAt(place) == proc = "up" /\ main.at = place
Goto(place, s) == main' = [at |-> place, on |-> s]

Started(s) == stream[s] \in {"started", "ending"}

\* A call on the connection's handle.
UseConnection ==
    \/ proc' = "up"
    \/ conn = "closed" /\ proc' = "terminated"

\* A call on a stream's handle.
UseStream(s) ==
    \/ proc' = "up"
    \/ stream[s] = "closed" /\ proc' = "terminated"

\* ms_quic->ConnectionShutdown, without effect on a connection that is ending.
QuicShutdown == conn' = IF conn \in {"starting", "up"} THEN "closing" ELSE conn

-----------------------------------------------------------------------------
(* The main thread: the constructors of QUICClient and, whether that succeeded *)
(* or not (nobody asks IsOk), of ClientConnectionContext.                      *)

\* MsQuicOpen2
OpenLibrary ==
    /\ MainAt("library")
    /\ \/ ms_quic' = "open" /\ Goto("registration", "none")
       \/ "library" \in CallsFail /\ UNCHANGED ms_quic /\ Goto("connect", "none")
    /\ UNCHANGED <<registration, configuration, conn, flags, stream, id, map, http3, log, proc>>

RegistrationOpen ==
    /\ MainAt("registration")
    /\ \/ registration' = "open" /\ Goto("configuration", "none")
       \/ "registration" \in CallsFail /\ UNCHANGED registration /\ Goto("connect", "none")
    /\ UNCHANGED <<ms_quic, configuration, conn, flags, stream, id, map, http3, log, proc>>

\* SetConfiguration: ConfigurationOpen, then ConfigurationLoadCredential.
ConfigurationOpen ==
    /\ MainAt("configuration")
    /\ \/ configuration' = "bare" /\ Goto("credential", "none")
       \/ "configuration" \in CallsFail /\ UNCHANGED configuration /\ Goto("connect", "none")
    /\ UNCHANGED <<ms_quic, registration, conn, flags, stream, id, map, http3, log, proc>>

LoadCredential ==
    /\ MainAt("credential")
    /\ \/ configuration' = "open"
       \/ "credential" \in CallsFail /\ UNCHANGED configuration
    /\ Goto("connect", "none")
    /\ UNCHANGED <<ms_quic, registration, conn, flags, stream, id, map, http3, log, proc>>

\* GetConnection: ConnectionOpen, SetParam for the key log, and ConnectionStart, from
\* which on the callback may run; a failure closes the connection again.  Each
\* takes a handle that is not there for what it is, or crashes.
GetConnection ==
    /\ MainAt("connect")
    /\ \/ configuration = "open" /\ conn' = "starting" /\ Goto("fields", "none") /\ UNCHANGED proc
       \/ /\ ms_quic = "open" /\ (configuration # "open" \/ "connect" \in CallsFail)
          /\ Goto("fields", "none") /\ UNCHANGED <<conn, proc>>
       \/ /\ configuration = "garbage"
          /\ proc' = "terminated" /\ UNCHANGED <<conn, main>>
    /\ UNCHANGED <<client, flags, stream, id, map, http3, log>>

\* connection_ok is declared after quic_connection: its initialiser runs after
\* GetConnection has returned.
InitFields ==
    /\ MainAt("fields")
    /\ connection_ok' = FALSE /\ http3_stream_ok' = FALSE
    /\ Goto("wait", "none")
    /\ UNCHANGED <<client, conn, stream, id, map, http3, log, proc>>

\* while(!IsConnectionOk())
WaitConnection ==
    /\ MainAt("wait") /\ connection_ok
    /\ Goto("init", "none")
    /\ UNCHANGED <<client, conn, flags, stream, id, map, http3, log, proc>>

-----------------------------------------------------------------------------
(* Http3Init, and OpenStream with GetStream, on the main thread. *)

CheckConnection ==
    /\ MainAt("init")
    /\ IF connection_ok THEN Goto("open", "control") ELSE Goto("waithttp3", "none")
    /\ UNCHANGED <<client, conn, flags, stream, id, map, http3, log, proc>>

\* OpenStream returns false: Http3Init gives up, test() returns.
OpenFailed(s) ==
    IF s = "request" THEN Goto("sleep", "none") /\ UNCHANGED http3_stream_ok
    ELSE Goto("waithttp3", "none") /\ http3_stream_ok' = FALSE

StreamOpen ==
    /\ MainAt("open") /\ conn # "closed"
    /\ stream' = [stream EXCEPT ![main.on] = "opened"]
    /\ Goto("start", main.on)
    /\ UNCHANGED <<client, conn, flags, id, map, http3, log, proc>>

\* The connection is shut down and nullptr returned.
StreamOpenFails ==
    /\ MainAt("open") /\ (conn # "up" \/ "open" \in CallsFail)
    /\ QuicShutdown /\ UseConnection
    /\ OpenFailed(main.on)
    /\ UNCHANGED <<client, connection_ok, stream, id, map, http3, log>>

StreamStart ==
    /\ MainAt("start") /\ conn # "closed"
    /\ stream' = [stream EXCEPT ![main.on] = "starting"]
    /\ Goto("getid", main.on)
    /\ UNCHANGED <<client, conn, flags, id, map, http3, log, proc>>

\* StreamClose, ConnectionShutdown, nullptr.
StreamStartFails ==
    /\ MainAt("start") /\ (conn # "up" \/ "start" \in CallsFail)
    /\ stream' = [stream EXCEPT ![main.on] = "closed"]
    /\ QuicShutdown /\ UseConnection
    /\ OpenFailed(main.on)
    /\ UNCHANGED <<client, connection_ok, id, map, http3, log>>

\* Fault: the id is initialised to -1 for the failure.
ReadIdOrNone(s) == IF id[s] # NoId /\ stream[s] # "closed" THEN id[s] ELSE NoId

\* GetStreamId: 0 when GetParam fails, whose status nobody looks at.
ReadId(s) == IF id[s] # NoId /\ stream[s] # "closed" THEN id[s] ELSE 0

\* Fault: InsertStream is forgotten.
RegisterUnmapped(s) ==
    /\ readId' = [readId EXCEPT ![s] = ReadId(s)]
    /\ UNCHANGED stream_map

\* unordered_map::insert keeps the entry an id already has.
Register(s) ==
    /\ readId' = [readId EXCEPT ![s] = ReadId(s)]
    /\ stream_map' = IF \E entry \in stream_map : entry[1] = ReadId(s) THEN stream_map
                     ELSE stream_map \cup {<<ReadId(s), s>>}

\* Fault: the id is read without waiting for StreamStart.
OpenStreamAtOnce ==
    LET s == main.on IN
    /\ MainAt("getid")
    /\ Register(s)
    /\ UseStream(s)
    /\ IF s = "request" THEN Goto("submit", s)
       ELSE IF After(s) = "none" THEN Goto("http3", "none") ELSE Goto("open", After(s))
    /\ UNCHANGED <<client, conn, flags, stream, id, http3, log>>

\* OpenStream: GetStreamId waits behind StreamStart in msquic's queue, and then
\* InsertStream.
OpenStream ==
    LET s == main.on IN
    /\ MainAt("getid") /\ stream[s] # "starting"
    /\ Register(s)
    /\ UseStream(s)
    /\ IF s = "request" THEN Goto("submit", s)
       ELSE IF After(s) = "none" THEN Goto("http3", "none") ELSE Goto("open", After(s))
    /\ UNCHANGED <<client, conn, flags, stream, id, http3, log>>

\* The binds of the control stream and of the two QPACK streams, whose results
\* nobody looks at; nghttp3 asserts that it is given ids of unidirectional
\* streams, if its build keeps assertions.
BindStreams ==
    \E bound \in SUBSET Http3Streams :
        /\ bound = Http3Streams \/ "bind" \in CallsFail
        /\ "decoder" \in bound => "encoder" \in bound
        /\ nghttp3' = IF bound = Http3Streams THEN "bound" ELSE "partly"
        /\ pending' = {readId[s] : s \in bound}
        /\ \/ UNCHANGED proc
           \/ 0 \in {readId[s] : s \in Http3Streams} /\ proc' = "terminated"

\* new ClientHttp3, whose nghttp3_conn stays uninitialised if nghttp3 refuses it.
\* Http3Init takes it for ready all the same.
NewClientHttp3 ==
    /\ MainAt("http3")
    /\ \/ BindStreams
       \/ "new" \in CallsFail /\ nghttp3' = "broken" /\ UNCHANGED <<pending, proc>>
    /\ http3_stream_ok' = TRUE
    /\ Goto("waithttp3", "none")
    /\ UNCHANGED <<client, conn, connection_ok, stream, id, map, held, log>>

\* while(!IsHttp3StreamOk()), then test() opens the request's stream.
WaitHttp3 ==
    /\ MainAt("waithttp3") /\ http3_stream_ok
    /\ Goto("open", "request")
    /\ UNCHANGED <<client, conn, flags, stream, id, map, http3, log, proc>>

-----------------------------------------------------------------------------
(* ClientHttp3::Send, on the main thread. *)

\* nghttp3_conn_submit_request refuses the id of a stream it knows; on a connection
\* that is not there, or without its QPACK streams, it may also crash.
SubmitRequest ==
    /\ MainAt("submit")
    /\ \/ /\ nghttp3 # "broken" /\ readId["request"] \notin pending
          /\ pending' = pending \cup {readId["request"]}
          /\ Goto("pump", "none") /\ UNCHANGED proc
       \/ /\ nghttp3 = "broken" \/ readId["request"] \in pending \/ "submit" \in CallsFail
          /\ Goto("sleep", "none") /\ UNCHANGED <<pending, proc>>
       \/ nghttp3 # "bound" /\ proc' = "terminated" /\ UNCHANGED <<main, pending>>
    /\ UNCHANGED <<client, conn, flags, stream, id, map, nghttp3, held, log>>

\* nghttp3_conn_writev_stream names a stream; StreamSendById finds its handle
\* (stream_map.at throws std::out_of_range on the main thread if there is none)
\* and drops the data if the connection is gone by now.
NextWrite(key) ==
    LET found == {entry[2] : entry \in {e \in stream_map : e[1] = key}} IN
    /\ MainAt("pump")
    /\ IF connection_ok /\ found # {} THEN \E s \in found : Goto("send", s) ELSE UNCHANGED main
    /\ proc' = IF found = {} THEN "terminated" ELSE proc
    /\ pending' = pending \ {key}
    /\ UNCHANGED <<client, conn, flags, stream, id, map, nghttp3, held, log>>

\* ms_quic->StreamSend takes the buffers, or fails and they are freed.
StreamSend ==
    /\ MainAt("send")
    /\ \/ Started(main.on) /\ held' = held \cup {main.on}
       \/ UNCHANGED held
    /\ UseStream(main.on)
    /\ Goto("pump", "none")
    /\ UNCHANGED <<client, conn, flags, stream, id, map, nghttp3, pending, log>>

\* The loop ends when nghttp3 names no stream: there is nothing left, or it failed.
PumpEnds ==
    /\ MainAt("pump") /\ (pending = {} \/ "writev" \in CallsFail)
    /\ Goto("sleep", "none")
    /\ UNCHANGED <<client, conn, flags, stream, id, map, http3, log, proc>>

-----------------------------------------------------------------------------
(* The end of main. *)

\* Sleep, and the check ConnectionShutdown begins with.
Wake ==
    /\ MainAt("sleep")
    /\ Goto(IF connection_ok THEN "shutdown" ELSE "return", "none")
    /\ UNCHANGED <<client, conn, flags, stream, id, map, http3, log, proc>>

ConnectionShutdown ==
    /\ MainAt("shutdown")
    /\ QuicShutdown /\ UseConnection
    /\ Goto("return", "none")
    /\ UNCHANGED <<client, flags, stream, id, map, http3, log>>

\* ~QUICClient, which takes whatever is not null for a handle.
ConfigurationClose ==
    /\ MainAt("return")
    /\ configuration' = IF configuration = "garbage" THEN "garbage" ELSE "closed"
    /\ Goto("closeregistration", "none")
    /\ UNCHANGED <<ms_quic, registration, conn, flags, stream, id, map, http3, log, proc>>

\* Fault: RegistrationClose is left out.
RegistrationCloseForgotten ==
    /\ MainAt("closeregistration")
    /\ Goto("closelibrary", "none")
    /\ UNCHANGED <<client, conn, flags, stream, id, map, http3, log, proc>>

\* RegistrationClose waits until every connection is closed.
RegistrationClose ==
    /\ MainAt("closeregistration") /\ conn \in {"none", "closed"}
    /\ registration' = IF registration = "garbage" THEN "garbage" ELSE "closed"
    /\ Goto("closelibrary", "none")
    /\ UNCHANGED <<ms_quic, configuration, conn, flags, stream, id, map, http3, log, proc>>

MsQuicClose ==
    /\ MainAt("closelibrary")
    /\ ms_quic' = IF ms_quic = "null" THEN "null" ELSE "closed"
    /\ Goto("ended", "none")
    /\ UNCHANGED <<registration, configuration, conn, flags, stream, id, map, http3, log, proc>>

-----------------------------------------------------------------------------
(* ClientConnectionCallback and ClientStreamCallback, on the worker. *)

\* CONNECTED: the key log is written if its file can be opened.
Connected ==
    /\ proc = "up" /\ conn = "starting"
    /\ \/ key_log' = WriteSslKeyLogFile(secrets)
       \/ "fopen" \in CallsFail /\ UNCHANGED key_log
    /\ conn' = "up"
    /\ connection_ok' = TRUE
    /\ UNCHANGED <<client, http3_stream_ok, main, stream, id, map, http3, secrets, proc>>

\* SHUTDOWN_INITIATED_BY_TRANSPORT (idle timeout, no handshake) and _BY_PEER.
ShutdownInitiated ==
    /\ proc = "up" /\ conn \in {"starting", "up"}
    /\ conn' = "closing"
    /\ connection_ok' = FALSE
    /\ UNCHANGED <<client, http3_stream_ok, main, stream, id, map, http3, log, proc>>

\* Fault: ConnectionClose is not called.
ShutdownCompleteKeepsHandle ==
    /\ proc = "up" /\ conn = "closing"
    /\ \A s \in Streams : stream[s] # "starting" /\ ~Started(s)
    /\ connection_ok' = FALSE
    /\ UNCHANGED <<client, conn, http3_stream_ok, main, stream, id, map, http3, log, proc>>

\* SHUTDOWN_COMPLETE, after the last event of every stream: ConnectionClose.
ShutdownComplete ==
    /\ proc = "up" /\ conn = "closing"
    /\ \A s \in Streams : stream[s] # "starting" /\ ~Started(s)
    /\ conn' = "closed"
    /\ connection_ok' = FALSE
    /\ UNCHANGED <<client, http3_stream_ok, main, stream, id, map, http3, log, proc>>

\* msquic numbers the streams of the client by kind, from 0.
NextId(s) == IF s = "request" THEN 0
             ELSE 2 + 4 * Cardinality({r \in Http3Streams : id[r] # NoId})

\* msquic carries out StreamStart, if the connection is still up.
IssueId(s) ==
    /\ proc = "up" /\ stream[s] = "starting"
    /\ \/ conn = "up" /\ stream' = [stream EXCEPT ![s] = "started"]
                      /\ id' = [id EXCEPT ![s] = NextId(s)]
       \/ conn # "up" /\ stream' = [stream EXCEPT ![s] = "failed"] /\ UNCHANGED id
    /\ UNCHANGED <<client, conn, flags, main, map, http3, log, proc>>

\* SEND_COMPLETE: free(ClientContext)
SendComplete(s) ==
    /\ proc = "up" /\ s \in held
    /\ held' = held \ {s}
    /\ UNCHANGED <<client, conn, flags, main, stream, id, map, nghttp3, pending, log, proc>>

\* The peer shuts the request's stream down, its STOP_SENDING resets one of ours, or
\* the connection ends.
StreamEnding(s) ==
    /\ proc = "up" /\ stream[s] = "started"
    /\ stream' = [stream EXCEPT ![s] = "ending"]
    /\ UNCHANGED <<client, conn, flags, main, id, map, http3, log, proc>>

\* SHUTDOWN_COMPLETE of a stream: StreamClose; its entry stays in stream_map.
StreamShutdownComplete(s) ==
    /\ proc = "up" /\ stream[s] = "ending" /\ s \notin held
    /\ stream' = [stream EXCEPT ![s] = "closed"]
    /\ UNCHANGED <<client, conn, flags, main, id, map, http3, log, proc>>

-----------------------------------------------------------------------------
Main ==
    \/ OpenLibrary \/ RegistrationOpen \/ ConfigurationOpen \/ LoadCredential
    \/ GetConnection \/ InitFields \/ WaitConnection \/ CheckConnection
    \/ StreamOpen \/ StreamOpenFails \/ StreamStart \/ StreamStartFails
    \/ OpenStream \/ NewClientHttp3 \/ WaitHttp3 \/ SubmitRequest
    \/ \E key \in pending : NextWrite(key)
    \/ StreamSend \/ PumpEnds \/ Wake \/ ConnectionShutdown
    \/ ConfigurationClose \/ RegistrationClose \/ MsQuicClose

\* What msquic owes the client.
Msquic ==
    \/ ShutdownComplete
    \/ \E s \in Streams : IssueId(s) \/ SendComplete(s) \/ StreamShutdownComplete(s)
    \/ \E s \in Streams : conn = "closing" /\ StreamEnding(s)

\* What the network and the peer may do.
Peer ==
    \/ Connected \/ ShutdownInitiated
    \/ \E s \in Streams : conn = "up" /\ StreamEnding(s)

Next == Main \/ Msquic \/ Peer

Spec == Init /\ [][Next]_vars

\* The main thread and msquic's worker run.
FairSpec == Spec /\ WF_vars(Main) /\ WF_vars(Msquic)
-----------------------------------------------------------------------------
TypeOK ==
    /\ ms_quic \in {"null", "open", "closed"}
    /\ registration \in {"garbage", "open", "closed"}
    /\ configuration \in {"garbage", "bare", "open", "closed"}
    /\ conn \in {"none", "starting", "up", "closing", "closed"}
    /\ connection_ok \in BOOLEAN /\ http3_stream_ok \in BOOLEAN
    /\ main \in [at : {"library", "registration", "configuration", "credential", "connect", "fields",
                       "wait", "init", "open", "start", "getid", "http3", "waithttp3", "submit",
                       "pump", "send", "sleep", "shutdown", "return", "closeregistration",
                       "closelibrary", "ended"},
                 on : Streams \cup {"none"}]
    /\ stream \in [Streams -> {"none", "opened", "starting", "started", "failed", "ending",
                               "closed"}]
    /\ id \in [Streams -> Nat \cup {NoId}] /\ readId \in [Streams -> Nat \cup {NoId}]
    /\ stream_map \subseteq Nat \X Streams
    /\ nghttp3 \in {"none", "bound", "partly", "broken"}
    /\ held \subseteq Streams
    /\ pending \subseteq Nat
    /\ secrets \in Secrets
    /\ proc \in {"up", "terminated"}

\* The pump never asks stream_map for an id it lacks, even when ids could not be
\* read: the lookup that would throw std::out_of_range out of main finds an entry.
PumpFindsStreams ==
    MainAt("pump") => \A key \in pending : \E entry \in stream_map : entry[1] = key

\* What HTTP/3 writes for one stream never goes out on another: an id that was
\* not read, and so became 0, does not lead to the request's stream, whose id is 0.
NoStreamGetsAnothersData ==
    \A entry \in stream_map : \A s \in Streams :
        Started(entry[2]) /\ readId[s] = entry[1] => entry[2] = s

\* While the connection is up, http3_stream_ok means of each of our three streams that
\* it has started and is found under its own id: unless it has ended since, which the
\* peer can make it do, and which nothing tells the flag.
ReadyStreamsWork ==
    http3_stream_ok /\ conn = "up" =>
        \A s \in Http3Streams :
            \/ Started(s) /\ <<id[s], s>> \in stream_map
            \/ stream[s] = "closed" /\ id[s] # NoId

\* While a connection may call back, the library and the registration are there for
\* it; and although nobody looks at IsOk, the destructor finds no handle that was
\* never opened, because main cannot get past a connection that did not come up.
HandlesOutliveUse ==
    /\ conn \in {"starting", "up", "closing"} => ms_quic = "open" /\ registration = "open"
    /\ main.at \in {"return", "closeregistration", "closelibrary", "ended"} =>
          "garbage" \notin {registration, configuration}

\* The key log says of each secret msquic has set what it is, although all share
\* one array of characters.
KeyLogReadsBack == key_log # <<>> => ReadsBack(secrets, key_log)

\* A main that has seen the connection come up returns, with the connection
\* and the library closed, unless Http3Init failed or a call on a closed handle
\* ended the process.
MainEnds ==
    (main.at = "init") ~> \/ main.at = "ended" /\ conn = "closed" /\ ms_quic = "closed"
                          \/ main.at = "waithttp3" /\ conn # "up" /\ ~http3_stream_ok
                          \/ proc = "terminated"

-----------------------------------------------------------------------------
(* Refinement: the handles as msquic sees them.  One that was never opened is  *)
(* no handle, whatever the pointer holds.                                      *)

Stage(handle) ==
    CASE handle \in {"garbage", "null", "none"} -> "none"
      [] handle = "closed"                      -> "closed"
      [] OTHER                                  -> "open"

Lifetime == INSTANCE HandleLifetime WITH
    Conns <- {"connection"}, listener <- "none",
    library <- Stage(ms_quic), registration <- Stage(registration),
    configuration <- Stage(configuration),
    conn <- [c \in {"connection"} |-> Stage(conn)]

\* The client opens, uses and closes its handles in an order msquic allows,
\* whichever of its calls fails and whenever the connection ends.
HandleLifetimeKept == Lifetime!Spec
================================================================================
