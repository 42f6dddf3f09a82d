---------------------------- MODULE ServerConnection ----------------------------
(***************************************************************************)
(* One connection of the server (Server/ServerConnectionContext.cpp with   *)
(* StreamMap.h and ServerHttp3.cpp): msquic delivers the events of the     *)
(* connection and of its streams one at a time, while the detached thread  *)
(* of Http3Init opens the three HTTP/3 streams, waits for their ids and    *)
(* binds them.                                                             *)
(*                                                                         *)
(* Undefined behaviour (a freed or foreign object, a closed handle, an     *)
(* uninitialised pointer) either ends the process or goes unnoticed; after *)
(* it goes unnoticed the properties below claim nothing about the context. *)
(***************************************************************************)
EXTENDS Integers, FiniteSets

CONSTANTS
    Requests,   \* bidirectional streams the peer may open
    PeerUni,    \* unidirectional streams the peer may open: its own HTTP/3 streams
    MaxBuffers, \* buffers of one RECEIVE event
    CallsFail   \* calls that may fail: a subset of {"new", "open", "start", "bind", "read"}

ASSUME ServerConnectionAssumption ==
    /\ IsFiniteSet(Requests) /\ IsFiniteSet(PeerUni) /\ Requests \cap PeerUni = {}
    /\ (Requests \cup PeerUni) \cap {"control", "encoder", "decoder"} = {}
    /\ MaxBuffers \in Nat
    /\ CallsFail \subseteq {"new", "open", "start", "bind", "read"}

Http3Streams == {"control", "encoder", "decoder"}
PeerStreams == Requests \cup PeerUni
Streams == PeerStreams \cup Http3Streams

\* The order Http3Init takes the streams in.
After(s) == CASE s = "control" -> "encoder" [] s = "encoder" -> "decoder" [] OTHER -> "none"

Unread == -2   \* http3_*_stream_id before GetParam
NoId   == -1   \* msquic has not issued the stream's id

VARIABLES
    conn,       \* the connection, up to ConnectionClose
    context,    \* the heap object ServerConnectionContext
    http3,      \* its http3: "unset" until Http3Init assigns it, "broken" without nghttp3_conn
    ready,      \* http3_stream_ok
    init,       \* where the Http3Init thread is, and on which stream
    handle,     \* http3_*_stream: "unset", "null" or "stream"
    readId,     \* http3_*_stream_id
    stream,     \* msquic's view of each stream
    id,         \* the ids msquic has issued
    user,       \* GetContext(stream): none, the "connection"'s context or a "stream"'s own
    streamMap,  \* stream_map, as pairs <<id, stream>>
    finished,   \* streams of the peer whose FIN msquic has delivered
    request,    \* what nghttp3 knows of each of them
    removal,    \* RegisterConnectionRemove was called
    proc        \* the process is "up", or "terminated"

vars == <<conn, context, http3, ready, init, handle, readId, stream, id, user, streamMap, finished,
          request, removal, proc>>
thread == <<init, handle, readId>>
quic   == <<stream, id, user>>
object == <<context, http3, ready, streamMap>>
reading == <<finished, request>>

Init ==
    /\ conn = "handshaking" /\ context = "live" /\ http3 = "unset" /\ ready = FALSE
    /\ init = [at |-> "none", on |-> "none"]
    /\ handle = [s \in Http3Streams |-> "unset"]
    /\ readId = [s \in Http3Streams |-> Unread]
    /\ stream = [s \in Streams |-> "none"]
    /\ id = [s \in Streams |-> NoId]
    /\ user = [s \in Streams |-> "none"]
    /\ streamMap = {}
    /\ finished = {} /\ request = [r \in PeerStreams |-> "open"]
    /\ removal = FALSE
    /\ proc = "up"

\* A step that reads through the context, sound only while that is live.
UseContext ==
    \/ proc' = "up"
    \/ context # "live" /\ proc' = "terminated"

Alive(s) == stream[s] \in {"starting", "issued", "failed", "started", "ending"}

\* unordered_map::insert keeps the entry an id already has.
InsertStream(key, s) ==
    streamMap' = IF \E entry \in streamMap : entry[1] = key THEN streamMap
                 ELSE streamMap \cup {<<key, s>>}

\* msquic numbers the streams of each initiator and direction from 0.
NextId(s) ==
    CASE s \in Requests -> 4 * Cardinality({r \in Requests : id[r] # NoId})
      [] s \in PeerUni  -> 2 + 4 * Cardinality({r \in PeerUni : id[r] # NoId})
      [] OTHER           -> 3 + 4 * Cardinality({r \in Http3Streams : id[r] # NoId})

-----------------------------------------------------------------------------
(* ServerConnectionCallback *)

\* CONNECTED: send the resumption ticket, start the Http3Init thread.
Connected ==
    /\ proc = "up" /\ conn = "handshaking"
    /\ conn' = "connected"
    /\ init' = [at |-> "build", on |-> "none"]
    /\ UseContext
    /\ UNCHANGED <<object, handle, readId, quic, reading, removal>>

\* SHUTDOWN_INITIATED_BY_TRANSPORT, _BY_PEER: only logged.
ShutdownInitiated ==
    /\ proc = "up" /\ conn \in {"handshaking", "connected"}
    /\ conn' = "closing"
    /\ UNCHANGED <<object, thread, quic, reading, removal, proc>>

\* Fault: the stream is given its callback but not entered in the map.
PeerStreamUnmapped(s) ==
    /\ proc = "up" /\ conn = "connected" /\ stream[s] = "none"
    /\ stream' = [stream EXCEPT ![s] = "started"]
    /\ id' = [id EXCEPT ![s] = NextId(s)]
    /\ user' = [user EXCEPT ![s] = "connection"]
    /\ UseContext
    /\ UNCHANGED <<conn, object, thread, reading, removal>>

\* PEER_STREAM_STARTED
PeerStreamStarted(s) ==
    /\ proc = "up" /\ conn = "connected" /\ stream[s] = "none"
    /\ stream' = [stream EXCEPT ![s] = "started"]
    /\ id' = [id EXCEPT ![s] = NextId(s)]
    /\ InsertStream(NextId(s), s)
    /\ user' = [user EXCEPT ![s] = "connection"]
    /\ UseContext
    /\ UNCHANGED <<conn, context, http3, ready, thread, reading, removal>>

\* SHUTDOWN_COMPLETE, after the last event of every stream.
ConnectionShutdownComplete ==
    /\ proc = "up" /\ conn = "closing" /\ \A s \in Streams : ~Alive(s)
    /\ conn' = "closed"
    /\ removal' = TRUE
    /\ UseContext
    /\ UNCHANGED <<object, thread, quic, reading>>

\* ConnectionCloseJob of a later listener callback: delete context, whose
\* destructor deletes stream_map and http3.
Reclaim ==
    /\ proc = "up" /\ removal
    /\ removal' = FALSE
    /\ context' = "freed"
    /\ \/ proc' = "up"
       \/ (context # "live" \/ http3 = "unset") /\ proc' = "terminated"
    /\ UNCHANGED <<conn, http3, ready, streamMap, thread, quic, reading>>

-----------------------------------------------------------------------------
(* ServerStreamCallback *)

\* The StreamCtx the callback works on: a new one for a stream seen for the first
\* time, else what GetContext(stream) returns, whatever that is.
StreamCtxOf(s) == IF user[s] = "none" THEN "stream" ELSE user[s]
KeepStreamCtx(s) == user' = [user EXCEPT ![s] = StreamCtxOf(s)]

\* Fault: FIN goes with every buffer of the event.
FinWithEach(i, count, fin) == fin

\* FIN goes with the last buffer of the event.
FinWithLast(i, count, fin) == fin /\ i = count

\* nghttp3_conn_read_stream of one buffer: what nghttp3 makes of the request.
Feed(state, fin) ==
    CASE state = "open"  -> IF fin THEN "ended" ELSE "open"
      [] state = "ended" -> "overrun"
      [] OTHER           -> state

\* ServerHttp3::Read, one call for each buffer.
Read(state, count, fin) ==
    LET after[i \in 0..count] ==
            IF i = 0 THEN state ELSE Feed(after[i - 1], FinWithLast(i, count, fin))
    IN  after[count]

\* OnBeginHeaders has SetHttp3Context look the stream up by id, and then clears
\* the fields of its StreamCtx; what the callbacks of the section do after it
\* goes to the same place.
BeginHeaders(s) ==
    LET found == {entry[2] : entry \in {e \in streamMap : e[1] = id[s]}}
        foreign == \E f \in found : user[f] = "connection"
    IN \/ /\ found # {} /\ proc' = "up"
          /\ context' = IF foreign /\ context = "live" THEN "overwritten" ELSE context
       \/ /\ found = {} \/ foreign \/ context # "live"
          /\ proc' = "terminated" /\ UNCHANGED context

\* RECEIVE of a number of buffers, which msquic leaves at 0 when FIN comes alone:
\* http3->Read, whose error (request "failed") the callback ignores.  Only a
\* request has headers.
Receive(s) ==
    \E count \in 0..MaxBuffers, fin, headers \in BOOLEAN :
        /\ proc = "up" /\ conn = "connected" /\ stream[s] = "started"
        /\ s \notin finished
        /\ count > 0 \/ (fin /\ ~headers)
        /\ headers => s \in Requests
        /\ finished' = IF fin THEN finished \cup {s} ELSE finished
        /\ \/ /\ http3 = "built"
              /\ \/ request' = [request EXCEPT ![s] = Read(@, count, fin)]
                 \/ "read" \in CallsFail /\ count > 0 /\ request' = [request EXCEPT ![s] = "failed"]
              /\ IF headers THEN BeginHeaders(s) ELSE UNCHANGED context /\ proc' = "up"
           \/ /\ http3 # "built" \/ context # "live"
              /\ request' = [request EXCEPT ![s] = "failed"]
              /\ proc' \in {"up", "terminated"} /\ UNCHANGED context
        /\ KeepStreamCtx(s)
        /\ UNCHANGED <<conn, http3, ready, streamMap, thread, stream, id, removal>>

\* PEER_SEND_ABORTED: StreamShutdown(ABORT).  A stream also ends in order, when
\* the peer's STOP_SENDING resets it, or with its connection.
StreamEnding(s) ==
    /\ proc = "up" /\ stream[s] = "started"
    /\ stream' = [stream EXCEPT ![s] = "ending"]
    /\ KeepStreamCtx(s)
    /\ UseContext
    /\ UNCHANGED <<conn, object, thread, id, reading, removal>>

\* SHUTDOWN_COMPLETE: SetContext(NULL), delete stream_ctx, StreamClose.
StreamShutdownComplete(s) ==
    /\ proc = "up" /\ stream[s] = "ending"
    /\ user' = [user EXCEPT ![s] = "none"]
    /\ stream' = [stream EXCEPT ![s] = "closed"]
    /\ context' = IF StreamCtxOf(s) = "connection" THEN "freed" ELSE context
    /\ \/ proc' = "up"
       \/ (StreamCtxOf(s) = "connection" \/ context # "live") /\ proc' = "terminated"
    /\ UNCHANGED <<conn, http3, ready, streamMap, thread, id, reading, removal>>

\* msquic carries out StreamStart: the id is issued while the connection is up.
IssueId(s) ==
    /\ proc = "up" /\ stream[s] = "starting"
    /\ \/ conn = "connected" /\ stream' = [stream EXCEPT ![s] = "issued"]
                             /\ id' = [id EXCEPT ![s] = NextId(s)]
       \/ conn = "closing" /\ stream' = [stream EXCEPT ![s] = "failed"] /\ UNCHANGED id
    /\ UNCHANGED <<conn, object, thread, user, reading, removal, proc>>

\* Fault: the entry is keyed with http3_*_stream_id, which may not be read yet.
StartCompleteStale(s) ==
    /\ proc = "up" /\ stream[s] = "issued"
    /\ stream' = [stream EXCEPT ![s] = "started"]
    /\ InsertStream(readId[s], s)
    /\ KeepStreamCtx(s)
    /\ UseContext
    /\ UNCHANGED <<conn, context, http3, ready, thread, id, reading, removal>>

\* START_COMPLETE: the event's id is entered in the map, its status ignored.
StartComplete(s) ==
    /\ proc = "up"
    /\ \/ stream[s] = "issued" /\ stream' = [stream EXCEPT ![s] = "started"]
       \/ stream[s] = "failed" /\ stream' = [stream EXCEPT ![s] = "unusable"]
    /\ InsertStream(id[s], s)
    /\ KeepStreamCtx(s)
    /\ UseContext
    /\ UNCHANGED <<conn, context, http3, ready, thread, id, reading, removal>>

-----------------------------------------------------------------------------
(* The Http3Init thread. *)

InitAt(place) == proc = "up" /\ init.at = place
Step(place, s) == init' = [at |-> place, on |-> s]

\* Fault: a stream that cannot be opened leaves the connection up.
NoShutdown == UNCHANGED conn

\* ConnectionShutdown(quic_connection), without effect on one that is ending.
ConnectionShutdown == conn' = IF conn = "connected" THEN "closing" ELSE conn

\* A call on the connection's handle may crash once ConnectionClose was called.
UseConnection ==
    \/ UseContext
    \/ conn = "closed" /\ proc' = "terminated"

\* GetStream returns: go on with the next stream, then with reading their ids.
StreamReturned(s, result) ==
    /\ handle' = [handle EXCEPT ![s] = result]
    /\ IF After(s) # "none" THEN Step("open", After(s)) ELSE Step("getid", "control")

\* new ServerHttp3, whose nghttp3_conn stays uninitialised if nghttp3 refuses it.
Http3Build ==
    /\ InitAt("build")
    /\ http3' = "built" \/ ("new" \in CallsFail /\ http3' = "broken")
    /\ Step("open", "control")
    /\ UseContext
    /\ UNCHANGED <<conn, context, ready, streamMap, handle, readId, quic, reading, removal>>

\* GetStream: StreamOpen, with this context as the stream's callback context.
StreamOpen ==
    LET s == init.on IN
    /\ InitAt("open") /\ conn # "closed"
    /\ stream' = [stream EXCEPT ![s] = "opened"]
    /\ user' = [user EXCEPT ![s] = "connection"]
    /\ Step("start", s)
    /\ UseConnection
    /\ UNCHANGED <<conn, object, handle, readId, id, reading, removal>>

\* ... or it fails: the connection is shut down and nullptr returned.
StreamOpenFails ==
    /\ InitAt("open") /\ (conn # "connected" \/ "open" \in CallsFail)
    /\ ConnectionShutdown
    /\ StreamReturned(init.on, "null")
    /\ UseConnection
    /\ UNCHANGED <<object, readId, quic, reading, removal>>

\* Fault: the stream is returned without being started.
StreamStartForgotten ==
    LET s == init.on IN
    /\ InitAt("start") /\ conn # "closed"
    /\ StreamReturned(s, "stream")
    /\ UseConnection
    /\ UNCHANGED <<conn, object, readId, quic, reading, removal>>

\* GetStream: StreamStart(IMMEDIATE), which returns before the id is issued.
StreamStart ==
    LET s == init.on IN
    /\ InitAt("start") /\ conn # "closed"
    /\ stream' = [stream EXCEPT ![s] = "starting"]
    /\ StreamReturned(s, "stream")
    /\ UseConnection
    /\ UNCHANGED <<conn, object, readId, id, user, reading, removal>>

\* ... or it fails: StreamClose, ConnectionShutdown, nullptr.
StreamStartFails ==
    LET s == init.on IN
    /\ InitAt("start") /\ (conn # "connected" \/ "start" \in CallsFail)
    /\ stream' = [stream EXCEPT ![s] = "closed"]
    /\ user' = [user EXCEPT ![s] = "none"]
    /\ ConnectionShutdown
    /\ StreamReturned(s, "null")
    /\ UseConnection
    /\ UNCHANGED <<object, readId, id, reading, removal>>

\* Fault: `if` for `while`: GetParam is tried once.
GetIdOnce ==
    LET s == init.on IN
    /\ InitAt("getid")
    /\ readId' = IF handle[s] = "stream" /\ id[s] # NoId /\ stream[s] # "closed"
                 THEN [readId EXCEPT ![s] = id[s]] ELSE readId
    /\ IF After(s) # "none" THEN Step("getid", After(s)) ELSE Step("bindcontrol", "none")
    /\ UseContext
    /\ UNCHANGED <<conn, object, handle, quic, reading, removal>>

\* while(QUIC_FAILED(GetParam(stream, QUIC_PARAM_STREAM_ID))): the round that
\* succeeds.  A failed round changes nothing, so it is a stuttering step.
GetId ==
    LET s == init.on IN
    /\ InitAt("getid") /\ handle[s] = "stream" /\ id[s] # NoId /\ stream[s] # "closed"
    /\ readId' = [readId EXCEPT ![s] = id[s]]
    /\ IF After(s) # "none" THEN Step("getid", After(s)) ELSE Step("bindcontrol", "none")
    /\ UseContext
    /\ UNCHANGED <<conn, object, handle, quic, reading, removal>>

\* A round through a freed context or on a closed handle may crash.
GetIdCrashes ==
    /\ InitAt("getid")
    /\ \/ context # "live"
       \/ handle[init.on] = "stream" /\ stream[init.on] = "closed"
    /\ proc' = "terminated"
    /\ UNCHANGED <<conn, object, thread, quic, reading, removal>>

\* A call of nghttp3: through a pointer that was never set it may crash, fail or
\* seem to succeed.
UseNghttp3 ==
    \/ UseContext
    \/ http3 = "broken" /\ proc' = "terminated"

BindMayFail == "bind" \in CallsFail \/ http3 = "broken"

\* SetControlStreamId, then SetQPACKStreamId; either may fail.
BindControlStream ==
    /\ InitAt("bindcontrol")
    /\ Step("bindqpack", "none") \/ (BindMayFail /\ Step("gaveup", "none"))
    /\ UseNghttp3
    /\ UNCHANGED <<conn, object, handle, readId, quic, reading, removal>>

BindQpackStreams ==
    /\ InitAt("bindqpack")
    /\ \/ ready' = TRUE /\ Step("done", "none")
       \/ BindMayFail /\ UNCHANGED ready /\ Step("gaveup", "none")
    /\ UseNghttp3
    /\ UNCHANGED <<conn, context, http3, streamMap, handle, readId, quic, reading, removal>>

-----------------------------------------------------------------------------
Http3Init ==
    \/ Http3Build \/ StreamOpen \/ StreamOpenFails \/ StreamStart \/ StreamStartFails
    \/ GetId \/ GetIdCrashes \/ BindControlStream \/ BindQpackStreams

\* What msquic owes the server: to start streams, to report it, and to finish
\* the shutdown of a connection.
Msquic ==
    \/ ConnectionShutdownComplete
    \/ \E s \in Http3Streams : IssueId(s) \/ StartComplete(s)
    \/ \E s \in Streams : (conn = "closing" /\ StreamEnding(s)) \/ StreamShutdownComplete(s)

Next ==
    \/ Connected \/ ShutdownInitiated \/ Reclaim
    \/ \E s \in PeerStreams : PeerStreamStarted(s) \/ Receive(s)
    \/ \E s \in Streams : conn = "connected" /\ StreamEnding(s)
    \/ Msquic
    \/ Http3Init

Spec == Init /\ [][Next]_vars

\* The thread is scheduled and msquic does its part; the peer owes nothing.
FairSpec == Spec /\ WF_vars(Http3Init) /\ WF_vars(Msquic)
-----------------------------------------------------------------------------
TypeOK ==
    /\ conn \in {"handshaking", "connected", "closing", "closed"}
    /\ context \in {"live", "overwritten", "freed"}
    /\ http3 \in {"unset", "built", "broken"} /\ ready \in BOOLEAN
    /\ init \in [at : {"none", "build", "open", "start", "getid", "bindcontrol", "bindqpack",
                       "done", "gaveup"},
                 on : Http3Streams \cup {"none"}]
    /\ handle \in [Http3Streams -> {"unset", "null", "stream"}]
    /\ readId \in [Http3Streams -> Nat \cup {Unread}]
    /\ stream \in [Streams -> {"none", "opened", "starting", "issued", "failed", "started",
                               "unusable", "ending", "closed"}]
    /\ id \in [Streams -> Nat \cup {NoId}]
    /\ user \in [Streams -> {"none", "connection", "stream"}]
    /\ streamMap \subseteq (Nat \cup {NoId}) \X Streams
    /\ finished \subseteq PeerStreams
    /\ request \in [PeerStreams -> {"open", "ended", "failed", "overrun"}]
    /\ removal \in BOOLEAN
    /\ proc \in {"up", "terminated"}

\* Every stream that can deliver data is found in stream_map under the id msquic
\* gave it, whichever side opened it and however Http3Init's streams interleave.
StreamsFoundById ==
    \A s \in Streams : context = "live" /\ stream[s] \in {"started", "ending"} =>
        {entry[2] : entry \in {e \in streamMap : e[1] = id[s]}} = {s}

\* HTTP/3 is reported usable only once http3 is there, three streams of ours have
\* been opened and their ids, not leftovers, were bound.
BoundStreamsAreOurs ==
    context = "live" /\ ready =>
             /\ http3 # "unset"
             /\ \A s \in Http3Streams : handle[s] = "stream" /\ readId[s] = id[s] /\ id[s] # NoId
             /\ \A r, s \in Http3Streams : readId[r] = readId[s] => r = s

\* A connected connection becomes ready for HTTP/3, or the failure to open or start
\* a stream shuts it down.  It may stay up without HTTP/3 in two cases: a bind has
\* failed, which Http3Init only returns from, or a stream callback has deleted its
\* context.
ConnectedBecomesReady ==
    (conn = "connected") ~> (ready \/ conn # "connected" \/ init.at = "gaveup"
                             \/ context # "live" \/ proc = "terminated")

\* nghttp3 is told that a stream of the peer has ended when its FIN has been
\* delivered, and gets nothing of it afterwards, into however many buffers msquic
\* splits it.
EndComesLast ==
    \A r \in PeerStreams : /\ request[r] # "overrun"
                           /\ request[r] = "ended" => r \in finished

\* The Http3Init thread comes to its end unless the stream whose id it waits for
\* was never opened, never started, or ended before its id was read: then it
\* spins on GetParam for ever.
Http3InitEndsOrSpins ==
    (init.at = "build") ~>
        \/ init.at \in {"done", "gaveup"} \/ proc = "terminated"
        \/ /\ init.at = "getid"
           /\ handle[init.on] = "null" \/ stream[init.on] \in {"unusable", "closed"}

-----------------------------------------------------------------------------
(* What comments of the code say, and it does not do. *)

\* A stream's callback deletes the StreamCtx it made for the stream: the context of
\* the connection is there until the connection's own SHUTDOWN_COMPLETE.
ContextKeptUntilClosed == conn # "closed" => context # "freed"

\* http3 is allocated when the connection is complete, before data is read.
ReadFindsHttp3 ==
    [][(\E s \in PeerStreams : Receive(s)) => http3 # "unset"]_vars

\* When the receive side of a request is over, nghttp3 (whose OnEndStream is there
\* for it) has been told, or has refused the request.
EndOfRequestIsReported == \A r \in finished \cap Requests : request[r] # "open"
================================================================================
