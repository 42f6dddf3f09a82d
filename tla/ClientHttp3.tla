------------------------------ MODULE ClientHttp3 ------------------------------
(***************************************************************************)
(* ClientHttp3::Send with StreamSendById and the zero-copy StreamSend of   *)
(* ClientConnectionContext: a caller submits a request, and one caller at  *)
(* a time pumps what nghttp3 has to write into msquic, whose worker frees  *)
(* the buffer arrays and may report the connection's end at any moment.    *)
(*                                                                         *)
(* The client's main thread is the only caller today; the atomic flag      *)
(* pumping is there for several, so the callers are a constant.  nghttp3   *)
(* is external, and each of its calls is taken as atomic.                  *)
(***************************************************************************)
EXTENDS Integers, Sequences

CONSTANTS
    Callers,      \* threads that call Send once, for a request stream of their own
    Http3Streams, \* the streams the constructor bound
    Vectors,      \* vectors nghttp3 has to write for each stream
    MaxVectors,   \* vectors one nghttp3_conn_writev_stream returns at most: 16 in the code
    CallsFail     \* external calls that may fail: subset of {"submit", "send", "writev"}

Streams == Http3Streams \cup Callers

ASSUME ClientHttp3Assumption ==
    /\ Callers \cap Http3Streams = {}
    /\ Vectors \in [Streams -> Nat \ {0}]
    /\ MaxVectors \in Nat \ {0}
    /\ CallsFail \subseteq {"submit", "send", "writev"}

VARIABLES
    connection_ok,
    pumping,    \* the atomic flag
    queued,     \* streams nghttp3 has something to write for
    offset,     \* vectors of each stream nghttp3 was told are written
    at,         \* each caller's place in Send
    write,      \* the write in each caller's hands: vectors from+1 .. from+count
    sent,       \* what msquic accepted for each stream, in order
    allocated,  \* buffer arrays not freed, named by the write they were made for
    held        \* those msquic gives back in SEND_COMPLETE

vars == <<connection_ok, pumping, queued, offset, at, write, sent, allocated, held>>
nghttp3 == <<queued, offset>>
buffers == <<allocated, held>>

NoWrite == [stream |-> CHOOSE s \in Streams : TRUE, from |-> 0, count |-> 0]

\* The constructor has bound the HTTP/3 streams, each of which has a beginning
\* to write; main has seen the connection come up.
Init ==
    /\ connection_ok = TRUE
    /\ pumping = FALSE
    /\ queued = Http3Streams
    /\ offset = [s \in Streams |-> 0]
    /\ at = [c \in Callers |-> "submit"]
    /\ write = [c \in Callers |-> NoWrite]
    /\ sent = [s \in Streams |-> <<>>]
    /\ allocated = {} /\ held = {}

Goto(c, place) == at' = [at EXCEPT ![c] = place]

Array(w) == <<w.stream, w.from>>

\* FIN goes with the write that ends a request (ReadData reports EOF at once).
Fin(w) == w.stream \in Callers /\ w.from + w.count = Vectors[w.stream]

-----------------------------------------------------------------------------
(* Send *)

\* nghttp3_conn_submit_request
Submit(c) ==
    /\ at[c] = "submit"
    /\ \/ queued' = queued \cup {c} /\ Goto(c, "flag")
       \/ "submit" \in CallsFail /\ Goto(c, "refused") /\ UNCHANGED queued
    /\ UNCHANGED <<connection_ok, pumping, offset, write, sent, buffers>>

\* Fault: the flag is set, but its old value is not looked at.
SetOnly(c) ==
    /\ at[c] = "flag"
    /\ pumping' = TRUE
    /\ Goto(c, "writev")
    /\ UNCHANGED <<connection_ok, nghttp3, write, sent, buffers>>

\* if(pumping.test_and_set()) return;
TestAndSet(c) ==
    /\ at[c] = "flag"
    /\ pumping' = TRUE
    /\ Goto(c, IF pumping THEN "skipped" ELSE "writev")
    /\ UNCHANGED <<connection_ok, nghttp3, write, sent, buffers>>

\* nghttp3_conn_writev_stream picks a stream; NgVec2QuicBuffer allocates the
\* array msquic is to read.
Writev(c) ==
    /\ at[c] = "writev"
    /\ \E s \in queued, count \in 1..MaxVectors :
          /\ offset[s] + count <= Vectors[s]
          /\ write' = [write EXCEPT ![c] = [stream |-> s, from |-> offset[s], count |-> count]]
    /\ allocated' = allocated \cup {Array(write'[c])}
    /\ Goto(c, "check")
    /\ UNCHANGED <<connection_ok, pumping, nghttp3, sent, held>>

\* Nothing left to write: break.
WritevEmpty(c) ==
    /\ at[c] = "writev" /\ queued = {}
    /\ Goto(c, "clear")
    /\ UNCHANGED <<connection_ok, pumping, nghttp3, write, sent, buffers>>

\* nghttp3_conn_writev_stream fails: the same break, whatever is queued.
WritevFails(c) ==
    /\ at[c] = "writev" /\ "writev" \in CallsFail
    /\ Goto(c, "abandon")
    /\ UNCHANGED <<connection_ok, pumping, nghttp3, write, sent, buffers>>

\* Fault: the pump ends with the connection.
CheckAborts(c) ==
    /\ at[c] = "check"
    /\ Goto(c, IF connection_ok THEN "send" ELSE "clear")
    /\ UNCHANGED <<connection_ok, pumping, nghttp3, write, sent, buffers>>

\* Fault: what could not be sent is tried again.
CheckRetries(c) ==
    /\ at[c] = "check"
    /\ Goto(c, IF connection_ok THEN "send" ELSE "writev")
    /\ UNCHANGED <<connection_ok, pumping, nghttp3, write, sent, buffers>>

\* StreamSend: without a connection the write is dropped, and its array leaked.
Check(c) ==
    /\ at[c] = "check"
    /\ Goto(c, IF connection_ok THEN "send" ELSE "offset")
    /\ UNCHANGED <<connection_ok, pumping, nghttp3, write, sent, buffers>>

\* ms_quic->StreamSend is given one buffer, whatever the length of the array ...
SendAccepted(c) ==
    LET w == write[c] IN
    /\ at[c] = "send"
    /\ sent' = [sent EXCEPT ![w.stream] = Append(@, [vector |-> w.from + 1, fin |-> Fin(w)])]
    /\ held' = held \cup {Array(w)}
    /\ Goto(c, "offset")
    /\ UNCHANGED <<connection_ok, pumping, nghttp3, write, allocated>>

\* Fault: the array of a refused write is not freed.
SendRefusedLeaks(c) ==
    /\ at[c] = "send" /\ ("send" \in CallsFail \/ ~connection_ok)
    /\ Goto(c, "offset")
    /\ UNCHANGED <<connection_ok, pumping, nghttp3, write, sent, buffers>>

\* ... or fails, and the array is freed.
SendRefused(c) ==
    /\ at[c] = "send" /\ ("send" \in CallsFail \/ ~connection_ok)
    /\ allocated' = allocated \ {Array(write[c])}
    /\ Goto(c, "offset")
    /\ UNCHANGED <<connection_ok, pumping, nghttp3, write, sent, held>>

\* Fault: the last vector is not counted.
AddWriteOffsetShort(c) ==
    LET w == write[c] IN
    /\ at[c] = "offset"
    /\ offset' = [offset EXCEPT ![w.stream] = @ + w.count - 1]
    /\ queued' = IF offset'[w.stream] = Vectors[w.stream] THEN queued \ {w.stream} ELSE queued
    /\ Goto(c, "writev")
    /\ UNCHANGED <<connection_ok, pumping, write, sent, buffers>>

\* Fault: the array's capacity is counted, not the vectors filled.
AddWriteOffsetLong(c) ==
    LET w == write[c] IN
    /\ at[c] = "offset"
    /\ offset' = [offset EXCEPT ![w.stream] = @ + MaxVectors]
    /\ queued' = IF offset'[w.stream] = Vectors[w.stream] THEN queued \ {w.stream} ELSE queued
    /\ Goto(c, "writev")
    /\ UNCHANGED <<connection_ok, pumping, write, sent, buffers>>

\* nghttp3_conn_add_write_offset, with the bytes of every vector.
AddWriteOffset(c) ==
    LET w == write[c] IN
    /\ at[c] = "offset"
    /\ offset' = [offset EXCEPT ![w.stream] = @ + w.count]
    /\ queued' = IF offset'[w.stream] = Vectors[w.stream] THEN queued \ {w.stream} ELSE queued
    /\ Goto(c, "writev")
    /\ UNCHANGED <<connection_ok, pumping, write, sent, buffers>>

\* pumping.clear(), after either break
Clear(c) ==
    /\ at[c] \in {"clear", "abandon"}
    /\ pumping' = FALSE
    /\ Goto(c, IF at[c] = "clear" THEN "returned" ELSE "gaveup")
    /\ UNCHANGED <<connection_ok, nghttp3, write, sent, buffers>>

-----------------------------------------------------------------------------
(* The worker. *)

\* SHUTDOWN_INITIATED_BY_TRANSPORT, _BY_PEER and SHUTDOWN_COMPLETE.
ConnectionDown ==
    /\ connection_ok
    /\ connection_ok' = FALSE
    /\ UNCHANGED <<pumping, nghttp3, at, write, sent, buffers>>

\* SEND_COMPLETE: free(ClientContext)
SendComplete(array) ==
    /\ array \in held
    /\ held' = held \ {array}
    /\ allocated' = allocated \ {array}
    /\ UNCHANGED <<connection_ok, pumping, nghttp3, at, write, sent>>

-----------------------------------------------------------------------------
Send(c) ==
    \/ Submit(c) \/ TestAndSet(c) \/ Writev(c) \/ WritevEmpty(c) \/ WritevFails(c)
    \/ Check(c) \/ SendAccepted(c) \/ SendRefused(c) \/ AddWriteOffset(c) \/ Clear(c)

Next ==
    \/ \E c \in Callers : Send(c)
    \/ ConnectionDown
    \/ \E array \in held : SendComplete(array)

Spec == Init /\ [][Next]_vars

\* The callers' threads run.
FairSpec == Spec /\ \A c \in Callers : WF_vars(Send(c))
-----------------------------------------------------------------------------
Pumping(c) == at[c] \in {"writev", "check", "send", "offset", "clear", "abandon"}
InHand(c)  == at[c] \in {"check", "send", "offset"}
Arrays     == Streams \X Nat

TypeOK ==
    /\ connection_ok \in BOOLEAN /\ pumping \in BOOLEAN
    /\ queued \subseteq Streams
    /\ offset \in [Streams -> Nat] /\ \A s \in Streams : offset[s] <= Vectors[s]
    /\ at \in [Callers -> {"submit", "flag", "writev", "check", "send", "offset", "clear", "abandon",
                           "refused", "skipped", "returned", "gaveup"}]
    /\ write \in [Callers -> [stream : Streams, from : Nat, count : Nat]]
    /\ sent \in [Streams -> Seq([vector : Nat, fin : BOOLEAN])]
    /\ held \subseteq Arrays /\ allocated \subseteq Arrays

\* Between nghttp3_conn_writev_stream and nghttp3_conn_add_write_offset nobody
\* else moves the stream: the offset that is advanced is the one the vectors in
\* hand begin at, however many callers there are.
WriteIsCurrent ==
    \A c \in Callers : InHand(c) => /\ write[c].from = offset[write[c].stream]
                                    /\ write[c].stream \in queued

\* msquic never gets a vector of a stream twice, nor behind a later one.
SentInOrder ==
    \A s \in Streams : \A i, j \in DOMAIN sent[s] :
        i < j => sent[s][i].vector < sent[s][j].vector

\* An array is freed once msquic or the pump is done with it, and not before;
\* only the end of the connection leaks one.
ArraysHaveOneOwner ==
    /\ held \subseteq allocated
    /\ connection_ok =>
          \A array \in allocated \ held :
              \E c \in Callers : at[c] \in {"check", "send"} /\ array = Array(write[c])

\* When no pump runs after one has ended because nothing was left, all that
\* nghttp3 had to write has been taken from it, except requests of callers whose
\* own pump was ended by an error of nghttp3, that found another pump running (and
\* left theirs to a pump that may have seen nothing left by then), or that are
\* about to look.
NothingLeftBehind ==
    ~pumping /\ (\E c \in Callers : at[c] = "returned") =>
        \A s \in queued : s \in Callers /\ at[s] \in {"flag", "skipped", "gaveup"}

\* Send returns, whether the connection ends under it, msquic refuses the writes or
\* nghttp3 fails.
SendReturns ==
    \A c \in Callers : (at[c] = "flag") ~> (at[c] \in {"skipped", "returned", "gaveup"})

-----------------------------------------------------------------------------
(* What a comment of the code says, and it does not do. *)

\* The buffer the FIN flag is passed along with is the last one of the stream.
FinWithLastBuffer ==
    \A s \in Streams : \A i \in DOMAIN sent[s] :
        sent[s][i].fin => sent[s][i].vector = Vectors[s]
================================================================================
