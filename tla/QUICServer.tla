------------------------------- MODULE QUICServer -------------------------------
(***************************************************************************)
(* The server from main to its end (Server/main.cpp, QUICServer.cpp): the  *)
(* main thread opens and closes the handles of msquic, while the listener  *)
(* callback accepts connections and the connections come and go, each with *)
(* the thread of Http3Init it leaves behind.  What the callbacks do to the *)
(* registry is ConnectionMap, and to one connection ServerConnection.      *)
(***************************************************************************)
CONSTANTS
    Conns,      \* connections the clients may attempt
    CallsFail   \* external calls that may fail

ASSUME QUICServerAssumption ==
    CallsFail \subseteq {"library", "registration", "configuration", "credential", "listener",
                         "start", "configure"}

VARIABLES
    ms_quic, registration,
    configuration,  \* "bare" without its credential
    listener,
    ok,
    main,           \* the place of the main thread
    conn,           \* each connection; "offered" while its listener callback runs
    thread,         \* the Http3Init thread of each connection
    proc            \* the process is "up", or "terminated"

vars == <<ms_quic, registration, configuration, listener, ok, main, conn, thread, proc>>
handles == <<ms_quic, registration, configuration, listener>>
clients == <<conn, thread>>

\* The object is on the stack of main, and only ok has an initialiser.
Init ==
    /\ ms_quic = "garbage" /\ registration = "garbage" /\ configuration = "garbage"
    /\ listener = "null" /\ ok = FALSE
    /\ main = "library"
    /\ conn = [c \in Conns |-> "none"] /\ thread = [c \in Conns |-> "none"]
    /\ proc = "up"

MainAt(place) == proc = "up" /\ main = place

-----------------------------------------------------------------------------
(* The constructor; a call that fails ends it. *)

\* MsQuicOpen2
OpenLibrary ==
    /\ MainAt("library")
    /\ \/ ms_quic' = "open" /\ main' = "registration"
       \/ "library" \in CallsFail /\ UNCHANGED ms_quic /\ main' = "isok"
    /\ UNCHANGED <<registration, configuration, listener, ok, clients, proc>>

RegistrationOpen ==
    /\ MainAt("registration")
    /\ \/ registration' = "open" /\ main' = "configuration"
       \/ "registration" \in CallsFail /\ UNCHANGED registration /\ main' = "isok"
    /\ UNCHANGED <<ms_quic, configuration, listener, ok, clients, proc>>

\* SetConfiguration: ConfigurationOpen ...
ConfigurationOpen ==
    /\ MainAt("configuration")
    /\ \/ configuration' = "bare" /\ main' = "credential"
       \/ "configuration" \in CallsFail /\ UNCHANGED configuration /\ main' = "isok"
    /\ UNCHANGED <<ms_quic, registration, listener, ok, clients, proc>>

\* ... and ConfigurationLoadCredential.
LoadCredential ==
    /\ MainAt("credential")
    /\ \/ configuration' = "open" /\ ok' = TRUE
       \/ "credential" \in CallsFail /\ UNCHANGED <<configuration, ok>>
    /\ main' = "isok"
    /\ UNCHANGED <<ms_quic, registration, listener, clients, proc>>

\* Fault: main does not ask (as the client's does not).
IsOkIgnored ==
    /\ MainAt("isok")
    /\ main' = "listen"
    /\ UNCHANGED <<handles, ok, clients, proc>>

\* main: if(server.IsOk())
IsOk ==
    /\ MainAt("isok")
    /\ main' = IF ok THEN "listen" ELSE "closeconfiguration"
    /\ UNCHANGED <<handles, ok, clients, proc>>

-----------------------------------------------------------------------------
(* ServerStart *)

ListenerOpen ==
    /\ MainAt("listen")
    /\ \/ listener' = "open" /\ main' = "start"
       \/ "listener" \in CallsFail /\ UNCHANGED listener /\ main' = "closelistener"
    /\ UNCHANGED <<ms_quic, registration, configuration, ok, clients, proc>>

ListenerStart ==
    /\ MainAt("start")
    /\ \/ listener' = "listening" /\ main' = "getchar"
       \/ "start" \in CallsFail /\ UNCHANGED listener /\ main' = "closelistener"
    /\ UNCHANGED <<ms_quic, registration, configuration, ok, clients, proc>>

\* (void)getchar()
Enter ==
    /\ MainAt("getchar")
    /\ main' = "closelistener"
    /\ UNCHANGED <<handles, ok, clients, proc>>

\* Fault: ServerStart leaves the listener open.
ListenerCloseForgotten ==
    /\ MainAt("closelistener")
    /\ main' = "closeconfiguration"
    /\ UNCHANGED <<handles, ok, clients, proc>>

\* if(listener != NULL) ListenerClose, which waits for the callbacks.
ListenerClose ==
    /\ MainAt("closelistener") /\ \A c \in Conns : conn[c] # "offered"
    /\ listener' = IF listener = "null" THEN "null" ELSE "closed"
    /\ main' = "closeconfiguration"
    /\ UNCHANGED <<ms_quic, registration, configuration, ok, clients, proc>>

-----------------------------------------------------------------------------
(* The destructor.  A handle that no constructor path has set is null, and     *)
(* skipped, or is used as it is: then the process crashes or nobody notices.   *)

Closed(handle) == IF handle = "garbage" THEN "garbage" ELSE "closed"
UseHandle(handle) == proc' = "up" \/ (handle = "garbage" /\ proc' = "terminated")

\* Fault: only a server that is ok releases its configuration.
ConfigurationCloseIfOk ==
    /\ MainAt("closeconfiguration")
    /\ configuration' = IF ok THEN Closed(configuration) ELSE configuration
    /\ UseHandle(configuration)
    /\ main' = "closeregistration"
    /\ UNCHANGED <<ms_quic, registration, listener, ok, clients>>

ConfigurationClose ==
    /\ MainAt("closeconfiguration")
    /\ configuration' = Closed(configuration)
    /\ UseHandle(configuration)
    /\ main' = "closeregistration"
    /\ UNCHANGED <<ms_quic, registration, listener, ok, clients>>

\* RegistrationClose waits until every connection is closed.
RegistrationClose ==
    /\ MainAt("closeregistration") /\ \A c \in Conns : conn[c] \notin {"open", "ending"}
    /\ registration' = Closed(registration)
    /\ UseHandle(registration)
    /\ main' = "closelibrary"
    /\ UNCHANGED <<ms_quic, configuration, listener, ok, clients>>

\* MsQuicClose
CloseLibrary ==
    /\ MainAt("closelibrary")
    /\ ms_quic' = Closed(ms_quic)
    /\ UseHandle(ms_quic)
    /\ ok' = FALSE
    /\ main' = "ended"
    /\ UNCHANGED <<registration, configuration, listener, clients>>

-----------------------------------------------------------------------------
(* Connections, on msquic's workers. *)

Running == proc = "up" /\ main # "ended"

NewConnection(c) ==
    /\ Running /\ listener = "listening" /\ conn[c] = "none"
    /\ conn' = [conn EXCEPT ![c] = "offered"]
    /\ UNCHANGED <<handles, ok, main, thread, proc>>

\* The listener callback's ConnectionSetConfiguration, and its return.
Configure(c) ==
    /\ Running /\ conn[c] = "offered"
    /\ \/ conn' = [conn EXCEPT ![c] = "open"]
       \/ "configure" \in CallsFail /\ conn' = [conn EXCEPT ![c] = "refused"]
    /\ UNCHANGED <<handles, ok, main, thread, proc>>

\* CONNECTED starts Http3Init on a detached thread.
Connected(c) ==
    /\ Running /\ conn[c] = "open" /\ thread[c] = "none"
    /\ thread' = [thread EXCEPT ![c] = "running"]
    /\ UNCHANGED <<handles, ok, main, conn, proc>>

\* The peer or the transport shuts the connection down.
ShutdownInitiated(c) ==
    /\ Running /\ conn[c] = "open"
    /\ conn' = [conn EXCEPT ![c] = "ending"]
    /\ UNCHANGED <<handles, ok, main, thread, proc>>

\* Fault: ConnectionClose is not called.
ShutdownCompleteKeepsHandle(c) ==
    /\ Running /\ conn[c] = "ending"
    /\ UNCHANGED vars

\* SHUTDOWN_COMPLETE: ConnectionClose.
ShutdownComplete(c) ==
    /\ Running /\ conn[c] = "ending"
    /\ conn' = [conn EXCEPT ![c] = "closed"]
    /\ UNCHANGED <<handles, ok, main, thread, proc>>

\* The thread ends; nothing waits for it, and with its connection closed, or the
\* library, it may crash.
Http3Init(c) ==
    /\ Running /\ thread[c] = "running"
    /\ thread' = [thread EXCEPT ![c] = "done"]
    /\ proc' = "up" \/ (conn[c] = "closed" /\ proc' = "terminated")
    /\ UNCHANGED <<handles, ok, main, conn>>

-----------------------------------------------------------------------------
Constructor == OpenLibrary \/ RegistrationOpen \/ ConfigurationOpen \/ LoadCredential
ServerStart == ListenerOpen \/ ListenerStart \/ ListenerClose
Destructor  == ConfigurationClose \/ RegistrationClose \/ CloseLibrary

Msquic(c) == Configure(c) \/ ShutdownComplete(c)

Next ==
    \/ Constructor \/ IsOk \/ ServerStart \/ Enter \/ Destructor
    \/ \E c \in Conns : NewConnection(c) \/ Connected(c) \/ ShutdownInitiated(c) \/ Http3Init(c)
    \/ \E c \in Conns : Msquic(c)

Spec == Init /\ [][Next]_vars

\* The main thread and msquic's workers run; nobody need press Enter, and no client
\* need ever hang up.
FairSpec ==
    /\ Spec
    /\ WF_vars(Constructor \/ IsOk \/ ServerStart \/ Destructor)
    /\ \A c \in Conns : WF_vars(Msquic(c))
-----------------------------------------------------------------------------
Handles == {"garbage", "open", "closed"}

TypeOK ==
    /\ ms_quic \in Handles /\ registration \in Handles
    /\ configuration \in Handles \cup {"bare"}
    /\ listener \in {"null", "open", "listening", "closed"}
    /\ listener # "null" => "garbage" \notin {ms_quic, registration, configuration}
    /\ ok \in BOOLEAN
    /\ main \in {"library", "registration", "configuration", "credential", "isok", "listen",
                 "start", "getchar", "closelistener", "closeconfiguration", "closeregistration",
                 "closelibrary", "ended"}
    /\ conn \in [Conns -> {"none", "offered", "refused", "open", "ending", "closed"}]
    /\ thread \in [Conns -> {"none", "running", "done"}]
    /\ proc \in {"up", "terminated"}

\* A listener callback finds the configuration, with its credential, and everything
\* above it; a connection that can call back has its registration and the library.
HandlesOutliveUse ==
    /\ (\E c \in Conns : conn[c] = "offered") => configuration = "open" /\ listener = "listening"
    /\ (\E c \in Conns : conn[c] \in {"offered", "open", "ending"}) =>
          registration = "open" /\ ms_quic = "open"

\* Whichever call fails, a server that ends has closed every handle it opened.
EverythingIsReleased ==
    main = "ended" => /\ {ms_quic, registration, configuration} \subseteq {"garbage", "closed"}
                      /\ listener \in {"null", "closed"}

\* Main waits for nothing but Enter and clients that do not hang up.
ServerEnds ==
    [](main # "getchar" =>
        <>(\/ main \in {"getchar", "ended"} \/ proc = "terminated"
           \/ [](\E c \in Conns : conn[c] = "open")))

-----------------------------------------------------------------------------
(* Refinement: the handles as msquic sees them.  One that was never opened is  *)
(* no handle, whatever the pointer holds.                                      *)

Stage(handle) ==
    CASE handle \in {"garbage", "null"} -> "none"
      [] handle = "closed"              -> "closed"
      [] OTHER                          -> "open"

ConnStage(c) ==
    CASE conn[c] = "none"                 -> "none"
      [] conn[c] \in {"refused", "closed"} -> "closed"
      [] OTHER                            -> "open"

Lifetime == INSTANCE HandleLifetime WITH
    library <- Stage(ms_quic), registration <- Stage(registration),
    configuration <- Stage(configuration), listener <- Stage(listener),
    conn <- [c \in Conns |-> ConnStage(c)]

\* The server opens, uses and closes its handles in an order msquic allows,
\* whichever of its calls fails.
HandleLifetimeKept == Lifetime!Spec
================================================================================
