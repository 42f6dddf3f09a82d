----------------------------- MODULE HandleLifetime -----------------------------
(***************************************************************************)
(* How the handles of msquic may be used, whatever fails on the way: each  *)
(* is opened once, under a parent that is open, and closed once, after     *)
(* everything that needs it.  QUICServer and ClientConnection implement    *)
(* this module.                                                            *)
(***************************************************************************)
CONSTANT Conns

VARIABLES library, registration, configuration, listener, conn

vars == <<library, registration, configuration, listener, conn>>

Stages == {"none", "open", "closed"}

Init ==
    /\ library = "none" /\ registration = "none" /\ configuration = "none" /\ listener = "none"
    /\ conn = [c \in Conns |-> "none"]

OpenLibrary ==
    /\ library = "none" /\ library' = "open"
    /\ UNCHANGED <<registration, configuration, listener, conn>>

OpenRegistration ==
    /\ registration = "none" /\ registration' = "open"
    /\ library = "open"
    /\ UNCHANGED <<library, configuration, listener, conn>>

OpenConfiguration ==
    /\ configuration = "none" /\ configuration' = "open"
    /\ registration = "open"
    /\ UNCHANGED <<library, registration, listener, conn>>

\* The listener's callback hands the configuration to each new connection.
OpenListener ==
    /\ listener = "none" /\ listener' = "open"
    /\ configuration = "open"
    /\ UNCHANGED <<library, registration, configuration, conn>>

CloseListener ==
    /\ listener = "open" /\ listener' = "closed"
    /\ UNCHANGED <<library, registration, configuration, conn>>

\* A connection needs the configuration to begin, and the registration until its end.
BeginConnection(c) ==
    /\ conn[c] = "none" /\ conn' = [conn EXCEPT ![c] = "open"]
    /\ configuration = "open" /\ registration = "open"
    /\ UNCHANGED <<library, registration, configuration, listener>>

EndConnection(c) ==
    /\ conn[c] = "open" /\ conn' = [conn EXCEPT ![c] = "closed"]
    /\ UNCHANGED <<library, registration, configuration, listener>>

CloseConfiguration ==
    /\ configuration = "open" /\ configuration' = "closed"
    /\ listener # "open"
    /\ UNCHANGED <<library, registration, listener, conn>>

CloseRegistration ==
    /\ registration = "open" /\ registration' = "closed"
    /\ configuration # "open" /\ listener # "open" /\ \A c \in Conns : conn[c] # "open"
    /\ UNCHANGED <<library, configuration, listener, conn>>

CloseLibrary ==
    /\ library = "open" /\ library' = "closed"
    /\ registration # "open"
    /\ UNCHANGED <<registration, configuration, listener, conn>>

Next ==
    \/ OpenLibrary \/ OpenRegistration \/ OpenConfiguration \/ OpenListener
    \/ CloseListener \/ CloseConfiguration \/ CloseRegistration \/ CloseLibrary
    \/ \E c \in Conns : BeginConnection(c) \/ EndConnection(c)

Spec == Init /\ [][Next]_vars
================================================================================
