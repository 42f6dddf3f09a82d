---------------------------- MODULE QUICServerProofs ----------------------------
(***************************************************************************)
(* Proofs about QUICServer, for any number of connections and any set of   *)
(* calls that fail.  The inductive invariant says what the main thread     *)
(* holds at each place of its way: the handles it has opened, and which of *)
(* them the connections and the listener callbacks still rely on.          *)
(***************************************************************************)
EXTENDS QUICServer, TLAPS

Ending == {"closeconfiguration", "closeregistration", "closelibrary", "ended"}
InServerStart == {"listen", "start", "getchar", "closelistener"}

\* What the main thread holds at its place.
HeldAtPlace ==
    /\ main \in {"library", "registration", "configuration", "credential"} =>
          listener = "null" /\ ~ok
    /\ main = "library"       => ms_quic = "garbage" /\ registration = "garbage" /\ configuration = "garbage"
    /\ main = "registration"  => ms_quic = "open" /\ registration = "garbage" /\ configuration = "garbage"
    /\ main = "configuration" => ms_quic = "open" /\ registration = "open" /\ configuration = "garbage"
    /\ main = "credential"    => ms_quic = "open" /\ registration = "open" /\ configuration = "bare"
    /\ main = "isok"          => listener = "null" /\ (ok => configuration = "open")
    /\ main \in InServerStart => configuration = "open"
    /\ main = "listen"        => listener = "null"
    /\ main = "start"         => listener = "open"
    /\ main = "getchar"       => listener = "listening"
    /\ main \in Ending        => listener \in {"null", "closed"}

\* A handle is open under its parent's, and is closed at one place.
Nested ==
    /\ ms_quic = "garbage" => registration = "garbage"
    /\ registration = "garbage" => configuration = "garbage"
    /\ configuration \in {"bare", "open"} => registration = "open"
    /\ registration = "open" => ms_quic = "open"
    /\ listener \in {"open", "listening"} => configuration = "open"
    /\ configuration = "closed" => main \in Ending \ {"closeconfiguration"}
    /\ registration = "closed" => main \in {"closelibrary", "ended"}
    /\ ms_quic = "closed" => main = "ended"
    /\ main \in Ending \ {"closeconfiguration"} => configuration \in {"garbage", "closed"}
    /\ main \in {"closelibrary", "ended"} => registration \in {"garbage", "closed"}
    /\ main = "ended" => ms_quic \in {"garbage", "closed"}

\* What the connections rely on.
ReliedOn ==
    /\ \A c \in Conns : conn[c] = "offered" => listener = "listening"
    /\ \A c \in Conns : conn[c] \in {"open", "ending"} => registration = "open"

IInv == TypeOK /\ HeldAtPlace /\ Nested /\ ReliedOn
-----------------------------------------------------------------------------
LEMMA InvInit == Init => IInv
BY DEF Init, IInv, TypeOK, Handles, HeldAtPlace, Nested, ReliedOn, Ending, InServerStart

\* One step per action; what an action leaves alone it cannot disturb.
LEMMA InvStep == IInv /\ [Next]_vars => IInv'
<1> SUFFICES ASSUME IInv, [Next]_vars PROVE IInv'
    OBVIOUS
<1> USE DEF IInv, TypeOK, Handles, HeldAtPlace, Nested, ReliedOn, Ending, InServerStart,
            MainAt, Running, handles, clients
<1>1. CASE UNCHANGED vars
    BY <1>1 DEF vars
<1>2. CASE OpenLibrary
    BY <1>2 DEF OpenLibrary
<1>3. CASE RegistrationOpen
    BY <1>3 DEF RegistrationOpen
<1>4. CASE ConfigurationOpen
    BY <1>4 DEF ConfigurationOpen
<1>5. CASE LoadCredential
  <2>1. main = "credential" /\ ok = FALSE
    BY <1>5 DEF LoadCredential
  <2>2. CASE configuration' = "open" /\ ok' = TRUE
    BY <1>5, <2>1, <2>2 DEF LoadCredential
  <2>3. CASE configuration' = configuration /\ ok' = ok
    <3>1. ok' = FALSE
      BY <2>1, <2>3
    <3>2. QED
      BY <1>5, <2>1, <2>3, <3>1 DEF LoadCredential
  <2>4. QED
    BY <1>5, <2>2, <2>3, Zenon DEF LoadCredential
<1>6. CASE IsOk
    BY <1>6 DEF IsOk
<1>7. CASE ListenerOpen
    BY <1>7 DEF ListenerOpen
<1>8. CASE ListenerStart
    BY <1>8 DEF ListenerStart
<1>9. CASE Enter
    BY <1>9 DEF Enter
<1>10. CASE ListenerClose
    BY <1>10 DEF ListenerClose
<1>11. CASE ConfigurationClose
    BY <1>11 DEF ConfigurationClose, Closed, UseHandle
<1>12. CASE RegistrationClose
    BY <1>12 DEF RegistrationClose, Closed, UseHandle
<1>13. CASE CloseLibrary
    BY <1>13 DEF CloseLibrary, Closed, UseHandle
<1>14. ASSUME NEW c \in Conns, NewConnection(c) PROVE IInv'
    BY <1>14 DEF NewConnection
<1>15. ASSUME NEW c \in Conns, Configure(c) PROVE IInv'
    BY <1>15 DEF Configure
<1>16. ASSUME NEW c \in Conns, Connected(c) PROVE IInv'
    BY <1>16 DEF Connected
<1>17. ASSUME NEW c \in Conns, ShutdownInitiated(c) PROVE IInv'
    BY <1>17 DEF ShutdownInitiated
<1>18. ASSUME NEW c \in Conns, ShutdownComplete(c) PROVE IInv'
    BY <1>18 DEF ShutdownComplete
<1>19. ASSUME NEW c \in Conns, Http3Init(c) PROVE IInv'
    BY <1>19 DEF Http3Init
<1>20. QED
    BY <1>1, <1>2, <1>3, <1>4, <1>5, <1>6, <1>7, <1>8, <1>9, <1>10, <1>11, <1>12, <1>13,
       <1>14, <1>15, <1>16, <1>17, <1>18, <1>19
       DEF Next, Constructor, ServerStart, Destructor, Msquic

LEMMA InvHolds == Spec => []IInv
    BY InvInit, InvStep, PTL DEF Spec

\* Every variable keeps its type, and a listener is never opened by a server with a
\* handle missing.
THEOREM TypeCorrect == Spec => []TypeOK
<1>1. IInv => TypeOK
    BY DEF IInv
<1>2. QED
    BY <1>1, InvHolds, PTL

\* While a listener callback or a connection can use a handle, the main thread has
\* not closed it (nor failed to open it).
THEOREM HandlesAreThere == Spec => []HandlesOutliveUse
<1>1. IInv => HandlesOutliveUse
    BY DEF IInv, TypeOK, Handles, Nested, ReliedOn, HandlesOutliveUse
<1>2. QED
    BY <1>1, InvHolds, PTL

\* Whichever of its calls fails, the server ends with nothing left open.
THEOREM NothingLeftOpen == Spec => []EverythingIsReleased
<1>1. IInv => EverythingIsReleased
    BY DEF IInv, HeldAtPlace, Nested, Ending, EverythingIsReleased
<1>2. QED
    BY <1>1, InvHolds, PTL

-----------------------------------------------------------------------------
(* QUICServer implements HandleLifetime. *)

ConnStages == [c \in Conns |-> ConnStage(c)]

\* The stages of a handle and of a connection, case by case.
LEMMA Stages ==
    /\ Stage("garbage") = "none" /\ Stage("null") = "none" /\ Stage("closed") = "closed"
    /\ Stage("bare") = "open" /\ Stage("open") = "open" /\ Stage("listening") = "open"
BY DEF Stage

LEMMA ConnectionStages ==
    /\ \A c \in Conns : conn[c] = "none" => ConnStage(c) = "none"
    /\ \A c \in Conns : conn[c] \in {"refused", "closed"} => ConnStage(c) = "closed"
    /\ \A c \in Conns : conn[c] \in {"offered", "open", "ending"} => ConnStage(c) = "open"
BY DEF ConnStage

\* A step that takes one connection to a stage and leaves the others.
LEMMA ConnectionMoves ==
    ASSUME NEW c \in Conns, NEW stage, ConnStage(c)' = stage,
           \A d \in Conns : d # c => ConnStage(d)' = ConnStage(d)
    PROVE  ConnStages' = [ConnStages EXCEPT ![c] = stage]
BY DEF ConnStages

\* A step that changes no connection leaves their stages.
LEMMA ConnectionsStay == UNCHANGED conn => UNCHANGED ConnStages
<1> SUFFICES ASSUME UNCHANGED conn PROVE UNCHANGED ConnStages
    OBVIOUS
<1>1. \A c \in Conns : ConnStage(c)' = ConnStage(c)
    BY DEF ConnStage
<1>2. QED
    BY <1>1 DEF ConnStages

\* Every step of the server opens, begins, ends or closes one handle, or none.
LEMMA LifetimeStep == IInv /\ [Next]_vars => [Lifetime!Next]_(Lifetime!vars)
<1> SUFFICES ASSUME IInv, [Next]_vars PROVE [Lifetime!Next]_(Lifetime!vars)
    OBVIOUS
<1> USE Stages DEF IInv, MainAt, Running, handles, clients
<1> DEFINE Stutter == /\ UNCHANGED <<Stage(ms_quic), Stage(registration), Stage(configuration)>>
                      /\ UNCHANGED <<Stage(listener), ConnStages>>
<1>s. Stutter => UNCHANGED Lifetime!vars
    BY Zenon DEF Lifetime!vars, ConnStages
<1> HIDE DEF Stutter
<1>1. CASE UNCHANGED vars
    BY <1>1, <1>s, ConnectionsStay DEF vars, Stutter
<1>2. ASSUME OpenLibrary PROVE Stutter \/ Lifetime!OpenLibrary
    BY <1>2, ConnectionsStay DEF OpenLibrary, HeldAtPlace, Lifetime!OpenLibrary, Stutter, ConnStages
<1>3. ASSUME RegistrationOpen PROVE Stutter \/ Lifetime!OpenRegistration
    BY <1>3, ConnectionsStay DEF RegistrationOpen, HeldAtPlace, Lifetime!OpenRegistration, Stutter,
       ConnStages
<1>4. ASSUME ConfigurationOpen PROVE Stutter \/ Lifetime!OpenConfiguration
    BY <1>4, ConnectionsStay DEF ConfigurationOpen, HeldAtPlace, Lifetime!OpenConfiguration,
       Stutter, ConnStages
<1>5. ASSUME LoadCredential \/ IsOk \/ ListenerStart \/ Enter PROVE Stutter
  <2>1. UNCHANGED <<ms_quic, registration, conn>>
    BY <1>5 DEF LoadCredential, IsOk, ListenerStart, Enter
  <2>2. Stage(configuration)' = Stage(configuration) /\ Stage(listener)' = Stage(listener)
    BY <1>5 DEF LoadCredential, IsOk, ListenerStart, Enter, HeldAtPlace
  <2>3. QED
    BY <2>1, <2>2, ConnectionsStay DEF Stutter
<1>6. ASSUME ListenerOpen PROVE Stutter \/ Lifetime!OpenListener
    BY <1>6, ConnectionsStay DEF ListenerOpen, HeldAtPlace, InServerStart, Lifetime!OpenListener,
       Stutter, ConnStages
<1>7. ASSUME ListenerClose PROVE Stutter \/ Lifetime!CloseListener
    BY <1>7, ConnectionsStay DEF ListenerClose, TypeOK, Lifetime!CloseListener, Stutter, ConnStages
<1>8. ASSUME ConfigurationClose PROVE Stutter \/ Lifetime!CloseConfiguration
  <2>1. Stage(listener) # "open"
    BY <1>8 DEF ConfigurationClose, HeldAtPlace, Ending
  <2>2. UNCHANGED <<ms_quic, registration, listener, conn>> /\ configuration' = Closed(configuration)
    BY <1>8 DEF ConfigurationClose
  <2>3. configuration \in {"garbage", "closed", "bare", "open"}
    BY DEF TypeOK, Handles
  <2>4. QED
    BY <2>1, <2>2, <2>3, ConnectionsStay
       DEF Closed, Lifetime!CloseConfiguration, Stutter, ConnStages
<1>9. ASSUME RegistrationClose PROVE Stutter \/ Lifetime!CloseRegistration
  <2>1. Stage(configuration) # "open" /\ Stage(listener) # "open"
    BY <1>9 DEF RegistrationClose, HeldAtPlace, Nested, Ending
  <2>2. \A c \in Conns : conn[c] \notin {"offered", "open", "ending"}
    BY <1>9 DEF RegistrationClose, HeldAtPlace, ReliedOn, Ending
  <2>3. \A c \in Conns : ConnStage(c) # "open"
    BY <2>2, ConnectionStages DEF TypeOK
  <2>4. UNCHANGED <<ms_quic, configuration, listener, conn>> /\ registration' = Closed(registration)
    BY <1>9 DEF RegistrationClose
  <2>5. registration \in {"garbage", "closed", "open"}
    BY DEF TypeOK, Handles
  <2>6. QED
    BY <2>1, <2>3, <2>4, <2>5, ConnectionsStay
       DEF Closed, Lifetime!CloseRegistration, Stutter, ConnStages
<1>10. ASSUME CloseLibrary PROVE Stutter \/ Lifetime!CloseLibrary
  <2>1. Stage(registration) # "open"
    BY <1>10 DEF CloseLibrary, Nested, Ending
  <2>2. UNCHANGED <<registration, configuration, listener, conn>> /\ ms_quic' = Closed(ms_quic)
    BY <1>10 DEF CloseLibrary
  <2>3. ms_quic \in {"garbage", "closed", "open"}
    BY DEF TypeOK, Handles
  <2>4. QED
    BY <2>1, <2>2, <2>3, ConnectionsStay DEF Closed, Lifetime!CloseLibrary, Stutter, ConnStages
<1>11. \A c \in Conns : conn'[c] = conn[c] => ConnStage(c)' = ConnStage(c)
    BY DEF ConnStage
<1>12. ASSUME NEW c \in Conns, NewConnection(c) PROVE Lifetime!BeginConnection(c)
  <2>1. listener = "listening" /\ configuration = "open" /\ registration = "open"
    BY <1>12 DEF NewConnection, Nested
  <2>2. ConnStage(c) = "none" /\ ConnStage(c)' = "open"
    BY <1>12 DEF NewConnection, TypeOK, ConnStage
  <2>3. \A d \in Conns : d # c => ConnStage(d)' = ConnStage(d)
    BY <1>11, <1>12 DEF NewConnection, TypeOK
  <2>4. ConnStages' = [ConnStages EXCEPT ![c] = "open"] /\ ConnStages[c] = "none"
    BY <2>2, <2>3, ConnectionMoves DEF ConnStages
  <2>5. UNCHANGED handles
    BY <1>12 DEF NewConnection
  <2>6. QED
    BY <2>1, <2>4, <2>5, Zenon DEF Lifetime!BeginConnection, ConnStages
<1>13. ASSUME NEW c \in Conns, Configure(c) \/ ShutdownComplete(c)
       PROVE  Stutter \/ Lifetime!EndConnection(c)
  <2>1. ConnStage(c) = "open" /\ ConnStage(c)' \in {"open", "closed"}
    BY <1>13 DEF Configure, ShutdownComplete, TypeOK, ConnStage
  <2>2. \A d \in Conns : d # c => ConnStage(d)' = ConnStage(d)
    BY <1>11, <1>13 DEF Configure, ShutdownComplete, TypeOK
  <2>3. ConnStages' = [ConnStages EXCEPT ![c] = ConnStage(c)'] /\ ConnStages[c] = "open"
    BY <2>1, <2>2, ConnectionMoves DEF ConnStages
  <2>4. UNCHANGED handles
    BY <1>13 DEF Configure, ShutdownComplete
  <2>5. CASE ConnStage(c)' = "open"
    <3>1. UNCHANGED ConnStages
      BY <2>1, <2>2, <2>5 DEF ConnStages
    <3>2. QED
      BY <2>4, <3>1 DEF Stutter
  <2>6. CASE ConnStage(c)' = "closed"
    <3>1. ConnStages' = [ConnStages EXCEPT ![c] = "closed"]
      BY <2>3, <2>6
    <3>2. QED
      BY <2>3, <2>4, <3>1, Zenon DEF Lifetime!EndConnection, ConnStages
  <2>7. QED
    BY <2>1, <2>5, <2>6
<1>14. ASSUME NEW c \in Conns, Connected(c) \/ ShutdownInitiated(c) \/ Http3Init(c) PROVE Stutter
  <2>1. UNCHANGED handles
    BY <1>14 DEF Connected, ShutdownInitiated, Http3Init
  <2>2. \A d \in Conns : ConnStage(d)' = ConnStage(d)
    BY <1>11, <1>14 DEF Connected, ShutdownInitiated, Http3Init, TypeOK, ConnStage
  <2>3. QED
    BY <2>1, <2>2 DEF Stutter, ConnStages
<1>15. QED
    BY <1>s, <1>1, <1>2, <1>3, <1>4, <1>5, <1>6, <1>7, <1>8, <1>9, <1>10, <1>12, <1>13, <1>14,
       Zenon DEF Next, Constructor, ServerStart, Destructor, Msquic, Lifetime!Next

\* Any number of connections may come and go and any call may fail: the server opens,
\* uses and closes its handles as HandleLifetime allows.
THEOREM ImplementsHandleLifetime == Spec => HandleLifetimeKept
<1>1. Init => Lifetime!Init
    BY Stages, ConnectionStages DEF Init, Lifetime!Init
<1>2. QED
    BY <1>1, InvHolds, LifetimeStep, PTL DEF Spec, HandleLifetimeKept, Lifetime!Spec
================================================================================
