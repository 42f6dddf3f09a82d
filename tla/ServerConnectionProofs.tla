------------------------- MODULE ServerConnectionProofs -------------------------
(***************************************************************************)
(* Proofs about ServerConnection, for any number of streams of the peer,   *)
(* of buffers in an event and any set of calls that fail.  The inductive   *)
(* invariant says which streams have an id, that no two have the same,     *)
(* what stream_map holds, and how far the Http3Init thread has come with   *)
(* the three streams at each place of its way.                             *)
(***************************************************************************)
EXTENDS ServerConnection, FiniteSetTheorems, WellFoundedInduction, TLAPS

\* What msquic's view of a stream says of its id, and who opened it.
StreamStates ==
    /\ \A s \in Streams :
          /\ stream[s] \in {"none", "opened", "starting", "failed", "unusable"} => id[s] = NoId
          /\ stream[s] \in {"issued", "started", "ending"} => id[s] # NoId
    /\ \A r \in PeerStreams : stream[r] \in {"none", "started", "ending", "closed"}

\* Streams are numbered in three kinds: by who opened them, and in which directions.
Kinds == {Requests, PeerUni, Http3Streams}
First(K) == CASE K = Requests -> 0 [] K = PeerUni -> 2 [] OTHER -> 3

\* The streams of a kind that have their ids.
Issued(K) == {r \in K : id[r] # NoId}

\* The numbers of a kind grow by 4, and differ from the others' by their rest.
Ids ==
    /\ \A K \in Kinds : \A r \in K : id[r] # NoId =>
          id[r] % 4 = First(K) /\ id[r] < First(K) + 4 * Cardinality(Issued(K))
    /\ \A r, s \in Streams : id[r] # NoId /\ id[r] = id[s] => r = s

\* What is in stream_map: a stream msquic has reported, under its own id.
Mapped ==
    /\ \A e \in streamMap :
          /\ e[1] = id[e[2]]
          /\ stream[e[2]] \notin {"none", "opened", "starting", "issued", "failed"}
    /\ \A s \in Streams : stream[s] \in {"started", "ending"} => <<id[s], s>> \in streamMap

\* The order the thread takes the streams in.
Position(s) == CASE s = "control" -> 1 [] s = "encoder" -> 2 [] s = "decoder" -> 3 [] OTHER -> 0

\* How far it has come with them at its place.
ThreadAtPlace ==
    /\ conn = "handshaking" => init.at = "none"
    /\ init.at \in {"none", "build"} => \A s \in Http3Streams : stream[s] = "none"
    /\ init.at \in {"none", "build", "open", "start"} =>
          \A s \in Http3Streams : readId[s] = Unread
    /\ init.at \in {"open", "start"} =>
          \A s \in Http3Streams : Position(s) > Position(init.on) => stream[s] = "none"
    /\ init.at \in {"open", "start", "getid"} => init.on \in Http3Streams
    /\ init.at = "open"  => stream[init.on] = "none"
    /\ init.at = "start" => stream[init.on] = "opened"
    /\ init.at = "getid" =>
          \A s \in Http3Streams : Position(s) < Position(init.on) => readId[s] # Unread
    /\ init.at \in {"bindcontrol", "bindqpack", "done"} =>
          \A s \in Http3Streams : readId[s] # Unread
    /\ init.at \notin {"none", "build"} => http3 # "unset"
    /\ ready => init.at = "done"

\* An id the thread has read is the one msquic issued.
IdsRead == \A s \in Http3Streams :
    readId[s] # Unread => handle[s] = "stream" /\ readId[s] = id[s] /\ id[s] # NoId

\* A stream of the peer ends with its FIN.
Requested == \A r \in PeerStreams :
    /\ request[r] # "overrun"
    /\ r \in finished \/ request[r] \in {"open", "failed"}

IInv ==
    /\ TypeOK /\ StreamStates /\ Ids /\ Mapped
    /\ ThreadAtPlace /\ IdsRead
    /\ Requested
-----------------------------------------------------------------------------
(* Induction, as far as sets go: what fails for some number fails for a least. *)

LEMMA LeastNumber ==
    ASSUME NEW T, T \subseteq Nat, T # {}
    PROVE  \E m \in T : \A k \in T : m <= k
<1> DEFINE R == OpToRel(<, Nat)
<1>1. IsWellFoundedOn(R, Nat)
    BY NatLessThanWellFounded, Zenon
<1>2. \A j, k \in Nat : j < k => <<j, k>> \in R
    BY DEF OpToRel
<1> HIDE DEF R
<1>3. PICK m \in T : \A k \in T : <<k, m>> \notin R
    BY <1>1, WFMin, Zenon
<1>4. ASSUME NEW k \in T PROVE m <= k
  <2>1. m \in Nat /\ k \in Nat /\ <<k, m>> \notin R
    BY <1>3
  <2>2. ~(k < m)
    BY <1>2, <2>1
  <2>3. QED
    BY <2>1, <2>2
<1>5. QED
    BY <1>4

\* However many buffers an event has, nghttp3 sees the FIN once, with the last of
\* them: and not at all if there is none.
LEMMA ReadFeedsFinOnce ==
    ASSUME NEW count \in Nat, NEW fin \in BOOLEAN, NEW state \in {"open", "failed"}
    PROVE  Read(state, count, fin) = IF count = 0 THEN state ELSE Feed(state, fin)
<1> DEFINE Step1(prev, i) == Feed(prev, FinWithLast(i, count, fin))
           Round(f) == [i \in 0..count |-> IF i = 0 THEN state ELSE Step1(f[i - 1], i)]
           result == [i \in 0..count |-> IF i = count /\ i # 0 THEN Feed(state, fin) ELSE state]
           after == CHOOSE f : f = Round(f)
<1>1. \A i \in 1..count : i # count => Step1(state, i) = state
    BY DEF FinWithLast, Feed
<1>2. Step1(state, count) = Feed(state, fin)
    BY DEF FinWithLast, Feed
<1> HIDE DEF Step1
<1>3. \A i \in 1..count : result[i - 1] = state
    OBVIOUS
<1>4. result = Round(result)
  <2>1. \A i \in 0..count : result[i] = IF i = 0 THEN state ELSE Step1(result[i - 1], i)
    BY <1>1, <1>2, <1>3
  <2>2. QED
    BY <2>1, Zenon
<1>5. after = Round(after)
    BY <1>4, Zenon
<1> HIDE DEF after, result
<1>6. \A i \in 0..count : after[i] = result[i]
  <2> SUFFICES ASSUME {i \in 0..count : after[i] # result[i]} # {} PROVE FALSE
    OBVIOUS
  <2> DEFINE T == {i \in 0..count : after[i] # result[i]}
  <2>0. T \subseteq Nat /\ T # {}
    OBVIOUS
  <2> HIDE DEF T
  <2>1. PICK m \in T : \A k \in T : m <= k
    BY <2>0, LeastNumber
  <2>2. /\ after[m] = IF m = 0 THEN state ELSE Step1(after[m - 1], m)
        /\ result[m] = IF m = 0 THEN state ELSE Step1(result[m - 1], m)
    BY <1>4, <1>5 DEF T
  <2>3. m # 0
    BY <2>2 DEF T
  <2>4. m - 1 \in 0..count /\ m - 1 \notin T
    BY <2>1, <2>3 DEF T
  <2>5. QED
    BY <2>2, <2>3, <2>4 DEF T
<1>7. Read(state, count, fin) = after[count]
    BY Zenon DEF Read, after, Step1
<1>8. QED
    BY <1>6, <1>7 DEF result

-----------------------------------------------------------------------------
LEMMA Afters ==
    /\ After("control") = "encoder" /\ After("encoder") = "decoder" /\ After("decoder") = "none"
    /\ Position("control") = 1 /\ Position("encoder") = 2 /\ Position("decoder") = 3
BY DEF After, Position

LEMMA StreamSets ==
    /\ Http3Streams = {"control", "encoder", "decoder"} /\ "none" \notin Http3Streams
    /\ PeerStreams \subseteq Streams /\ Http3Streams \subseteq Streams
    /\ \A s \in Streams : s \in PeerStreams <=> s \notin Http3Streams
BY ServerConnectionAssumption DEF Streams, PeerStreams, Http3Streams

\* Each stream is of one kind, and the kinds differ in the rest of their numbers.  (Kinds
\* without a stream may coincide.)
LEMMA KindOf ==
    /\ \A s \in Streams : \E K \in Kinds : s \in K
    /\ \A K \in Kinds : K \subseteq Streams /\ First(K) \in 0..3
    /\ \A K, J \in Kinds, s \in Streams : s \in K /\ s \in J => K = J
    /\ \A K, J \in Kinds : First(K) = First(J) => K = J
<1>1. Requests \cap PeerUni = {} /\ Requests \cap Http3Streams = {} /\ PeerUni \cap Http3Streams = {}
    BY ServerConnectionAssumption DEF Http3Streams
<1>2. Streams = Requests \cup PeerUni \cup Http3Streams
    BY DEF Streams, PeerStreams
<1>3. Http3Streams # {} /\ Http3Streams # Requests /\ Http3Streams # PeerUni
    BY <1>1 DEF Http3Streams
<1>4. \A K \in Kinds : First(K) \in 0..3
    BY DEF First, Kinds
<1>5. \A K, J \in Kinds : First(K) = First(J) => K = J
    BY <1>3 DEF First, Kinds
<1>6. \A K, J \in Kinds, s \in Streams : s \in K /\ s \in J => K = J
    BY <1>1 DEF Kinds
<1>7. /\ \A s \in Streams : \E K \in Kinds : s \in K
      /\ \A K \in Kinds : K \subseteq Streams
    BY <1>2 DEF Kinds
<1>8. QED
    BY <1>4, <1>5, <1>6, <1>7

LEMMA IssuedAreFinite ==
    \A K \in Kinds : IsFiniteSet(Issued(K)) /\ Cardinality(Issued(K)) \in Nat
<1>1. IsFiniteSet({"control", "encoder", "decoder"})
  <2>1. IsFiniteSet({}) /\ IsFiniteSet({} \cup {"control"})
    BY FS_EmptySet, FS_AddElement
  <2>2. IsFiniteSet(({} \cup {"control"}) \cup {"encoder"})
    BY <2>1, FS_AddElement
  <2>3. IsFiniteSet((({} \cup {"control"}) \cup {"encoder"}) \cup {"decoder"})
    BY <2>2, FS_AddElement
  <2>4. (({} \cup {"control"}) \cup {"encoder"}) \cup {"decoder"} = {"control", "encoder", "decoder"}
    OBVIOUS
  <2>5. QED
    BY <2>3, <2>4, Zenon
<1>2. \A K \in Kinds : IsFiniteSet(K)
    BY <1>1, ServerConnectionAssumption DEF Kinds, Http3Streams
<1>3. \A K \in Kinds : Issued(K) \subseteq K
    BY DEF Issued
<1>4. QED
    BY <1>2, <1>3, FS_Subset, FS_CardinalityType

LEMMA NextIds ==
    /\ \A K \in Kinds : \A s \in K : NextId(s) = First(K) + 4 * Cardinality(Issued(K))
    /\ \A s \in Streams : NextId(s) \in Nat
<1>1. ASSUME NEW K \in Kinds, NEW s \in K
      PROVE  NextId(s) = First(K) + 4 * Cardinality(Issued(K))
  <2>1. Requests \cap PeerUni = {} /\ (Requests \cup PeerUni) \cap Http3Streams = {}
    BY ServerConnectionAssumption DEF Http3Streams
  <2>2. CASE s \in Requests
    <3>1. K = Requests
      BY <2>1, <2>2 DEF Kinds
    <3>2. First(K) = 0 /\ s \notin PeerUni
      BY <2>1, <2>2, <3>1 DEF First
    <3>3. NextId(s) = 4 * Cardinality(Issued(K))
      BY <2>2, <3>1, <3>2, Zenon DEF NextId, Issued
    <3>4. Cardinality(Issued(K)) \in Nat
      BY IssuedAreFinite
    <3>5. QED
      BY <3>2, <3>3, <3>4
  <2>3. CASE s \in PeerUni
    <3>1. K = PeerUni /\ K # Requests
      BY <2>1, <2>3 DEF Kinds
    <3>2. First(K) = 2 /\ NextId(s) = 2 + 4 * Cardinality(Issued(K))
      BY <2>1, <2>3, <3>1 DEF First, NextId, Issued
    <3>3. QED
      BY <3>2
  <2>4. CASE s \in Http3Streams
    <3>1. K = Http3Streams /\ K # Requests /\ K # PeerUni
      BY <2>1, <2>4 DEF Kinds
    <3>2. First(K) = 3 /\ NextId(s) = 3 + 4 * Cardinality(Issued(K))
      BY <2>1, <2>4, <3>1 DEF First, NextId, Issued
    <3>3. QED
      BY <3>2
  <2>5. QED
    BY <2>2, <2>3, <2>4 DEF Kinds
<1>2. ASSUME NEW s \in Streams PROVE NextId(s) \in Nat
  <2>1. PICK K \in Kinds : s \in K
    BY KindOf
  <2>2. First(K) \in 0..3 /\ Cardinality(Issued(K)) \in Nat
    BY KindOf, IssuedAreFinite
  <2>3. NextId(s) = First(K) + 4 * Cardinality(Issued(K))
    BY <1>1, <2>1
  <2>4. QED
    BY <2>2, <2>3
<1>3. QED
    BY <1>1, <1>2

LEMMA InvInit == Init => IInv
<1> SUFFICES ASSUME Init PROVE IInv
    OBVIOUS
<1> USE DEF Init
<1>1. TypeOK
    BY DEF TypeOK, NoId, Unread
<1>2. StreamStates /\ Mapped /\ Requested
    BY StreamSets DEF StreamStates, Mapped, Requested
<1>3. Ids
    BY StreamSets, KindOf DEF Ids
<1>4. ThreadAtPlace /\ IdsRead
    BY StreamSets DEF ThreadAtPlace, IdsRead
<1>5. QED
    BY <1>1, <1>2, <1>3, <1>4 DEF IInv

\* Every variable keeps its type.
LEMMA TypeStep == IInv /\ [Next]_vars => TypeOK'
<1> SUFFICES ASSUME IInv, [Next]_vars PROVE TypeOK'
    OBVIOUS
<1> USE StreamSets DEF TypeOK, object, thread, quic, reading, InitAt, Step, UseContext
<1>i. TypeOK /\ ThreadAtPlace /\ Requested
    BY DEF IInv
<1>u. ASSUME NEW s \in Streams, KeepStreamCtx(s)
      PROVE  user' \in [Streams -> {"none", "connection", "stream"}]
    BY <1>u, <1>i DEF KeepStreamCtx, StreamCtxOf
<1>1. CASE UNCHANGED vars
    BY <1>1, <1>i DEF vars
<1>2. CASE Connected
    BY <1>2, <1>i DEF Connected
<1>3. CASE ShutdownInitiated
    BY <1>3, <1>i DEF ShutdownInitiated
<1>4. CASE Reclaim
    BY <1>4, <1>i DEF Reclaim
<1>5. ASSUME NEW s \in PeerStreams, PeerStreamStarted(s) PROVE TypeOK'
  <2>1. streamMap' \subseteq (Nat \cup {NoId}) \X Streams
    BY <1>5, <1>i, NextIds DEF PeerStreamStarted, InsertStream
  <2>2. QED
    BY <1>5, <1>i, <2>1, NextIds DEF PeerStreamStarted
<1>6. ASSUME NEW s \in PeerStreams, Receive(s) PROVE TypeOK'
  <2>1. PICK count \in 0..MaxBuffers, fin, headers \in BOOLEAN :
           /\ s \notin finished
           /\ finished' = IF fin THEN finished \cup {s} ELSE finished
           /\ \/ request' = [request EXCEPT ![s] = Read(@, count, fin)]
              \/ request' = [request EXCEPT ![s] = "failed"]
           /\ UNCHANGED context \/ BeginHeaders(s)
           /\ proc' \in {"up", "terminated"} \/ BeginHeaders(s)
           /\ KeepStreamCtx(s)
           /\ UNCHANGED <<conn, http3, ready, streamMap, thread, stream, id, removal>>
    BY <1>6, Zenon DEF Receive
  <2>2. count \in Nat
    BY ServerConnectionAssumption
  <2>3. Read(request[s], count, fin) \in {"open", "ended", "failed"}
    BY <1>i, <2>1, <2>2, ReadFeedsFinOnce DEF Requested, Feed
  <2>4. context' \in {"live", "overwritten", "freed"} /\ proc' \in {"up", "terminated"}
    BY <1>i, <2>1 DEF BeginHeaders
  <2>5. finished' \subseteq PeerStreams /\ request' \in [PeerStreams -> {"open", "ended", "failed", "overrun"}]
    BY <1>i, <2>1, <2>3
  <2>6. QED
    BY <1>i, <1>u, <2>1, <2>4, <2>5
<1>7. ASSUME NEW s \in Streams, StreamEnding(s) PROVE TypeOK'
    BY <1>7, <1>i, <1>u DEF StreamEnding
<1>8. CASE ConnectionShutdownComplete
    BY <1>8, <1>i DEF ConnectionShutdownComplete
<1>9. ASSUME NEW s \in Http3Streams, IssueId(s) PROVE TypeOK'
    BY <1>9, <1>i, NextIds DEF IssueId
<1>10. ASSUME NEW s \in Http3Streams, StartComplete(s) PROVE TypeOK'
  <2>1. streamMap' \subseteq (Nat \cup {NoId}) \X Streams
    BY <1>10, <1>i DEF StartComplete, InsertStream
  <2>2. QED
    BY <1>10, <1>i, <1>u, <2>1 DEF StartComplete
<1>11. ASSUME NEW s \in Streams, StreamShutdownComplete(s) PROVE TypeOK'
    BY <1>11, <1>i DEF StreamShutdownComplete
<1>12. CASE Http3Build
    BY <1>12, <1>i DEF Http3Build
<1>13. CASE StreamOpen
    BY <1>13, <1>i DEF StreamOpen, UseConnection, ThreadAtPlace
<1>14. ASSUME NEW result \in {"null", "stream"}, StreamReturned(init.on, result),
              init.at \in {"open", "start"}
       PROVE  /\ handle' \in [Http3Streams -> {"unset", "null", "stream"}]
              /\ init' \in [at : {"open", "getid"}, on : Http3Streams]
    BY <1>14, <1>i, Afters DEF StreamReturned, ThreadAtPlace
<1>15. CASE StreamOpenFails
    BY <1>15, <1>i, <1>14 DEF StreamOpenFails, UseConnection, ConnectionShutdown
<1>16. CASE StreamStart
    BY <1>16, <1>i, <1>14 DEF StreamStart, UseConnection
<1>17. CASE StreamStartFails
    BY <1>17, <1>i, <1>14 DEF StreamStartFails, UseConnection, ConnectionShutdown
<1>18. CASE GetId
  <2>1. readId' \in [Http3Streams -> Nat \cup {Unread}]
    BY <1>18, <1>i DEF GetId, ThreadAtPlace
  <2>2. init' \in [at : {"getid", "bindcontrol"}, on : Http3Streams \cup {"none"}]
    BY <1>18, <1>i, Afters DEF GetId, ThreadAtPlace
  <2>3. QED
    BY <1>18, <1>i, <2>1, <2>2 DEF GetId
<1>19. CASE GetIdCrashes
    BY <1>19, <1>i DEF GetIdCrashes
<1>20. CASE BindControlStream
    BY <1>20, <1>i DEF BindControlStream, UseNghttp3
<1>21. CASE BindQpackStreams
  <2>1. ready' \in BOOLEAN
    BY <1>21, <1>i DEF BindQpackStreams
  <2>2. init' \in [at : {"done", "gaveup"}, on : {"none"}]
    BY <1>21 DEF BindQpackStreams
  <2>3. QED
    BY <1>21, <1>i, <2>1, <2>2 DEF BindQpackStreams, UseNghttp3
<1>22. QED
    BY <1>1, <1>2, <1>3, <1>4, <1>5, <1>6, <1>7, <1>8, <1>9, <1>10, <1>11, <1>12, <1>13, <1>15,
       <1>16, <1>17, <1>18, <1>19, <1>20, <1>21, Zenon DEF Next, Msquic, Http3Init, Streams

-----------------------------------------------------------------------------
\* The steps that touch streams, ids or the map; the others leave all of them.
LEMMA StreamSteps ==
    ASSUME [Next]_vars
    PROVE  \/ UNCHANGED <<stream, id, streamMap>>
           \/ \E s \in PeerStreams : PeerStreamStarted(s)
           \/ \E s \in Streams : StreamEnding(s) \/ StreamShutdownComplete(s)
           \/ \E s \in Http3Streams : IssueId(s) \/ StartComplete(s)
           \/ StreamOpen \/ StreamStart \/ StreamStartFails
<1> DEFINE Silent == UNCHANGED <<stream, id, streamMap>>
<1>1. CASE UNCHANGED vars
  <2>1. Silent
    BY <1>1, Zenon DEF vars
  <2>2. QED
    BY <2>1, Zenon
<1>2. ASSUME Connected \/ ShutdownInitiated \/ Reclaim \/ ConnectionShutdownComplete PROVE Silent
    BY <1>2, Zenon DEF Connected, ShutdownInitiated, Reclaim, ConnectionShutdownComplete, object, quic
<1>3. ASSUME NEW s \in PeerStreams, Receive(s) PROVE Silent
    BY <1>3, Zenon DEF Receive, quic
<1>4. ASSUME Http3Build \/ StreamOpenFails \/ GetId \/ GetIdCrashes \/ BindControlStream
             \/ BindQpackStreams
      PROVE  Silent
    BY <1>4, Zenon DEF Http3Build, StreamOpenFails, GetId, GetIdCrashes, BindControlStream,
       BindQpackStreams, object, quic
<1> HIDE DEF Silent
<1>5. CASE \E s \in PeerStreams : Receive(s)
    BY <1>3, <1>5, Zenon DEF Silent
<1>6. CASE \E s \in PeerStreams : conn = "connected" /\ StreamEnding(s)
    BY <1>6, StreamSets, Zenon DEF Streams
<1>7. CASE Msquic
    BY <1>2, <1>7, Zenon DEF Msquic, Silent
<1>8. CASE Http3Init
    BY <1>4, <1>8, Zenon DEF Http3Init, Silent
<1>9. QED
    BY <1>1, <1>2, <1>5, <1>6, <1>7, <1>8, Zenon DEF Next, Silent

\* What is known of a stream's id stays true, whichever side opened it.
LEMMA StatesStep == IInv /\ [Next]_vars => StreamStates'
<1> SUFFICES ASSUME IInv, [Next]_vars PROVE StreamStates'
    OBVIOUS
<1> USE StreamSets DEF StreamStates, thread, quic, object, InitAt
<1>i. TypeOK /\ StreamStates /\ ThreadAtPlace
    BY DEF IInv
<1>t. /\ stream \in [Streams -> {"none", "opened", "starting", "issued", "failed", "started",
                                 "unusable", "ending", "closed"}]
      /\ id \in [Streams -> Nat \cup {NoId}]
    BY <1>i DEF TypeOK
\* A step of one stream to a state its id allows.
<1>m. ASSUME NEW s \in Streams, NEW state, stream' = [stream EXCEPT ![s] = state],
             \A r \in Streams : r # s => id'[r] = id[r],
             state \in {"none", "opened", "starting", "failed", "unusable"} => id'[s] = NoId,
             state \in {"issued", "started", "ending"} => id'[s] # NoId,
             s \in PeerStreams => state \in {"none", "started", "ending", "closed"}
      PROVE  StreamStates'
    BY <1>m, <1>i, <1>t
<1>1. CASE UNCHANGED <<stream, id, streamMap>>
    BY <1>1, <1>i
<1>2. ASSUME NEW s \in PeerStreams, PeerStreamStarted(s) PROVE StreamStates'
  <2>1. stream' = [stream EXCEPT ![s] = "started"] /\ id' = [id EXCEPT ![s] = NextId(s)]
    BY <1>2 DEF PeerStreamStarted
  <2>2. id'[s] # NoId /\ \A r \in Streams : r # s => id'[r] = id[r]
    BY <1>t, <2>1, NextIds DEF NoId
  <2>3. QED
    BY <1>m, <2>1, <2>2
<1>3. ASSUME NEW s \in Streams, StreamEnding(s) \/ StreamShutdownComplete(s) PROVE StreamStates'
  <2>1. \/ stream[s] = "started" /\ stream' = [stream EXCEPT ![s] = "ending"]
        \/ stream[s] = "ending" /\ stream' = [stream EXCEPT ![s] = "closed"]
    BY <1>3 DEF StreamEnding, StreamShutdownComplete
  <2>2. UNCHANGED id
    BY <1>3 DEF StreamEnding, StreamShutdownComplete
  <2>3. id[s] # NoId
    BY <1>i, <2>1
  <2>4. QED
    BY <1>m, <2>1, <2>2, <2>3
<1>4. ASSUME NEW s \in Http3Streams, IssueId(s) PROVE StreamStates'
  <2>1. \/ /\ stream' = [stream EXCEPT ![s] = "issued"]
           /\ id' = [id EXCEPT ![s] = NextId(s)]
        \/ stream' = [stream EXCEPT ![s] = "failed"] /\ UNCHANGED id
    BY <1>4 DEF IssueId
  <2>2. id[s] = NoId
    BY <1>4, <1>i DEF IssueId
  <2>3. CASE stream' = [stream EXCEPT ![s] = "issued"] /\ id' = [id EXCEPT ![s] = NextId(s)]
    <3>1. id'[s] # NoId /\ \A r \in Streams : r # s => id'[r] = id[r]
      BY <1>t, <2>3, NextIds DEF NoId
    <3>2. QED
      BY <1>m, <2>3, <3>1
  <2>4. CASE stream' = [stream EXCEPT ![s] = "failed"] /\ UNCHANGED id
    BY <1>m, <2>2, <2>4
  <2>5. QED
    BY <2>1, <2>3, <2>4
<1>5. ASSUME NEW s \in Http3Streams, StartComplete(s) PROVE StreamStates'
  <2>1. \/ stream[s] = "issued" /\ stream' = [stream EXCEPT ![s] = "started"]
        \/ stream[s] = "failed" /\ stream' = [stream EXCEPT ![s] = "unusable"]
    BY <1>5 DEF StartComplete
  <2>2. UNCHANGED id
    BY <1>5 DEF StartComplete
  <2>3. stream[s] = "issued" => id[s] # NoId
    BY <1>i
  <2>4. stream[s] = "failed" => id[s] = NoId
    BY <1>i
  <2>5. QED
    BY <1>m, <2>1, <2>2, <2>3, <2>4
<1>6. CASE StreamOpen
  <2>1. init.on \in Http3Streams /\ stream[init.on] = "none" /\ UNCHANGED id
        /\ stream' = [stream EXCEPT ![init.on] = "opened"]
    BY <1>6, <1>i DEF StreamOpen, ThreadAtPlace
  <2>2. id[init.on] = NoId
    BY <1>i, <2>1
  <2>3. QED
    BY <1>m, <2>1, <2>2
<1>7. CASE StreamStart \/ StreamStartFails
  <2>1. init.on \in Http3Streams /\ stream[init.on] = "opened" /\ UNCHANGED id
        /\ \/ stream' = [stream EXCEPT ![init.on] = "starting"]
           \/ stream' = [stream EXCEPT ![init.on] = "closed"]
    BY <1>7, <1>i DEF StreamStart, StreamStartFails, ThreadAtPlace
  <2>2. id[init.on] = NoId
    BY <1>i, <2>1
  <2>3. QED
    BY <1>m, <2>1, <2>2
<1>8. QED
    BY <1>1, <1>2, <1>3, <1>4, <1>5, <1>6, <1>7, StreamSteps, Zenon

\* The id a stream is about to get is nobody's yet.
LEMMA NextIdIsFree ==
    ASSUME IInv, NEW s \in Streams
    PROVE  \A r \in Streams : id[r] # NextId(s)
<1>i. TypeOK /\ Ids
    BY DEF IInv
<1> SUFFICES ASSUME NEW r \in Streams, id[r] = NextId(s) PROVE FALSE
    OBVIOUS
<1>1. PICK K \in Kinds : s \in K
    BY KindOf
<1>2. PICK J \in Kinds : r \in J
    BY KindOf
<1> DEFINE n == Cardinality(Issued(K))
           m == Cardinality(Issued(J))
<1>3. n \in Nat /\ m \in Nat /\ First(K) \in 0..3 /\ First(J) \in 0..3
    BY IssuedAreFinite, KindOf
<1>4. id[r] \in Nat /\ id[r] # NoId
    BY NextIds DEF NoId
<1>5. id[r] % 4 = First(J) /\ id[r] < First(J) + 4 * m
    BY <1>i, <1>2, <1>4 DEF Ids
<1>6. id[r] = First(K) + 4 * n
    BY <1>1, NextIds
<1>7. First(K) = First(J) => n = m
    BY KindOf
<1> HIDE DEF n, m
<1>8. (First(K) + 4 * n) % 4 = First(K)
    BY <1>3
<1>9. QED
    BY <1>3, <1>5, <1>6, <1>7, <1>8

\* msquic numbers the streams of a kind from what it has issued to that kind.
LEMMA IdsStep == IInv /\ [Next]_vars => Ids'
<1> SUFFICES ASSUME IInv, [Next]_vars PROVE Ids'
    OBVIOUS
<1> USE StreamSets DEF thread, quic, object
<1>i. TypeOK /\ StreamStates /\ Ids
    BY DEF IInv
<1>t. id \in [Streams -> Nat \cup {NoId}]
    BY <1>i DEF TypeOK
<1>1. ASSUME UNCHANGED id PROVE Ids'
    BY <1>1, <1>i DEF Ids, Issued
<1>2. ASSUME NEW s \in Streams, id[s] = NoId, id' = [id EXCEPT ![s] = NextId(s)] PROVE Ids'
  <2>1. /\ id'[s] = NextId(s) /\ NextId(s) \in Nat /\ NextId(s) # NoId
        /\ \A r \in Streams : r # s => id'[r] = id[r]
    BY <1>t, <1>2, NextIds DEF NoId
  <2>2. \A q, r \in Streams : id'[q] # NoId /\ id'[q] = id'[r] => q = r
    BY <1>i, <2>1, NextIdIsFree DEF Ids
  <2>3. ASSUME NEW K \in Kinds, NEW r \in K, id'[r] # NoId
        PROVE  id'[r] % 4 = First(K) /\ id'[r] < First(K) + 4 * Cardinality(Issued(K)')
    <3> DEFINE n == Cardinality(Issued(K))
    <3>1. n \in Nat /\ First(K) \in 0..3 /\ K \subseteq Streams
      BY IssuedAreFinite, KindOf
    <3>2. CASE s \in K
      <4>1. Issued(K)' = Issued(K) \cup {s} /\ s \notin Issued(K)
        BY <1>2, <2>1, <3>1, <3>2 DEF Issued
      <4>2. Cardinality(Issued(K)') = n + 1
        BY <4>1, IssuedAreFinite, FS_AddElement
      <4>3. NextId(s) = First(K) + 4 * n
        BY <3>2, NextIds
      <4>4. r # s => id'[r] = id[r] /\ id[r] \in Nat /\ id[r] % 4 = First(K) /\ id[r] < First(K) + 4 * n
        BY <1>i, <1>t, <2>1, <2>3, <3>1 DEF Ids
      <4> HIDE DEF n
      <4>5. (First(K) + 4 * n) % 4 = First(K) /\ First(K) + 4 * n < First(K) + 4 * (n + 1)
        BY <3>1
      <4>6. CASE r = s
        BY <2>1, <4>2, <4>3, <4>5, <4>6
      <4>7. CASE r # s
        <5>1. id[r] < First(K) + 4 * (n + 1)
          BY <3>1, <4>4, <4>7
        <5>2. QED
          BY <4>2, <4>4, <4>7, <5>1
      <4>8. QED
        BY <4>6, <4>7
    <3>3. CASE s \notin K
      <4>1. Issued(K)' = Issued(K)
        BY <2>1, <3>1, <3>3 DEF Issued
      <4>2. id'[r] = id[r] /\ id[r] % 4 = First(K) /\ id[r] < First(K) + 4 * n
        BY <1>i, <2>1, <2>3, <3>1, <3>3 DEF Ids
      <4>3. QED
        BY <4>1, <4>2
    <3>4. QED
      BY <3>2, <3>3
  <2>4. QED
    BY <2>2, <2>3 DEF Ids
<1>3. ASSUME NEW s \in PeerStreams, PeerStreamStarted(s) PROVE Ids'
  <2>1. id[s] = NoId /\ id' = [id EXCEPT ![s] = NextId(s)]
    BY <1>3, <1>i DEF PeerStreamStarted, StreamStates
  <2>2. QED
    BY <1>2, <2>1
<1>4. ASSUME NEW s \in Streams, StreamEnding(s) \/ StreamShutdownComplete(s) PROVE Ids'
    BY <1>1, <1>4 DEF StreamEnding, StreamShutdownComplete
<1>5. ASSUME NEW s \in Http3Streams, IssueId(s) PROVE Ids'
  <2>1. id[s] = NoId /\ (UNCHANGED id \/ id' = [id EXCEPT ![s] = NextId(s)])
    BY <1>5, <1>i DEF IssueId, StreamStates
  <2>2. QED
    BY <1>1, <1>2, <2>1
<1>6. ASSUME NEW s \in Http3Streams, StartComplete(s) PROVE Ids'
    BY <1>1, <1>6 DEF StartComplete
<1>7. CASE StreamOpen \/ StreamStart \/ StreamStartFails
    BY <1>1, <1>7 DEF StreamOpen, StreamStart, StreamStartFails
<1>8. QED
    BY <1>1, <1>3, <1>4, <1>5, <1>6, <1>7, StreamSteps, Zenon

\* stream_map gets an entry with each stream that starts, and never a second of one id.
LEMMA MapStep == IInv /\ [Next]_vars => Mapped'
<1> SUFFICES ASSUME IInv, [Next]_vars PROVE Mapped'
    OBVIOUS
<1> USE StreamSets DEF thread, quic, object, InitAt
<1>i. TypeOK /\ StreamStates /\ Ids /\ Mapped /\ ThreadAtPlace
    BY DEF IInv
<1>t. /\ stream \in [Streams -> {"none", "opened", "starting", "issued", "failed", "started",
                                 "unusable", "ending", "closed"}]
      /\ id \in [Streams -> Nat \cup {NoId}]
      /\ streamMap \subseteq (Nat \cup {NoId}) \X Streams
    BY <1>i DEF TypeOK
<1> DEFINE Absent == {"none", "opened", "starting", "issued", "failed"}
<1>a. \A e \in streamMap : e[2] \in Streams /\ e[1] = id[e[2]] /\ stream[e[2]] \notin Absent
    BY <1>i, <1>t DEF Mapped
\* A step of one stream that leaves the map alone and does not begin or end its use.
<1>m. ASSUME NEW s \in Streams, UNCHANGED streamMap,
             \A r \in Streams : r # s => stream'[r] = stream[r] /\ id'[r] = id[r],
             \/ stream[s] \in Absent /\ stream'[s] \notin {"started", "ending"}
             \/ stream[s] \in {"started", "ending"} /\ stream'[s] \notin Absent /\ id'[s] = id[s]
      PROVE  Mapped'
  <2>1. ASSUME NEW e \in streamMap
        PROVE  e[1] = id'[e[2]] /\ stream'[e[2]] \notin Absent
    BY <1>a, <1>m, <2>1
  <2>2. ASSUME NEW r \in Streams, stream'[r] \in {"started", "ending"}
        PROVE  <<id'[r], r>> \in streamMap
    BY <1>i, <1>m, <2>2 DEF Mapped
  <2>3. QED
    BY <1>m, <2>1, <2>2 DEF Mapped
<1>1. CASE UNCHANGED <<stream, id, streamMap>>
    BY <1>1, <1>i DEF Mapped
\* A stream that is entered, under an id of its own if it can deliver data.
<1>e. ASSUME NEW s \in Streams, stream[s] \in Absent, stream'[s] \in {"started", "unusable"},
             \A r \in Streams : r # s => stream'[r] = stream[r] /\ id'[r] = id[r],
             stream'[s] = "started" => \A r \in Streams : r # s => id[r] # id'[s],
             InsertStream(id'[s], s)
      PROVE  Mapped'
  <2>1. \A e \in streamMap : e[2] # s
    BY <1>a, <1>e
  <2>2. ASSUME stream'[s] = "started", NEW e \in streamMap
        PROVE  e[1] # id'[s]
    <3>1. e[2] \in Streams /\ e[2] # s /\ e[1] = id[e[2]]
      BY <1>a, <2>1, Zenon
    <3>2. \A r \in Streams : r # s => id[r] # id'[s]
      BY <1>e, <2>2, Zenon
    <3>3. QED
      BY <3>1, <3>2, Zenon
  <2>3. /\ streamMap \subseteq streamMap'
        /\ \A e \in streamMap' : e \in streamMap \/ e = <<id'[s], s>>
        /\ stream'[s] = "started" => <<id'[s], s>> \in streamMap'
    <3>1. CASE \E e \in streamMap : e[1] = id'[s]
      <4>1. streamMap' = streamMap
        BY <1>e, <3>1, Zenon DEF InsertStream
      <4>2. stream'[s] # "started"
        BY <2>2, <3>1, Zenon
      <4>3. QED
        BY <4>1, <4>2, Zenon
    <3>2. CASE ~ \E e \in streamMap : e[1] = id'[s]
      <4>1. streamMap' = streamMap \cup {<<id'[s], s>>}
        BY <1>e, <3>2, Zenon DEF InsertStream
      <4>2. QED
        BY <4>1, Zenon
    <3>3. QED
      BY <3>1, <3>2, Zenon
  <2>4. ASSUME NEW e \in streamMap'
        PROVE  e[1] = id'[e[2]] /\ stream'[e[2]] \notin Absent
    <3>1. CASE e \in streamMap
      BY <1>a, <1>e, <2>1, <3>1
    <3>2. CASE e = <<id'[s], s>>
      <4>1. e[1] = id'[s] /\ e[2] = s
        BY <3>2
      <4>2. QED
        BY <1>e, <4>1
    <3>3. QED
      BY <2>3, <3>1, <3>2
  <2>5. ASSUME NEW r \in Streams, stream'[r] \in {"started", "ending"}
        PROVE  <<id'[r], r>> \in streamMap'
    <3>1. CASE r = s
      BY <1>e, <2>3, <2>5, <3>1
    <3>2. CASE r # s
      <4>1. <<id[r], r>> \in streamMap /\ id'[r] = id[r]
        BY <1>e, <1>i, <2>5, <3>2 DEF Mapped
      <4>2. QED
        BY <2>3, <4>1
    <3>3. QED
      BY <3>1, <3>2
  <2>6. QED
    BY <2>4, <2>5 DEF Mapped
<1>2. ASSUME NEW s \in PeerStreams, PeerStreamStarted(s) PROVE Mapped'
  <2>1. /\ stream[s] = "none" /\ stream' = [stream EXCEPT ![s] = "started"]
        /\ id' = [id EXCEPT ![s] = NextId(s)] /\ InsertStream(NextId(s), s)
    BY <1>2 DEF PeerStreamStarted
  <2>2. /\ stream'[s] = "started" /\ id'[s] = NextId(s)
        /\ \A r \in Streams : r # s => stream'[r] = stream[r] /\ id'[r] = id[r]
    BY <1>t, <2>1
  <2>3. \A r \in Streams : id[r] # id'[s]
    BY <2>2, NextIdIsFree
  <2>4. InsertStream(id'[s], s)
    BY <2>1, <2>2
  <2>5. QED
    BY <1>e, <2>1, <2>2, <2>3, <2>4
<1>3. ASSUME NEW s \in Streams, StreamEnding(s) \/ StreamShutdownComplete(s) PROVE Mapped'
  <2>1. /\ stream[s] \in {"started", "ending"} /\ UNCHANGED <<id, streamMap>>
        /\ \/ stream' = [stream EXCEPT ![s] = "ending"]
           \/ stream' = [stream EXCEPT ![s] = "closed"]
    BY <1>3 DEF StreamEnding, StreamShutdownComplete
  <2>2. /\ stream'[s] \in {"ending", "closed"}
        /\ \A r \in Streams : r # s => stream'[r] = stream[r]
    BY <1>t, <2>1
  <2>3. QED
    BY <1>m, <2>1, <2>2
<1>4. ASSUME NEW s \in Http3Streams, IssueId(s) PROVE Mapped'
  <2>1. /\ stream[s] = "starting" /\ UNCHANGED streamMap
        /\ stream'[s] \in {"issued", "failed"}
        /\ \A r \in Streams : r # s => stream'[r] = stream[r] /\ id'[r] = id[r]
    BY <1>4, <1>t DEF IssueId
  <2>2. QED
    BY <1>m, <2>1
<1>5. ASSUME NEW s \in Http3Streams, StartComplete(s) PROVE Mapped'
  <2>1. /\ \/ stream[s] = "issued" /\ stream' = [stream EXCEPT ![s] = "started"]
           \/ stream[s] = "failed" /\ stream' = [stream EXCEPT ![s] = "unusable"]
        /\ UNCHANGED id /\ InsertStream(id'[s], s)
    BY <1>5 DEF StartComplete
  <2>2. /\ \/ stream[s] = "issued" /\ stream'[s] = "started"
           \/ stream[s] = "failed" /\ stream'[s] = "unusable"
        /\ \A r \in Streams : r # s => stream'[r] = stream[r] /\ id'[r] = id[r]
    BY <1>t, <2>1
  <2>3. stream[s] = "issued" => \A r \in Streams : r # s => id[r] # id'[s]
    BY <1>i, <2>1 DEF StreamStates, Ids
  <2>4. QED
    BY <1>e, <2>1, <2>2, <2>3
<1>6. CASE StreamOpen
  <2>1. /\ init.on \in Http3Streams /\ stream[init.on] = "none" /\ UNCHANGED <<id, streamMap>>
        /\ stream' = [stream EXCEPT ![init.on] = "opened"]
    BY <1>6, <1>i DEF StreamOpen, ThreadAtPlace
  <2>2. /\ stream'[init.on] = "opened"
        /\ \A r \in Streams : r # init.on => stream'[r] = stream[r]
    BY <1>t, <2>1
  <2>3. QED
    BY <1>m, <2>1, <2>2
<1>7. CASE StreamStart \/ StreamStartFails
  <2>1. /\ init.on \in Http3Streams /\ stream[init.on] = "opened" /\ UNCHANGED <<id, streamMap>>
        /\ \/ stream' = [stream EXCEPT ![init.on] = "starting"]
           \/ stream' = [stream EXCEPT ![init.on] = "closed"]
    BY <1>7, <1>i DEF StreamStart, StreamStartFails, ThreadAtPlace
  <2>2. /\ stream'[init.on] \in {"starting", "closed"}
        /\ \A r \in Streams : r # init.on => stream'[r] = stream[r]
    BY <1>t, <2>1
  <2>3. QED
    BY <1>m, <2>1, <2>2
<1>8. QED
    BY <1>1, <1>2, <1>3, <1>4, <1>5, <1>6, <1>7, StreamSteps, Zenon

\* The Http3Init thread takes its streams in their order, whatever happens to them.
LEMMA ThreadStep == IInv /\ [Next]_vars => ThreadAtPlace'
<1> SUFFICES ASSUME IInv, [Next]_vars PROVE ThreadAtPlace'
    OBVIOUS
<1> USE StreamSets DEF ThreadAtPlace, InitAt, Step, object
<1>i. TypeOK /\ ThreadAtPlace
    BY DEF IInv
<1>t. /\ stream \in [Streams -> {"none", "opened", "starting", "issued", "failed", "started",
                                 "unusable", "ending", "closed"}]
      /\ readId \in [Http3Streams -> Nat \cup {Unread}]
    BY <1>i DEF TypeOK
\* msquic does not take a stream of ours back to before it was started.
<1>w. ASSUME UNCHANGED <<init, readId, http3, ready>>,
             conn' = "handshaking" => conn = "handshaking",
             \A s \in Http3Streams : \/ stream'[s] = stream[s]
                                     \/ {stream[s], stream'[s]} \cap {"none", "opened"} = {}
      PROVE  ThreadAtPlace'
  <2>1. \A s \in Http3Streams : /\ stream[s] = "none" <=> stream'[s] = "none"
                                /\ stream[s] = "opened" <=> stream'[s] = "opened"
    BY <1>w
  <2>2. QED
    BY <1>i, <1>w, <2>1
<1>1. CASE UNCHANGED vars
  <2>1. UNCHANGED <<init, readId, http3, ready, conn, stream>>
    BY <1>1, Zenon DEF vars
  <2>2. QED
    BY <1>w, <2>1
<1>2. CASE Connected
  <2>1. /\ conn = "handshaking" /\ conn' = "connected" /\ init' = [at |-> "build", on |-> "none"]
        /\ UNCHANGED <<readId, http3, ready, stream>>
    BY <1>2 DEF Connected, quic
  <2>2. QED
    BY <1>i, <2>1
<1>3. CASE ShutdownInitiated \/ Reclaim \/ ConnectionShutdownComplete
  <2>1. UNCHANGED <<init, readId, http3, ready, stream>> /\ (conn' = conn \/ conn' \in {"closing", "closed"})
    BY <1>3 DEF ShutdownInitiated, Reclaim, ConnectionShutdownComplete, quic, thread
  <2>2. QED
    BY <1>w, <2>1
<1>4. ASSUME NEW s \in PeerStreams, PeerStreamStarted(s) PROVE ThreadAtPlace'
  <2>1. UNCHANGED <<init, readId, http3, ready, conn>> /\ stream' = [stream EXCEPT ![s] = "started"]
    BY <1>4 DEF PeerStreamStarted, thread
  <2>2. \A r \in Http3Streams : stream'[r] = stream[r]
    BY <1>t, <2>1
  <2>3. QED
    BY <1>w, <2>1, <2>2
<1>5. ASSUME NEW s \in PeerStreams, Receive(s) PROVE ThreadAtPlace'
  <2>1. UNCHANGED <<init, readId, http3, ready, conn, stream>>
    BY <1>5, Zenon DEF Receive, quic, thread
  <2>2. QED
    BY <1>w, <2>1
<1>6. ASSUME NEW s \in Streams, StreamEnding(s) \/ StreamShutdownComplete(s) PROVE ThreadAtPlace'
  <2>1. /\ UNCHANGED <<init, readId, http3, ready, conn>>
        /\ \A r \in Streams : \/ stream'[r] = stream[r]
                              \/ {stream[r], stream'[r]} \cap {"none", "opened"} = {}
    BY <1>6, <1>t DEF StreamEnding, StreamShutdownComplete, thread
  <2>2. QED
    BY <1>w, <2>1
<1>7. ASSUME NEW s \in Http3Streams, IssueId(s) \/ StartComplete(s) PROVE ThreadAtPlace'
  <2>1. /\ UNCHANGED <<init, readId, http3, ready, conn>>
        /\ \A r \in Streams : \/ stream'[r] = stream[r]
                              \/ {stream[r], stream'[r]} \cap {"none", "opened"} = {}
    BY <1>7, <1>t DEF IssueId, StartComplete, thread
  <2>2. QED
    BY <1>w, <2>1
<1>8. CASE Http3Build
  <2>1. /\ init.at = "build" /\ init' = [at |-> "open", on |-> "control"] /\ http3' # "unset"
        /\ UNCHANGED <<readId, ready, conn, stream>>
    BY <1>8 DEF Http3Build, quic
  <2>2. QED
    BY <1>i, <2>1, Afters
<1>9. CASE StreamOpen
  <2>1. /\ init.at = "open" /\ init' = [at |-> "start", on |-> init.on]
        /\ stream' = [stream EXCEPT ![init.on] = "opened"]
        /\ UNCHANGED <<readId, http3, ready, conn>>
    BY <1>9 DEF StreamOpen
  <2>2. /\ init.on \in Http3Streams /\ stream'[init.on] = "opened"
        /\ \A r \in Http3Streams : r # init.on => stream'[r] = stream[r]
    BY <1>i, <1>t, <2>1
  <2>3. \A s \in Http3Streams : Position(s) > Position(init.on) => stream'[s] = "none"
    BY <1>i, <2>1, <2>2, Afters
  <2>4. QED
    BY <1>i, <2>1, <2>2, <2>3
\* Done with one stream, the thread has the next, or all three, before it.
<1>10. ASSUME NEW s \in Http3Streams, s = init.on, init.at \in {"open", "start"},
              NEW result, StreamReturned(s, result),
              \A r \in Http3Streams : r # s => stream'[r] = stream[r],
              UNCHANGED <<readId, http3, ready>>, conn' = "handshaking" => conn = "handshaking"
       PROVE  ThreadAtPlace'
  <2>1. CASE s = "control"
    <3>1. init' = [at |-> "open", on |-> "encoder"]
      BY <1>10, <2>1, Afters DEF StreamReturned
    <3>2. QED
      BY <1>i, <1>10, <2>1, <3>1, Afters
  <2>2. CASE s = "encoder"
    <3>1. init' = [at |-> "open", on |-> "decoder"]
      BY <1>10, <2>2, Afters DEF StreamReturned
    <3>2. QED
      BY <1>i, <1>10, <2>2, <3>1, Afters
  <2>3. CASE s = "decoder"
    <3>1. init' = [at |-> "getid", on |-> "control"]
      BY <1>10, <2>3, Afters DEF StreamReturned
    <3>2. QED
      BY <1>i, <1>10, <2>3, <3>1, Afters
  <2>4. QED
    BY <2>1, <2>2, <2>3
<1>11. CASE StreamOpenFails
  <2>1. /\ init.at = "open" /\ StreamReturned(init.on, "null")
        /\ UNCHANGED <<stream, readId, http3, ready>>
        /\ conn' = conn \/ conn' = "closing"
    BY <1>11 DEF StreamOpenFails, ConnectionShutdown, quic
  <2>2. init.on \in Http3Streams
    BY <1>i, <2>1
  <2>3. QED
    BY <1>10, <2>1, <2>2
<1>12. CASE StreamStart \/ StreamStartFails
  <2>1. /\ init.at = "start"
        /\ StreamReturned(init.on, "stream") \/ StreamReturned(init.on, "null")
        /\ \/ stream' = [stream EXCEPT ![init.on] = "starting"]
           \/ stream' = [stream EXCEPT ![init.on] = "closed"]
        /\ UNCHANGED <<readId, http3, ready>>
        /\ conn' = conn \/ conn' = "closing"
    BY <1>12 DEF StreamStart, StreamStartFails, ConnectionShutdown
  <2>2. /\ init.on \in Http3Streams
        /\ \A r \in Http3Streams : r # init.on => stream'[r] = stream[r]
    BY <1>i, <1>t, <2>1
  <2>3. QED
    BY <1>10, <2>1, <2>2
<1>13. CASE GetId
  <2>1. /\ init.at = "getid" /\ init.on \in Http3Streams
        /\ id[init.on] # NoId /\ readId' = [readId EXCEPT ![init.on] = id[init.on]]
        /\ UNCHANGED <<http3, ready, conn, stream>>
    BY <1>13, <1>i DEF GetId, quic
  <2>2. /\ readId'[init.on] # Unread
        /\ \A r \in Http3Streams : r # init.on => readId'[r] = readId[r]
    BY <1>i, <1>t, <2>1 DEF TypeOK, NoId, Unread
  <2>3. CASE init.on = "control"
    <3>1. init' = [at |-> "getid", on |-> "encoder"]
      BY <1>13, <2>3, Afters DEF GetId
    <3>2. QED
      BY <1>i, <2>1, <2>2, <2>3, <3>1, Afters
  <2>4. CASE init.on = "encoder"
    <3>1. init' = [at |-> "getid", on |-> "decoder"]
      BY <1>13, <2>4, Afters DEF GetId
    <3>2. QED
      BY <1>i, <2>1, <2>2, <2>4, <3>1, Afters
  <2>5. CASE init.on = "decoder"
    <3>1. init' = [at |-> "bindcontrol", on |-> "none"]
      BY <1>13, <2>5, Afters DEF GetId
    <3>2. QED
      BY <1>i, <2>1, <2>2, <2>5, <3>1, Afters
  <2>6. QED
    BY <2>1, <2>3, <2>4, <2>5
<1>14. CASE GetIdCrashes
  <2>1. UNCHANGED <<init, readId, http3, ready, conn, stream>>
    BY <1>14, Zenon DEF GetIdCrashes, quic, thread
  <2>2. QED
    BY <1>w, <2>1
<1>15. CASE BindControlStream
  <2>1. /\ init.at = "bindcontrol" /\ init'.at \in {"bindqpack", "gaveup"}
        /\ UNCHANGED <<readId, http3, ready, conn, stream>>
    BY <1>15 DEF BindControlStream, quic
  <2>2. QED
    BY <1>i, <2>1
<1>16. CASE BindQpackStreams
  <2>1. /\ init.at = "bindqpack"
        /\ \/ init'.at = "done"
           \/ init'.at = "gaveup" /\ UNCHANGED ready
        /\ UNCHANGED <<readId, http3, conn, stream>>
    BY <1>16 DEF BindQpackStreams, quic
  <2>2. ~ready
    BY <1>i, <2>1
  <2>3. QED
    BY <1>i, <2>1, <2>2
<1>17. QED
    BY <1>1, <1>2, <1>3, <1>4, <1>5, <1>6, <1>7, <1>8, <1>9, <1>11, <1>12, <1>13, <1>14, <1>15,
       <1>16, StreamSets, Zenon DEF Next, Msquic, Http3Init, Streams

\* An id that was read stays the stream's.
LEMMA ReadStep == IInv /\ [Next]_vars => IdsRead'
<1> SUFFICES ASSUME IInv, [Next]_vars PROVE IdsRead'
    OBVIOUS
<1> USE StreamSets DEF IdsRead, InitAt, object
<1>i. TypeOK /\ StreamStates /\ ThreadAtPlace /\ IdsRead
    BY DEF IInv
<1>t. /\ id \in [Streams -> Nat \cup {NoId}] /\ readId \in [Http3Streams -> Nat \cup {Unread}]
      /\ handle \in [Http3Streams -> {"unset", "null", "stream"}]
    BY <1>i DEF TypeOK
\* The thread waits: only ids that were not there before may have come.
<1>w. ASSUME UNCHANGED <<handle, readId>>,
             \A s \in Http3Streams : id[s] # NoId => id'[s] = id[s]
      PROVE  IdsRead'
    BY <1>w, <1>i
<1>1. CASE UNCHANGED vars
  <2>1. UNCHANGED <<handle, readId, id>>
    BY <1>1, Zenon DEF vars
  <2>2. QED
    BY <1>w, <2>1
<1>2. CASE \/ Connected \/ ShutdownInitiated \/ Reclaim \/ ConnectionShutdownComplete
           \/ Http3Build \/ StreamOpen \/ GetIdCrashes \/ BindControlStream \/ BindQpackStreams
  <2>1. UNCHANGED <<handle, readId, id>>
    BY <1>2, Zenon DEF Connected, ShutdownInitiated, Reclaim, ConnectionShutdownComplete, Http3Build,
       StreamOpen, GetIdCrashes, BindControlStream, BindQpackStreams, quic, thread
  <2>2. QED
    BY <1>w, <2>1
<1>3. ASSUME NEW s \in PeerStreams, PeerStreamStarted(s) \/ Receive(s) PROVE IdsRead'
  <2>1. CASE PeerStreamStarted(s)
    <3>1. UNCHANGED <<handle, readId>> /\ \A r \in Streams : r # s => id'[r] = id[r]
      BY <1>t, <2>1 DEF PeerStreamStarted, thread
    <3>2. QED
      BY <1>w, <3>1
  <2>2. CASE Receive(s)
    <3>1. UNCHANGED <<handle, readId, id>>
      BY <2>2, Zenon DEF Receive, quic, thread
    <3>2. QED
      BY <1>w, <3>1
  <2>3. QED
    BY <1>3, <2>1, <2>2
<1>4. ASSUME NEW s \in Streams, StreamEnding(s) \/ StreamShutdownComplete(s) PROVE IdsRead'
  <2>1. UNCHANGED <<handle, readId, id>>
    BY <1>4 DEF StreamEnding, StreamShutdownComplete, thread
  <2>2. QED
    BY <1>w, <2>1
<1>5. ASSUME NEW s \in Http3Streams, IssueId(s) \/ StartComplete(s) PROVE IdsRead'
  <2>1. UNCHANGED <<handle, readId>>
    BY <1>5 DEF IssueId, StartComplete, thread
  <2>2. \A r \in Streams : id[r] # NoId => id'[r] = id[r]
    BY <1>5, <1>i, <1>t DEF IssueId, StartComplete, StreamStates
  <2>3. QED
    BY <1>w, <2>1, <2>2
\* While streams are opened and started, no id has been read.
<1>6. CASE StreamOpenFails \/ StreamStart \/ StreamStartFails
  <2>1. init.at \in {"open", "start"} /\ UNCHANGED readId
    BY <1>6 DEF StreamOpenFails, StreamStart, StreamStartFails
  <2>2. QED
    BY <1>i, <2>1 DEF ThreadAtPlace
<1>7. CASE GetId
  <2>1. /\ init.on \in Http3Streams /\ handle[init.on] = "stream" /\ id[init.on] # NoId
        /\ readId' = [readId EXCEPT ![init.on] = id[init.on]] /\ UNCHANGED <<handle, id>>
    BY <1>7, <1>i DEF GetId, ThreadAtPlace, quic
  <2>2. QED
    BY <1>i, <1>t, <2>1
<1>8. QED
    BY <1>1, <1>2, <1>3, <1>4, <1>5, <1>6, <1>7, StreamSets, Zenon
       DEF Next, Msquic, Http3Init, Streams

\* After its FIN nghttp3 gets nothing more of a request.
LEMMA RequestStep == IInv /\ [Next]_vars => Requested'
<1> SUFFICES ASSUME IInv, [Next]_vars PROVE Requested'
    OBVIOUS
<1>i. TypeOK /\ Requested
    BY DEF IInv
<1>1. ASSUME UNCHANGED <<request, finished>> PROVE Requested'
    BY <1>1, <1>i DEF Requested
<1>2. CASE UNCHANGED vars
  <2>1. UNCHANGED <<request, finished>>
    BY <1>2, Zenon DEF vars
  <2>2. QED
    BY <1>1, <2>1
<1>3. CASE Connected \/ ShutdownInitiated \/ Reclaim \/ ConnectionShutdownComplete \/ Http3Init
  <2>1. UNCHANGED <<request, finished>>
    BY <1>3, Zenon DEF Connected, ShutdownInitiated, Reclaim, ConnectionShutdownComplete, Http3Init,
       Http3Build, StreamOpen, StreamOpenFails, StreamStart, StreamStartFails, GetId, GetIdCrashes,
       BindControlStream, BindQpackStreams, reading
  <2>2. QED
    BY <1>1, <2>1
<1>4. ASSUME NEW s \in Streams,
             StreamEnding(s) \/ StreamShutdownComplete(s) \/ IssueId(s) \/ StartComplete(s)
             \/ PeerStreamStarted(s)
      PROVE  Requested'
  <2>1. UNCHANGED <<request, finished>>
    BY <1>4, Zenon
       DEF StreamEnding, StreamShutdownComplete, IssueId, StartComplete, PeerStreamStarted, reading
  <2>2. QED
    BY <1>1, <2>1
<1>5. ASSUME NEW s \in PeerStreams, Receive(s) PROVE Requested'
  <2>1. PICK count \in 0..MaxBuffers, fin \in BOOLEAN :
           /\ s \notin finished
           /\ finished' = IF fin THEN finished \cup {s} ELSE finished
           /\ \/ request' = [request EXCEPT ![s] = Read(@, count, fin)]
              \/ request' = [request EXCEPT ![s] = "failed"]
    BY <1>5, Zenon DEF Receive
  <2>2. count \in Nat
    BY ServerConnectionAssumption
  <2>3. request[s] \in {"open", "failed"}
    BY <1>i, <2>1 DEF Requested
  <2>4. /\ Read(request[s], count, fin) \in {"open", "ended", "failed"}
        /\ Read(request[s], count, fin) = "ended" => fin
    BY <2>1, <2>2, <2>3, ReadFeedsFinOnce DEF Feed
  <2>5. /\ request'[s] \in {"open", "ended", "failed"} /\ (request'[s] = "ended" => fin)
        /\ \A r \in PeerStreams : r # s => request'[r] = request[r]
    BY <1>i, <2>1, <2>4 DEF TypeOK
  <2>6. finished \subseteq finished' /\ (fin => s \in finished')
    BY <2>1
  <2>7. QED
    BY <1>i, <2>5, <2>6 DEF Requested
<1>6. QED
    BY <1>2, <1>3, <1>4, <1>5, StreamSets, Zenon DEF Next, Msquic, Streams

LEMMA InvHolds == Spec => []IInv
<1>1. IInv /\ [Next]_vars => IInv'
    BY TypeStep, StatesStep, IdsStep, MapStep, ThreadStep, ReadStep, RequestStep DEF IInv
<1>2. QED
    BY InvInit, <1>1, PTL DEF Spec

-----------------------------------------------------------------------------
\* Every variable of a server connection keeps its type.
THEOREM TypeCorrect == Spec => []TypeOK
<1>1. IInv => TypeOK
    BY DEF IInv
<1>2. QED
    BY <1>1, InvHolds, PTL

\* A stream that can deliver data, opened by the peer or by the server, is found in
\* stream_map under the id msquic gave it, and nothing else is.
THEOREM LookupsFindTheStream == Spec => []StreamsFoundById
<1>1. IInv => StreamsFoundById
  <2> SUFFICES ASSUME IInv, NEW s \in Streams, stream[s] \in {"started", "ending"}
               PROVE  {entry[2] : entry \in {e \in streamMap : e[1] = id[s]}} = {s}
    BY DEF StreamsFoundById
  <2>i. TypeOK /\ StreamStates /\ Ids /\ Mapped
    BY DEF IInv
  <2>1. <<id[s], s>> \in streamMap /\ id[s] # NoId
    BY <2>i DEF Mapped, StreamStates
  <2>2. \A e \in streamMap : e[1] = id[s] => e[2] = s
    BY <2>i, <2>1 DEF TypeOK, Ids, Mapped
  <2>3. QED
    BY <2>1, <2>2
<1>2. QED
    BY <1>1, InvHolds, PTL

\* http3_stream_ok means that http3 is there and was given three different ids, those
\* that msquic issued to three streams of ours.
THEOREM ReadyMeansBound == Spec => []BoundStreamsAreOurs
<1>1. IInv => BoundStreamsAreOurs
  <2> SUFFICES ASSUME IInv, ready
               PROVE  /\ http3 # "unset"
                      /\ \A s \in Http3Streams :
                            handle[s] = "stream" /\ readId[s] = id[s] /\ id[s] # NoId
                      /\ \A r, s \in Http3Streams : readId[r] = readId[s] => r = s
    BY DEF BoundStreamsAreOurs
  <2>1. /\ http3 # "unset"
        /\ \A s \in Http3Streams : handle[s] = "stream" /\ readId[s] = id[s] /\ id[s] # NoId
    BY DEF IInv, ThreadAtPlace, IdsRead
  <2>2. QED
    BY <2>1, StreamSets DEF IInv, Ids
<1>2. QED
    BY <1>1, InvHolds, PTL

\* Into however many buffers msquic splits a stream of the peer, nghttp3 is told of its
\* end when the FIN has come, and gets nothing of it afterwards.
THEOREM NothingAfterTheEnd == Spec => []EndComesLast
<1>1. IInv => EndComesLast
    BY DEF IInv, Requested, EndComesLast
<1>2. QED
    BY <1>1, InvHolds, PTL
================================================================================
