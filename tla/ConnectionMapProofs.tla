-------------------------- MODULE ConnectionMapProofs --------------------------
(***************************************************************************)
(* Proofs about ConnectionMap, for every set of connections and threads,   *)
(* every capacity of the queue's memory and whatever freed memory holds.   *)
(*                                                                         *)
(* The races on the queue and the map can lose, repeat or invent an id,    *)
(* lose an entry and free a context twice.  What survives them is that an  *)
(* id belongs to one connection, which enters itself under it once.        *)
(***************************************************************************)
EXTENDS ConnectionMap, TLAPS

\* An id belongs to one connection and to one that has a context.
IdsUnique ==
    /\ \A c \in Conns : idOf[c] < generator
    /\ \A c \in Conns : ctx[c] = "none" <=> idOf[c] = 0
    /\ \A c, d \in Conns : idOf[c] = idOf[d] /\ idOf[c] # 0 => c = d

\* A connection has a context from its acceptance on.
ContextFollowsConnection ==
    /\ \A c \in Conns : conn[c] = "none" => ctx[c] = "none"
    /\ \A c \in Conns : conn[c] \in {"open", "refused", "closed"} => ctx[c] # "none"

\* A connection being accepted belongs to one listener callback.
Accepting ==
    /\ \A t \in Threads : InListener(t) /\ loc[t].conn # NoConn => conn[loc[t].conn] = "offered"
    /\ \A t, u \in Threads : /\ InListener(t) /\ InListener(u)
                             /\ loc[t].conn = loc[u].conn /\ loc[t].conn # NoConn
                             => t = u
    /\ \A t \in Threads : pc[t] \in {"generate", "insert", "configure"} => loc[t].conn # NoConn
    /\ \A t \in Threads : InListener(t) /\ loc[t].conn # NoConn =>
          (ctx[loc[t].conn] = "none" <=> pc[t] \notin {"insert", "configure"})
    /\ \A t \in Threads : pc[t] = "insert" => idOf[loc[t].conn] = loc[t].key

\* What is in the map was entered by its connection's own callback.
EntriesAreOwn ==
    \A entry \in mapped :
        /\ idOf[entry[2]] = entry[1] /\ ctx[entry[2]] # "none" /\ conn[entry[2]] # "none"
        /\ \A t \in Threads : InListener(t) /\ loc[t].conn = entry[2] => pc[t] = "configure"

VictimKnown ==
    \A t \in Threads : pc[t] \in {"erase", "delete"} =>
        loc[t].victim \in Conns /\ ctx[loc[t].victim] # "none"

IInv ==
    /\ TypeOK
    /\ IdsUnique
    /\ ContextFollowsConnection
    /\ Accepting
    /\ EntriesAreOwn
    /\ VictimKnown

CtxStages == {"none", "live", "lost", "freed", "twice"}
-----------------------------------------------------------------------------
\* What a delete does to the contexts: the one deleted is not live afterwards, and
\* any other is as before, or lost.
LEMMA DeleteEffects ==
    ASSUME ctx \in [Conns -> CtxStages], NEW c \in Conns, ctx[c] # "none",
           NEW stage \in {"lost", "freed"}, DeleteContext(c, stage)
    PROVE  /\ ctx' \in [Conns -> CtxStages]
           /\ ctx'[c] \notin {"none", "live"}
           /\ \A d \in Conns : d # c => ctx'[d] = ctx[d] \/ (ctx[d] = "live" /\ ctx'[d] = "lost")
           /\ ctx[c] = "lost" => ctx'[c] = "lost"
           /\ ctx[c] = "live" => ctx' = [ctx EXCEPT ![c] = stage] /\ proc' = proc
           /\ proc' \in {proc, "terminated"}
<1>1. CASE ctx[c] = "live"
    BY <1>1 DEF DeleteContext, CtxStages
<1>2. CASE ctx[c] # "live"
  <2> DEFINE mark == IF ctx[c] = "lost" THEN "lost" ELSE "twice"
             again == [ctx EXCEPT ![c] = mark]
  <2>1. \/ ctx' = again
        \/ \E d \in Conns : ctx[d] = "live" /\ ctx' = [again EXCEPT ![d] = "lost"]
    BY <1>2 DEF DeleteContext
  <2>2. proc' \in {proc, "terminated"}
    BY <1>2 DEF DeleteContext
  <2>3. mark \in {"lost", "twice"} /\ (ctx[c] = "lost" => mark = "lost")
    OBVIOUS
  <2>4. CASE ctx' = again
    BY <1>2, <2>2, <2>3, <2>4 DEF CtxStages
  <2>5. ASSUME NEW d \in Conns, ctx[d] = "live", ctx' = [again EXCEPT ![d] = "lost"]
        PROVE  /\ ctx' \in [Conns -> CtxStages]
               /\ ctx'[c] = mark
               /\ \A e \in Conns : e # c => ctx'[e] = IF e = d THEN "lost" ELSE ctx[e]
    <3>1. d # c
      BY <1>2, <2>5
    <3>2. QED
      BY <2>3, <2>5, <3>1 DEF CtxStages
  <2>6. QED
    BY <1>2, <2>1, <2>2, <2>3, <2>4, <2>5
<1>3. QED
    BY <1>1, <1>2

\* A map operation leaves no entry that was not asked for.
LEMMA MapEffects ==
    ASSUME NEW t \in Threads, NEW entries, MapBecomes(t, entries), proc \in {"up", "terminated"}
    PROVE  mapped' \subseteq entries /\ proc' \in {"up", "terminated"}
    BY DEF MapBecomes

\* Each step keeps the types: a thread that builds a context is accepting a connection.
LEMMA TypeStep == IInv /\ [Next]_vars => TypeOK'
<1> SUFFICES ASSUME TypeOK, ContextFollowsConnection, Accepting, VictimKnown, [Next]_vars
             PROVE  TypeOK'
    BY DEF IInv
<1> USE DEF TypeOK, Places, At, Goto, queue, heap
<1>1. CASE UNCHANGED vars
    BY <1>1 DEF vars
<1>2. ASSUME NEW t \in Threads, TestEmpty(t) PROVE TypeOK'
    BY <1>2 DEF TestEmpty
<1>3. ASSUME NEW t \in Threads, Front(t) PROVE TypeOK'
  <2>1. PICK key \in CellValues(head) : loc' = [loc EXCEPT ![t].key = key, ![t].cursor = head]
    BY <1>3 DEF Front
  <2>2. key \in Nat
    BY <2>1, ConnectionMapAssumption DEF CellValues
  <2>3. loc' = [loc EXCEPT ![t] = [loc[t] EXCEPT !.key = key, !.cursor = head]]
    BY <2>1, Zenon
  <2>4. [loc[t] EXCEPT !.key = key, !.cursor = head]
           \in [conn : Conns \cup {NoConn}, key : Nat,
               victim : Conns \cup {NoConn}, cursor : Nat \ {0}]
    BY <2>2
  <2>5. QED
    BY <1>3, <2>3, <2>4 DEF Front
<1>4. ASSUME NEW t \in Threads, Pop(t) PROVE TypeOK'
    BY <1>4 DEF Pop
<1>5. ASSUME NEW t \in Threads, Lookup(t) PROVE TypeOK'
    BY <1>5 DEF Lookup
<1>6. ASSUME NEW t \in Threads, LookupThrows(t) PROVE TypeOK'
    BY <1>6 DEF LookupThrows
<1>7. ASSUME NEW t \in Threads, Erase(t) PROVE TypeOK'
  <2>1. mapped' \subseteq mapped /\ proc' \in {"up", "terminated"}
    BY <1>7, MapEffects DEF Erase
  <2>2. QED
    BY <1>7, <2>1 DEF Erase
<1>8. ASSUME NEW t \in Threads, Delete(t) PROVE TypeOK'
  <2>1. ctx' \in [Conns -> CtxStages] /\ proc' \in {proc, "terminated"}
    BY <1>8, DeleteEffects DEF Delete, VictimKnown, CtxStages
  <2>2. QED
    BY <1>8, <2>1 DEF Delete, CtxStages
<1>9. ASSUME NEW t \in Threads, Generate(t) PROVE TypeOK'
  <2>1. generator + 1 \in Nat \ {0} /\ generator \in Nat
    OBVIOUS
  <2>2. [loc[t] EXCEPT !.key = generator]
           \in [conn : Conns \cup {NoConn}, key : Nat,
               victim : Conns \cup {NoConn}, cursor : Nat \ {0}]
    BY <2>1
  <2>3. loc' = [loc EXCEPT ![t] = [loc[t] EXCEPT !.key = generator]]
    BY <1>9, Zenon DEF Generate
  <2>4. loc' \in [Threads -> [conn : Conns \cup {NoConn}, key : Nat,
                            victim : Conns \cup {NoConn}, cursor : Nat \ {0}]]
    BY <2>2, <2>3
  <2>5. idOf' \in [Conns -> Nat] /\ generator' \in Nat \ {0}
    BY <1>9, <2>1 DEF Generate
  <2>6. QED
    BY <1>9, <2>4, <2>5 DEF Generate
<1>10. ASSUME NEW t \in Threads, Insert(t) PROVE TypeOK'
  <2>1. <<loc[t].key, loc[t].conn>> \in Nat \X Conns
    BY <1>10 DEF Insert, Accepting
  <2>2. mapped' \subseteq mapped \cup {<<loc[t].key, loc[t].conn>>} /\ proc' \in {"up", "terminated"}
    BY <1>10, MapEffects DEF Insert
  <2>3. QED
    BY <1>10, <2>1, <2>2 DEF Insert
<1>11. ASSUME NEW t \in Threads, Configure(t) PROVE TypeOK'
    BY <1>11 DEF Configure
<1>12. ASSUME NEW t \in Threads, PushStore(t) PROVE TypeOK'
    BY <1>12 DEF PushStore
<1>13. ASSUME NEW t \in Threads, PushAdvance(t) PROVE TypeOK'
    BY <1>13 DEF PushAdvance
<1>14. ASSUME NEW t \in Threads, StopComplete(t) PROVE TypeOK'
    BY <1>14 DEF StopComplete
<1>15. ASSUME NEW t \in Threads, NEW c \in Conns, NewConnection(t, c) PROVE TypeOK'
    BY <1>15 DEF NewConnection
<1>16. ASSUME NEW t \in Threads, NEW c \in Conns, ShutdownComplete(t, c) PROVE TypeOK'
  <2>1. PICK key \in Nat : loc' = [loc EXCEPT ![t].key = key]
    BY <1>16, ConnectionMapAssumption DEF ShutdownComplete
  <2>2. proc' \in {"up", "terminated"}
    BY <1>16 DEF ShutdownComplete
  <2>3. QED
    BY <1>16, <2>1, <2>2 DEF ShutdownComplete
<1>17. ASSUME NEW t \in Threads, NEW c \in Conns, StreamEnds(t, c) PROVE TypeOK'
  <2>1. ctx' \in [Conns -> CtxStages] /\ proc' \in {proc, "terminated"}
    BY <1>17, DeleteEffects DEF StreamEnds, ContextFollowsConnection, CtxStages
  <2>2. QED
    BY <1>17, <2>1 DEF StreamEnds, CtxStages
<1>18. QED
    BY <1>1, <1>2, <1>3, <1>4, <1>5, <1>6, <1>7, <1>8, <1>9, <1>10, <1>11, <1>12, <1>13,
       <1>14, <1>15, <1>16, <1>17 DEF Next, Callback

\* Whatever the threads do, an ended connection stays ended and keeps its id, and a
\* context a stream's end has deleted stays so.
LEMMA EndedForGood ==
    ASSUME IInv, [Next]_vars
    PROVE  \A c \in Conns : /\ conn[c] = "closed" => conn'[c] = "closed" /\ idOf'[c] = idOf[c]
                            /\ ctx[c] = "lost" => ctx'[c] = "lost"
<1> DEFINE Kept == \A c \in Conns : /\ conn[c] = "closed" => conn'[c] = "closed" /\ idOf'[c] = idOf[c]
                                    /\ ctx[c] = "lost" => ctx'[c] = "lost"
<1> USE DEF IInv, TypeOK, At, heap
<1>1. ASSUME NEW t \in Threads, Generate(t) PROVE Kept
  <2>1. loc[t].conn \in Conns /\ conn[loc[t].conn] = "offered" /\ ctx[loc[t].conn] = "none"
    BY <1>1 DEF Generate, Accepting, InListener
  <2>2. QED
    BY <1>1, <2>1 DEF Generate
<1>2. ASSUME NEW t \in Threads, Configure(t) PROVE Kept
    BY <1>2 DEF Configure, Accepting, InListener
<1>3. ASSUME NEW t \in Threads, NEW d \in Conns, NewConnection(t, d) \/ ShutdownComplete(t, d)
      PROVE  Kept
    BY <1>3 DEF NewConnection, ShutdownComplete
<1>4. ASSUME NEW t \in Threads, Delete(t) \/ \E c \in Conns : StreamEnds(t, c) PROVE Kept
  <2>1. \E c \in Conns, stage \in {"lost", "freed"} : ctx[c] # "none" /\ DeleteContext(c, stage)
    BY <1>4 DEF Delete, StreamEnds, VictimKnown, ContextFollowsConnection
  <2>2. \A c \in Conns : ctx[c] = "lost" => ctx'[c] = "lost"
    BY <2>1, DeleteEffects DEF CtxStages
  <2>3. UNCHANGED <<conn, idOf>>
    BY <1>4 DEF Delete, StreamEnds
  <2>4. QED
    BY <2>2, <2>3
<1>5. ASSUME NEW t \in Threads,
             \/ TestEmpty(t) \/ Front(t) \/ Pop(t) \/ Lookup(t) \/ LookupThrows(t)
             \/ Erase(t) \/ Insert(t) \/ PushStore(t) \/ PushAdvance(t) \/ StopComplete(t)
      PROVE  UNCHANGED <<conn, idOf, ctx>>
    BY <1>5 DEF TestEmpty, Front, Pop, Lookup, LookupThrows, Erase, Insert, PushStore,
                PushAdvance, StopComplete
<1>6. CASE UNCHANGED vars
    BY <1>6 DEF vars
<1>7. QED
    BY <1>1, <1>2, <1>3, <1>4, <1>5, <1>6 DEF Next, Callback

\* Entries stay their connections' own while no callback takes up one that is in the map.
LEMMA EntriesStay ==
    ASSUME EntriesAreOwn, mapped' \subseteq mapped,
           \A entry \in mapped : /\ idOf'[entry[2]] = idOf[entry[2]]
                                 /\ ctx'[entry[2]] # "none" /\ conn'[entry[2]] # "none",
           \A u \in Threads : InListener(u)' =>
               \/ InListener(u) /\ loc'[u].conn = loc[u].conn /\ pc[u] # "configure"
               \/ pc'[u] = "configure"
               \/ \A entry \in mapped : entry[2] # loc'[u].conn
    PROVE  EntriesAreOwn'
    BY DEF EntriesAreOwn

\* A connection being accepted stays with its callback while no other takes it up.
LEMMA AcceptingStays ==
    ASSUME Accepting, \A u \in Threads : loc[u].conn \in Conns \cup {NoConn},
           UNCHANGED <<conn, idOf>>, \A c \in Conns : ctx'[c] = "none" <=> ctx[c] = "none",
           \A u \in Threads : InListener(u)' =>
               \/ loc'[u].conn = NoConn /\ pc'[u] \notin {"generate", "insert", "configure"}
               \/ /\ InListener(u) /\ loc'[u].conn = loc[u].conn
                  /\ (pc'[u] \in {"insert", "configure"} <=> pc[u] \in {"insert", "configure"})
                  /\ (pc'[u] = "insert" => pc[u] = "insert" /\ loc'[u].key = loc[u].key)
                  /\ (pc'[u] = "generate" => loc[u].conn # NoConn)
    PROVE  Accepting'
<1>1. \A u \in Threads : pc'[u] \in {"generate", "insert", "configure"} => InListener(u)'
    BY DEF InListener
<1> DEFINE Same(u) == InListener(u) /\ loc'[u].conn = loc[u].conn
<1>2. \A u \in Threads : InListener(u)' /\ loc'[u].conn # NoConn => Same(u)
    OBVIOUS
<1>3. \A u \in Threads : InListener(u)' /\ loc'[u].conn # NoConn =>
          /\ conn'[loc'[u].conn] = "offered"
          /\ (ctx'[loc'[u].conn] = "none" <=> pc'[u] \notin {"insert", "configure"})
    BY <1>2 DEF Accepting
<1>4. \A t, u \in Threads : /\ InListener(t)' /\ InListener(u)'
                           /\ loc'[t].conn = loc'[u].conn /\ loc'[t].conn # NoConn => t = u
    BY <1>2 DEF Accepting
<1>5. \A u \in Threads : pc'[u] \in {"generate", "insert", "configure"} => loc'[u].conn # NoConn
    BY <1>1 DEF Accepting
<1>6. \A u \in Threads : pc'[u] = "insert" => idOf'[loc'[u].conn] = loc'[u].key
    BY <1>1 DEF Accepting
<1>7. QED
    BY <1>3, <1>4, <1>5, <1>6 DEF Accepting

\* The invariant holds before any connection.
LEMMA InvInit == Init => IInv
<1> SUFFICES ASSUME Init PROVE IInv
    OBVIOUS
<1>1. TypeOK
    BY DEF Init, TypeOK, Places
<1>2. IdsUnique /\ ContextFollowsConnection
    BY DEF Init, IdsUnique, ContextFollowsConnection
<1>3. Accepting /\ EntriesAreOwn /\ VictimKnown
    BY DEF Init, Accepting, InListener, EntriesAreOwn, VictimKnown
<1>4. QED
    BY <1>1, <1>2, <1>3 DEF IInv

\* Every step of every thread keeps the invariant.
LEMMA InvStep == IInv /\ [Next]_vars => IInv'
<1> SUFFICES ASSUME IInv, [Next]_vars PROVE IInv'
    OBVIOUS
<1> DEFINE Rest == IdsUnique /\ ContextFollowsConnection /\ Accepting /\ EntriesAreOwn /\ VictimKnown
<1> USE DEF IInv, At, Goto, queue, heap
<1>0. TypeOK'
    BY TypeStep
<1>l. \A u \in Threads : loc[u].conn \in Conns \cup {NoConn}
    BY DEF TypeOK
<1>m. \A entry \in mapped : entry[2] \in Conns
    BY DEF TypeOK
<1>1. CASE UNCHANGED vars
  <2>1. IdsUnique' /\ ContextFollowsConnection' /\ VictimKnown'
    BY <1>1 DEF vars, IdsUnique, ContextFollowsConnection, VictimKnown
  <2>2. Accepting'
    BY <1>1 DEF vars, Accepting, InListener
  <2>3. EntriesAreOwn'
    BY <1>1 DEF vars, EntriesAreOwn, InListener
  <2>4. QED
    BY <1>0, <2>1, <2>2, <2>3
\* Steps that leave the heap and the map alone.
<1>2. ASSUME NEW t \in Threads,
             \/ TestEmpty(t) \/ Front(t) \/ Pop(t) \/ Lookup(t) \/ LookupThrows(t)
             \/ PushStore(t) \/ PushAdvance(t) \/ StopComplete(t)
      PROVE  Rest'
  <2>1. UNCHANGED <<conn, ctx, idOf, generator, mapped>>
    BY <1>2 DEF TestEmpty, Front, Pop, Lookup, LookupThrows, PushStore, PushAdvance, StopComplete
  <2>2. \A u \in Threads : u # t => loc'[u] = loc[u] /\ pc'[u] = pc[u]
    BY <1>2 DEF TestEmpty, Front, Pop, Lookup, LookupThrows, PushStore, PushAdvance, StopComplete,
                TypeOK
  <2>3. \/ pc'[t] \in {"idle", "store", "advance"}
        \/ loc'[t].conn = NoConn
        \/ /\ InListener(t) /\ loc'[t].conn = loc[t].conn
           /\ pc[t] \notin {"insert", "configure"}
    <3>1. CASE TestEmpty(t) \/ Front(t) \/ Pop(t) \/ Lookup(t) \/ LookupThrows(t)
      <4>1. pc[t] \in {"empty", "front", "pop", "at"}
        BY <3>1 DEF TestEmpty, Front, Pop, Lookup, LookupThrows
      <4>2. CASE Front(t)
        BY <4>1, <4>2 DEF Front, TypeOK, InListener
      <4>3. CASE Lookup(t)
        BY <4>1, <4>3 DEF Lookup, TypeOK, InListener
      <4>4. CASE TestEmpty(t) \/ Pop(t) \/ LookupThrows(t)
        BY <4>1, <4>4 DEF TestEmpty, Pop, LookupThrows, TypeOK, InListener
      <4>5. QED
        BY <3>1, <4>2, <4>3, <4>4
    <3>2. CASE PushStore(t) \/ PushAdvance(t) \/ StopComplete(t)
      BY <3>2 DEF PushStore, PushAdvance, StopComplete, TypeOK
    <3>3. QED
      BY <1>2, <3>1, <3>2
  <2>4. /\ pc'[t] \notin {"insert", "configure"}
        /\ pc'[t] = "generate" => loc[t].conn # NoConn /\ loc'[t].conn = loc[t].conn
    BY <1>2 DEF TestEmpty, Front, Pop, Lookup, LookupThrows, PushStore, PushAdvance, StopComplete,
                TypeOK, Accepting
  <2>5. Accepting'
    <3>1. \A u \in Threads : pc[u] = "generate" => loc[u].conn # NoConn
      BY DEF Accepting
    <3>2. QED
      BY <1>l, <2>1, <2>2, <2>3, <2>4, <3>1, AcceptingStays DEF InListener
  <2>6. EntriesAreOwn'
    BY <1>m, <2>1, <2>2, <2>3, ConnectionMapAssumption, EntriesStay DEF EntriesAreOwn, InListener
  <2>7. pc'[t] \in {"erase", "delete"} =>
            loc'[t].victim \in Conns /\ ctx[loc'[t].victim] # "none"
    <3>1. CASE Lookup(t)
      <4>1. PICK entry \in mapped : loc' = [loc EXCEPT ![t].victim = entry[2]]
        BY <3>1 DEF Lookup
      <4>2. loc'[t].victim = entry[2]
        BY <4>1 DEF TypeOK
      <4>3. QED
        BY <1>m, <4>2 DEF EntriesAreOwn
    <3>2. CASE ~Lookup(t)
      BY <1>2, <3>2 DEF TestEmpty, Front, Pop, LookupThrows, PushStore, PushAdvance, StopComplete,
                        TypeOK, VictimKnown
    <3>3. QED
      BY <3>1, <3>2
  <2>8. QED
    BY <2>1, <2>2, <2>5, <2>6, <2>7 DEF IdsUnique, ContextFollowsConnection, VictimKnown
<1>3. ASSUME NEW t \in Threads, Erase(t) PROVE Rest'
  <2>1. mapped' \subseteq mapped
    BY <1>3, MapEffects DEF Erase, TypeOK
  <2>2. /\ UNCHANGED <<conn, ctx, idOf, generator, loc>> /\ pc' = [pc EXCEPT ![t] = "delete"]
        /\ pc[t] = "erase"
    BY <1>3 DEF Erase
  <2>3. Accepting' /\ VictimKnown'
    BY <2>2 DEF TypeOK, Accepting, InListener, VictimKnown
  <2>4. EntriesAreOwn'
    BY <2>1, <2>2 DEF TypeOK, EntriesAreOwn, InListener
  <2>5. QED
    BY <2>2, <2>3, <2>4 DEF IdsUnique, ContextFollowsConnection
\* The two deletes.
<1>4. ASSUME NEW t \in Threads, Delete(t) \/ \E c \in Conns : StreamEnds(t, c) PROVE Rest'
  <2>1. PICK c \in Conns, stage \in {"lost", "freed"} : ctx[c] # "none" /\ DeleteContext(c, stage)
    BY <1>4 DEF Delete, StreamEnds, VictimKnown, ContextFollowsConnection
  <2>2. \A d \in Conns : ctx'[d] = "none" <=> ctx[d] = "none"
    BY <2>1, DeleteEffects DEF CtxStages, TypeOK
  <2>3. UNCHANGED <<conn, idOf, generator, mapped, loc>>
    BY <1>4 DEF Delete, StreamEnds
  <2>4. pc' = pc \/ (pc' = [pc EXCEPT ![t] = "empty"] /\ pc[t] = "delete")
    BY <1>4 DEF Delete, StreamEnds
  <2>5. IdsUnique' /\ ContextFollowsConnection'
    BY <2>2, <2>3 DEF IdsUnique, ContextFollowsConnection
  <2>p. \A u \in Threads : pc'[u] = pc[u] \/ (pc'[u] = "empty" /\ pc[u] = "delete")
    BY <2>4 DEF TypeOK
  <2>6. Accepting'
    BY <1>l, <2>2, <2>3, <2>p, AcceptingStays DEF InListener, Accepting
  <2>7. EntriesAreOwn'
    BY <1>m, <2>2, <2>3, <2>p, EntriesStay DEF EntriesAreOwn, InListener
  <2>8. VictimKnown'
    BY <2>2, <2>3, <2>p DEF VictimKnown
  <2>9. QED
    BY <2>5, <2>6, <2>7, <2>8
<1>5. ASSUME NEW t \in Threads, Generate(t) PROVE Rest'
  <2> DEFINE c == loc[t].conn
  <2>1. c \in Conns /\ conn[c] = "offered" /\ ctx[c] = "none" /\ idOf[c] = 0 /\ pc[t] = "generate"
    BY <1>5 DEF Generate, TypeOK, Accepting, InListener, IdsUnique
  <2>2. /\ generator' = generator + 1
        /\ idOf' = [idOf EXCEPT ![c] = generator]
        /\ ctx' = [ctx EXCEPT ![c] = "live"]
        /\ UNCHANGED <<conn, mapped>>
    BY <1>5 DEF Generate
  <2>3. ContextFollowsConnection'
    BY <2>1, <2>2 DEF TypeOK, ContextFollowsConnection
  <2>4. \A u \in Threads : u # t => loc'[u] = loc[u] /\ pc'[u] = pc[u]
    BY <1>5 DEF Generate, TypeOK
  <2>5. /\ loc'[t].conn = c /\ loc'[t].key = generator /\ loc'[t].victim = loc[t].victim
        /\ pc'[t] = "insert"
    BY <1>5 DEF Generate, TypeOK
  <2>6. \A d \in Conns : d # c => ctx'[d] = ctx[d] /\ idOf'[d] = idOf[d]
    BY <2>2 DEF TypeOK
  <2>7. ctx'[c] = "live" /\ idOf'[c] = generator
    BY <2>1, <2>2 DEF TypeOK
  <2>i. IdsUnique'
    BY <2>2, <2>6, <2>7 DEF TypeOK, IdsUnique
  <2>8. \A u \in Threads : InListener(u) /\ u # t => loc[u].conn # c
    BY <2>1, ConnectionMapAssumption DEF Accepting, InListener, TypeOK
  <2>9. Accepting'
    <3>1. \A u \in Threads : loc[u].conn \in Conns \cup {NoConn}
      BY DEF TypeOK
    <3>2. QED
      BY <2>1, <2>2, <2>4, <2>5, <2>6, <2>7, <2>8, <3>1 DEF Accepting, InListener
  <2>10. VictimKnown'
    BY <2>4, <2>5, <2>6, <2>7 DEF VictimKnown
  <2>11. \A entry \in mapped : entry[2] \in Conns /\ entry[2] # c
    BY <2>1 DEF EntriesAreOwn, TypeOK
  <2>12. EntriesAreOwn'
    BY <2>2, <2>4, <2>5, <2>6, <2>11 DEF EntriesAreOwn, InListener
  <2>13. QED
    BY <2>3, <2>i, <2>9, <2>10, <2>12
<1>6. ASSUME NEW t \in Threads, Insert(t) PROVE Rest'
  <2> DEFINE c == loc[t].conn
             own == <<loc[t].key, c>>
  <2>1. /\ c \in Conns /\ conn[c] = "offered" /\ ctx[c] # "none" /\ idOf[c] = loc[t].key
        /\ pc[t] = "insert"
    BY <1>6 DEF Insert, TypeOK, Accepting, InListener
  <2>2. mapped' \subseteq mapped \cup {own}
    BY <1>6, MapEffects DEF Insert, TypeOK
  <2>3. UNCHANGED <<conn, ctx, idOf, generator, loc>> /\ pc' = [pc EXCEPT ![t] = "configure"]
    BY <1>6 DEF Insert
  <2>4. \A u \in Threads : pc'[u] = IF u = t THEN "configure" ELSE pc[u]
    BY <2>3 DEF TypeOK
  <2>5. Accepting' /\ VictimKnown'
    BY <2>1, <2>3, <2>4 DEF Accepting, InListener, VictimKnown
  <2>6. \A u \in Threads : InListener(u)' /\ loc[u].conn = c => pc'[u] = "configure"
    BY <2>1, <2>3, <2>4, ConnectionMapAssumption DEF Accepting, InListener
  <2>7. EntriesAreOwn'
    <3>1. ASSUME NEW entry \in mapped'
          PROVE  /\ idOf[entry[2]] = entry[1] /\ ctx[entry[2]] # "none" /\ conn[entry[2]] # "none"
                 /\ \A u \in Threads : InListener(u)' /\ loc[u].conn = entry[2] => pc'[u] = "configure"
      <4>1. CASE entry = own
        BY <2>1, <2>6, <4>1
      <4>2. CASE entry \in mapped
        BY <2>4, <4>2 DEF EntriesAreOwn, InListener
      <4>3. QED
        BY <2>2, <4>1, <4>2
    <3>2. QED
      BY <2>3, <3>1 DEF EntriesAreOwn
  <2>8. QED
    BY <2>3, <2>5, <2>7 DEF IdsUnique, ContextFollowsConnection
<1>7. ASSUME NEW t \in Threads, Configure(t) PROVE Rest'
  <2> DEFINE c == loc[t].conn
  <2>1. c \in Conns /\ conn[c] = "offered" /\ ctx[c] # "none" /\ pc[t] = "configure"
    BY <1>7 DEF Configure, TypeOK, Accepting, InListener
  <2>2. /\ conn' = [conn EXCEPT ![c] = "open"] \/ conn' = [conn EXCEPT ![c] = "refused"]
        /\ UNCHANGED <<ctx, idOf, generator, mapped, loc>>
        /\ pc' = [pc EXCEPT ![t] = "idle"]
    BY <1>7 DEF Configure
  <2>3. ContextFollowsConnection' /\ VictimKnown'
    BY <2>1, <2>2 DEF TypeOK, ContextFollowsConnection, VictimKnown
  <2>p. /\ \A u \in Threads : pc'[u] = IF u = t THEN "idle" ELSE pc[u]
        /\ \A d \in Conns : d # c => conn'[d] = conn[d]
        /\ conn'[c] # "none"
    BY <2>1, <2>2 DEF TypeOK
  <2>q. \A u \in Threads : InListener(u)' => u # t /\ InListener(u)
    BY <2>p DEF InListener
  <2>r. \A u \in Threads : InListener(u)' => loc[u].conn # c
    BY <2>1, <2>q, ConnectionMapAssumption DEF Accepting, InListener
  <2>4. Accepting'
    BY <1>l, <2>2, <2>p, <2>q, <2>r DEF Accepting, InListener
  <2>5. EntriesAreOwn'
    BY <1>m, <2>2, <2>p, <2>q, EntriesStay DEF EntriesAreOwn
  <2>6. QED
    BY <2>2, <2>3, <2>4, <2>5 DEF IdsUnique
<1>8. ASSUME NEW t \in Threads, NEW c \in Conns, NewConnection(t, c) PROVE Rest'
  <2>1. /\ conn[c] = "none" /\ ctx[c] = "none" /\ pc[t] = "idle"
        /\ conn' = [conn EXCEPT ![c] = "offered"]
        /\ UNCHANGED <<ctx, idOf, generator, mapped>>
    BY <1>8 DEF NewConnection, ContextFollowsConnection
  <2>2. \A u \in Threads : u # t => loc'[u] = loc[u] /\ pc'[u] = pc[u]
    BY <1>8 DEF NewConnection, TypeOK
  <2>3. loc'[t].conn = c /\ pc'[t] = "empty"
    BY <1>8 DEF NewConnection, TypeOK
  <2>p. \A d \in Conns : conn'[d] = IF d = c THEN "offered" ELSE conn[d]
    BY <2>1 DEF TypeOK
  <2>4. ContextFollowsConnection' /\ VictimKnown'
    BY <2>1, <2>2, <2>3, <2>p DEF ContextFollowsConnection, VictimKnown
  <2>5. \A u \in Threads : InListener(u) => loc[u].conn # c
    BY <2>1, ConnectionMapAssumption DEF Accepting
  <2>6. Accepting'
    BY <1>l, <2>1, <2>2, <2>3, <2>5, <2>p DEF Accepting, InListener
  <2>q. \A entry \in mapped : entry[2] # c
    BY <2>1 DEF EntriesAreOwn
  <2>7. EntriesAreOwn'
    BY <1>m, <2>1, <2>2, <2>3, <2>p, <2>q, EntriesStay DEF EntriesAreOwn, InListener
  <2>8. QED
    BY <2>1, <2>4, <2>6, <2>7 DEF IdsUnique
<1>9. ASSUME NEW t \in Threads, NEW c \in Conns, ShutdownComplete(t, c) PROVE Rest'
  <2>1. /\ conn[c] = "open" /\ pc[t] = "idle"
        /\ conn' = [conn EXCEPT ![c] = "closed"] /\ UNCHANGED <<ctx, idOf, generator, mapped>>
        /\ pc' = [pc EXCEPT ![t] = "store"]
    BY <1>9 DEF ShutdownComplete
  <2>2. \A u \in Threads : u # t => loc'[u] = loc[u]
    BY <1>9 DEF ShutdownComplete, TypeOK
  <2>3. ContextFollowsConnection' /\ VictimKnown'
    BY <2>1, <2>2 DEF TypeOK, ContextFollowsConnection, VictimKnown
  <2>p. /\ \A u \in Threads : pc'[u] = IF u = t THEN "store" ELSE pc[u]
        /\ \A d \in Conns : conn'[d] = IF d = c THEN "closed" ELSE conn[d]
    BY <2>1 DEF TypeOK
  <2>q. \A u \in Threads : InListener(u)' => u # t /\ InListener(u)
    BY <2>p DEF InListener
  <2>r. \A u \in Threads : InListener(u) => loc[u].conn # c
    BY <2>1, ConnectionMapAssumption DEF Accepting
  <2>4. Accepting'
    BY <1>l, <2>1, <2>2, <2>p, <2>q, <2>r DEF Accepting, InListener
  <2>5. EntriesAreOwn'
    BY <1>m, <2>1, <2>2, <2>p, <2>q, EntriesStay DEF EntriesAreOwn
  <2>6. QED
    BY <2>1, <2>3, <2>4, <2>5 DEF IdsUnique
<1>10. QED
    BY <1>0, <1>1, <1>2, <1>3, <1>4, <1>5, <1>6, <1>7, <1>8, <1>9 DEF Next, Callback

-----------------------------------------------------------------------------
\* The inductive invariant of ConnectionMap, for any number of threads.
THEOREM InvHolds == Spec => []IInv
    BY InvInit, InvStep, PTL DEF Spec

\* Every variable of the connection table and of the callbacks over it keeps its
\* type, whatever the threads interleave and whatever deleted memory holds.
THEOREM TypeCorrect == Spec => []TypeOK
    BY InvHolds, PTL DEF IInv

\* However the threads collide in the unlocked map and queue, the id a new
\* connection is entered under is free: no entry is kept in its place.
THEOREM NewIdsAreFree == Spec => []NewIdIsFree
<1>1. IInv => NewIdIsFree
  <2> SUFFICES ASSUME IInv, NEW t \in Threads, pc[t] = "insert",
                      NEW entry \in mapped, entry[1] = loc[t].key
               PROVE  FALSE
    BY DEF NewIdIsFree
  <2>1. loc[t].conn \in Conns /\ idOf[loc[t].conn] = loc[t].key /\ InListener(t)
    BY DEF IInv, TypeOK, Accepting, InListener
  <2>2. entry[2] \in Conns /\ idOf[entry[2]] = loc[t].key /\ idOf[entry[2]] # 0
    BY DEF IInv, TypeOK, EntriesAreOwn, IdsUnique
  <2>3. entry[2] = loc[t].conn
    BY <2>1, <2>2 DEF IInv, IdsUnique
  <2>4. QED
    BY <2>1, <2>3 DEF IInv, EntriesAreOwn
<1>2. QED
    BY <1>1, InvHolds, PTL
================================================================================
